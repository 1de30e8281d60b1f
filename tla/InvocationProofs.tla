---------------------------- MODULE InvocationProofs ----------------------------
(***************************************************************************)
(* Proofs about Invocation: for every command line, every bus, every word  *)
(* size, and however the calls of libusb go.                               *)
(***************************************************************************)
EXTENDS Invocation, LeastNumber

-----------------------------------------------------------------------------
(* The command line, as operators on a line and the number of options read *)
(* plus one, which is what optind is.                                      *)

Newest(S) == CHOOSE k \in S : \A m \in S : m <= k
GivenIn(line, k, letters) == {j \in 1..(k - 1) : Returned(line[j]) \in letters}
LastIn(line, k, letters) == line[Newest(GivenIn(line, k, letters))]
ArgumentIn(line, k, letter, width, default) ==
    IF GivenIn(line, k, {letter}) = {} THEN default
    ELSE LastIn(line, k, {letter}).arg[1] % width

NumbersIn(line, k, a) ==
    /\ a.lba = ArgumentIn(line, k, "l", Word, 0)
    /\ a.bc = ArgumentIn(line, k, "c", Word, 1)
    /\ a.offset = ArgumentIn(line, k, "o", Word, 0)
    /\ a.lun = ArgumentIn(line, k, "L", Word, 0) /\ a.lun <= MaxLun
    /\ a.entry_param = ArgumentIn(line, k, "E", Half, 0)
FilesIn(line, k, a) ==
    {a.ofilename, a.ifilename} = {IF GivenIn(line, k, {"f"}) = {} THEN DefaultName
                                  ELSE LastIn(line, k, {"f"}).arg[1]}
DeviceIn(line, k, a) ==
    /\ IF GivenIn(line, k, {"d"}) = {} THEN a.vid = 0 /\ a.pid = 0
       ELSE LET id == LastIn(line, k, {"d"}).arg
            IN  Len(id) = 2 /\ a.vid = id[1] % Word /\ a.pid = id[2] % Word
    /\ a.vid \in Halves /\ a.pid \in Halves
    /\ a.isdev <=> GivenIn(line, k, {"d"}) # {}
FlagsIn(line, k, a) ==
    /\ a.logical <=> IF GivenIn(line, k, {"O", "p"}) = {} THEN TRUE
                     ELSE Returned(LastIn(line, k, {"O", "p"})) = "O"
    /\ a.detach <=> GivenIn(line, k, {"D"}) # {}
    /\ a.alt <=> GivenIn(line, k, {"a"}) # {}
    /\ a.yes <=> GivenIn(line, k, {"yes"}) # {}
    /\ a.showdir <=> GivenIn(line, k, {"s"}) # {}
CommandIn(line, k, a) ==
    LET commands == GivenIn(line, k, DOMAIN CommandOf)
    IN  IF commands = {} THEN a.cmd = "none"
        ELSE /\ a.cmd = CommandOf[Returned(LastIn(line, k, DOMAIN CommandOf))]
             /\ \A j, m \in commands : j = m
ReadingIn(line, k, a) ==
    /\ NumbersIn(line, k, a) /\ FilesIn(line, k, a) /\ DeviceIn(line, k, a)
    /\ FlagsIn(line, k, a) /\ CommandIn(line, k, a)

(* Of finitely many numbers there is a newest one.                         *)
LEMMA NewestExists ==
    ASSUME NEW k \in Nat, NEW S \in SUBSET (1..k), S # {}
    PROVE  Newest(S) \in S /\ \A m \in S : m <= Newest(S)
<1> DEFINE T == {k - m : m \in S}
<1>1. T \in SUBSET Nat /\ T # {}
  <2>1. \A m \in S : k - m \in Nat
    OBVIOUS
  <2>2. PICK m \in S : TRUE
    OBVIOUS
  <2>3. k - m \in T
    OBVIOUS
  <2> QED BY <2>1, <2>3
<1>2. PICK x \in T : \A y \in T : x <= y
  <2> HIDE DEF T
  <2> QED BY <1>1, LeastNatural
<1>3. PICK j \in S : x = k - j
  OBVIOUS
<1>4. \A m \in S : m <= j
  <2> TAKE m \in S
  <2>1. k - m \in T
    OBVIOUS
  <2>2. x <= k - m
    <3> HIDE DEF T
    <3> QED BY <1>2, <2>1
  <2>3. k - j <= k - m /\ j \in Nat /\ m \in Nat
    BY <1>3, <2>2
  <2> QED BY <2>3
<1> QED BY <1>4 DEF Newest

(* AppIsReading is about the options read so far.                          *)
LEMMA ReadingDefined == AppIsReading <=> ReadingIn(argv, optind, app)
<1>1. /\ \A letters : Given(letters) = GivenIn(argv, optind, letters)
      /\ \A letters : LastGiven(letters) = LastIn(argv, optind, letters)
  BY DEF Given, GivenIn, LastGiven, LastIn, Newest
<1>2. \A letter, width, default :
          Argument(letter, width, default)
              = ArgumentIn(argv, optind, letter, width, default)
  BY <1>1 DEF Argument, ArgumentIn
<1> QED
  BY <1>1, <1>2 DEF AppIsReading, ReadingIn, NumbersIn, FilesIn, DeviceIn,
                    FlagsIn, CommandIn

(* One option more is given.                                               *)
LEMMA GivenNext ==
    ASSUME NEW line, NEW k \in Nat \ {0}, NEW letters
    PROVE  /\ GivenIn(line, k + 1, letters) =
                  IF Returned(line[k]) \in letters
                  THEN GivenIn(line, k, letters) \cup {k}
                  ELSE GivenIn(line, k, letters)
           /\ Returned(line[k]) \in letters =>
                  GivenIn(line, k + 1, letters) # {}
           /\ LastIn(line, k + 1, letters) =
                  IF Returned(line[k]) \in letters THEN line[k]
                  ELSE LastIn(line, k, letters)
<1>1. /\ 1..(k + 1 - 1) = 1..(k - 1) \cup {k}
      /\ \A j \in 1..(k - 1) : j <= k /\ j # k
  OBVIOUS
<1>2. GivenIn(line, k + 1, letters) =
          IF Returned(line[k]) \in letters THEN GivenIn(line, k, letters) \cup {k}
          ELSE GivenIn(line, k, letters)
  BY <1>1 DEF GivenIn
<1>3. CASE Returned(line[k]) \in letters
  <2>1. /\ k \in GivenIn(line, k + 1, letters)
        /\ \A m \in GivenIn(line, k + 1, letters) : m <= k
    BY <1>1, <1>2, <1>3 DEF GivenIn
  <2>2. \A j \in GivenIn(line, k + 1, letters) : k <= j => j = k
    BY <1>1 DEF GivenIn
  <2>3. Newest(GivenIn(line, k + 1, letters)) = k
    BY <2>1, <2>2 DEF Newest
  <2> QED BY <1>2, <1>3, <2>1, <2>3 DEF LastIn
<1>4. CASE Returned(line[k]) \notin letters
  BY <1>2, <1>4 DEF LastIn
<1> QED BY <1>2, <1>3, <1>4

LEMMA ArgumentNext ==
    ASSUME NEW line, NEW k \in Nat \ {0}, NEW letter, NEW width, NEW default
    PROVE  ArgumentIn(line, k + 1, letter, width, default) =
               IF Returned(line[k]) = letter THEN line[k].arg[1] % width
               ELSE ArgumentIn(line, k, letter, width, default)
<1>1. /\ GivenIn(line, k + 1, {letter}) =
             IF Returned(line[k]) = letter THEN GivenIn(line, k, {letter}) \cup {k}
             ELSE GivenIn(line, k, {letter})
      /\ Returned(line[k]) = letter => GivenIn(line, k + 1, {letter}) # {}
      /\ LastIn(line, k + 1, {letter}) =
             IF Returned(line[k]) = letter THEN line[k]
             ELSE LastIn(line, k, {letter})
  BY GivenNext
<1> QED BY <1>1 DEF ArgumentIn

-----------------------------------------------------------------------------
(* What one option makes of the structure app.                             *)

Structure ==
    [cmd : Commands \cup {"none"}, ofilename : Nat, ifilename : Nat,
     offset : Words, isdev : BOOLEAN, vid : Halves, pid : Halves,
     lun : 0..MaxLun, lba : Words, bc : Words, logical : BOOLEAN,
     showdir : BOOLEAN, detach : BOOLEAN, alt : BOOLEAN, yes : BOOLEAN,
     entry_param : Halves]

Numbers(token, a, b) ==
    LET t == Returned(token)
        Value(letter, width, old) ==
            IF t = letter THEN token.arg[1] % width ELSE old
    IN  /\ b.lba = Value("l", Word, a.lba) /\ b.bc = Value("c", Word, a.bc)
        /\ b.offset = Value("o", Word, a.offset)
        /\ b.lun = Value("L", Word, a.lun) /\ b.lun <= MaxLun
        /\ b.entry_param = Value("E", Half, a.entry_param)
Files(token, a, b) ==
    {b.ofilename, b.ifilename} = IF Returned(token) = "f" THEN {token.arg[1]}
                                 ELSE {a.ofilename, a.ifilename}
DeviceId(token, a, b) ==
    IF Returned(token) = "d"
    THEN /\ Len(token.arg) = 2 /\ b.isdev
         /\ b.vid = token.arg[1] % Word /\ b.pid = token.arg[2] % Word
         /\ b.vid \in Halves /\ b.pid \in Halves
    ELSE b.vid = a.vid /\ b.pid = a.pid /\ b.isdev = a.isdev
Flags(token, a, b) ==
    LET t == Returned(token)
    IN  /\ b.logical = IF t = "O" THEN TRUE ELSE IF t = "p" THEN FALSE
                       ELSE a.logical
        /\ b.detach = (t = "D" \/ a.detach) /\ b.alt = (t = "a" \/ a.alt)
        /\ b.yes = (t = "yes" \/ a.yes) /\ b.showdir = (t = "s" \/ a.showdir)
Command(token, a, b) ==
    IF Returned(token) \in DOMAIN CommandOf
    THEN a.cmd = "none" /\ b.cmd = CommandOf[Returned(token)]
    ELSE b.cmd = a.cmd
Reads(token, a, b) ==
    /\ Numbers(token, a, b) /\ Files(token, a, b) /\ DeviceId(token, a, b)
    /\ Flags(token, a, b) /\ Command(token, a, b)

LEMMA CommandLetters ==
    /\ DOMAIN CommandOf = {"e", "i", "C", "F", "I", "S", "r", "w", "R", "T", "M",
                           "P", "A", "E"}
    /\ \A t \in DOMAIN CommandOf : CommandOf[t] \in Commands
    /\ \A t \in DOMAIN CommandOf : CommandOf[t] # "none"
BY DEF CommandOf, Commands

(* An option that says what it reads keeps the reading of the line.        *)
LEMMA ReadingNext ==
    ASSUME NEW line, NEW k \in Nat \ {0}, NEW a \in Structure,
           NEW b \in Structure, ReadingIn(line, k, a), Reads(line[k], a, b)
    PROVE  ReadingIn(line, k + 1, b)
<1>1. NumbersIn(line, k + 1, b)
  BY ArgumentNext DEF NumbersIn, Numbers, ReadingIn, Reads
<1>2. ASSUME NEW L
      PROVE  /\ Returned(line[k]) \in L => /\ GivenIn(line, k + 1, L) # {}
                                           /\ LastIn(line, k + 1, L) = line[k]
             /\ Returned(line[k]) \notin L =>
                    /\ GivenIn(line, k + 1, L) = GivenIn(line, k, L)
                    /\ LastIn(line, k + 1, L) = LastIn(line, k, L)
  <2>1. /\ GivenIn(line, k + 1, L) =
               IF Returned(line[k]) \in L THEN GivenIn(line, k, L) \cup {k}
               ELSE GivenIn(line, k, L)
        /\ LastIn(line, k + 1, L) =
               IF Returned(line[k]) \in L THEN line[k] ELSE LastIn(line, k, L)
    BY GivenNext
  <2> QED BY <2>1
<1>3. FilesIn(line, k + 1, b)
  <2>1. CASE Returned(line[k]) = "f"
    BY <1>2, <2>1 DEF FilesIn, Files, ReadingIn, Reads
  <2>2. CASE Returned(line[k]) # "f"
    BY <1>2, <2>2 DEF FilesIn, Files, ReadingIn, Reads
  <2> QED BY <2>1, <2>2
<1>4. DeviceIn(line, k + 1, b)
  <2>1. CASE Returned(line[k]) = "d"
    BY <1>2, <2>1 DEF DeviceIn, DeviceId, ReadingIn, Reads
  <2>2. CASE Returned(line[k]) # "d"
    BY <1>2, <2>2 DEF DeviceIn, DeviceId, ReadingIn, Reads
  <2> QED BY <2>1, <2>2
<1>5. FlagsIn(line, k + 1, b)
  <2>1. b.logical <=> IF GivenIn(line, k + 1, {"O", "p"}) = {} THEN TRUE
                      ELSE Returned(LastIn(line, k + 1, {"O", "p"})) = "O"
    <3>1. CASE Returned(line[k]) \in {"O", "p"}
      BY <1>2, <3>1 DEF Flags, Reads
    <3>2. CASE Returned(line[k]) \notin {"O", "p"}
      BY <1>2, <3>2 DEF FlagsIn, Flags, ReadingIn, Reads
    <3> QED BY <3>1, <3>2
  <2>2. ASSUME NEW letter
        PROVE  GivenIn(line, k + 1, {letter}) # {} <=>
                   \/ Returned(line[k]) = letter
                   \/ GivenIn(line, k, {letter}) # {}
    BY <1>2
  <2>3. /\ b.detach <=> GivenIn(line, k + 1, {"D"}) # {}
        /\ b.alt <=> GivenIn(line, k + 1, {"a"}) # {}
        /\ b.yes <=> GivenIn(line, k + 1, {"yes"}) # {}
        /\ b.showdir <=> GivenIn(line, k + 1, {"s"}) # {}
    BY <2>2 DEF FlagsIn, Flags, ReadingIn, Reads, Structure
  <2> QED BY <2>1, <2>3 DEF FlagsIn
<1>6. CommandIn(line, k + 1, b)
  <2>1. CASE Returned(line[k]) \in DOMAIN CommandOf
    <3>1. GivenIn(line, k, DOMAIN CommandOf) = {}
      <4> DEFINE S == GivenIn(line, k, DOMAIN CommandOf)
      <4>1. SUFFICES ASSUME S # {} PROVE FALSE
        OBVIOUS
      <4>2. k - 1 \in Nat /\ S \in SUBSET (1..(k - 1))
        BY DEF GivenIn
      <4>3. Newest(S) \in S
        <5> HIDE DEF S
        <5> QED BY <4>1, <4>2, NewestExists
      <4>4. Returned(LastIn(line, k, DOMAIN CommandOf)) \in DOMAIN CommandOf
        BY <4>3 DEF LastIn, GivenIn
      <4>5. a.cmd = CommandOf[Returned(LastIn(line, k, DOMAIN CommandOf))]
        BY <4>1 DEF CommandIn, ReadingIn
      <4>6. a.cmd = "none"
        BY <2>1 DEF Command, Reads
      <4> QED BY <4>4, <4>5, <4>6, CommandLetters
    <3>2. GivenIn(line, k + 1, DOMAIN CommandOf) = {k}
      BY <2>1, <3>1, GivenNext
    <3>3. b.cmd = CommandOf[Returned(LastIn(line, k + 1, DOMAIN CommandOf))]
      BY <1>2, <2>1 DEF Command, Reads
    <3> QED BY <3>2, <3>3 DEF CommandIn
  <2>2. CASE Returned(line[k]) \notin DOMAIN CommandOf
    BY <1>2, <2>2 DEF CommandIn, Command, ReadingIn, Reads
  <2> QED BY <2>1, <2>2
<1> QED BY <1>1, <1>3, <1>4, <1>5, <1>6 DEF ReadingIn

-----------------------------------------------------------------------------
(* The numbers of the command line.                                        *)

LEMMA Widths ==
    /\ Word \in Nat \ {0} /\ Half \in Nat \ {0, 1}
    /\ \A x \in Nat : x % Word \in Words
    /\ \A x \in Nat : x % Half \in Halves
    /\ Halves \subseteq Words /\ 0 \in Halves /\ 1 \in Words
<1>1. Word \in Nat \ {0} /\ Half \in Nat \ {0, 1} /\ Half <= Word
  BY WidthAssumption
<1>2. \A x \in Nat : x % Word \in 0..(Word - 1)
  BY <1>1
<1>3. \A x \in Nat : x % Half \in 0..(Half - 1)
  BY <1>1
<1> QED BY <1>1, <1>2, <1>3 DEF Words, Halves

(* An option that getopt_long returns a letter with an argument for has one*)
LEMMA HasArgument ==
    ASSUME NEW token \in Options,
           Returned(token) \in {"f", "d", "L", "l", "c", "o", "E"}
    PROVE  token.arg \in Seq(Nat) /\ Len(token.arg) > 0 /\ token.arg[1] \in Nat
<1>1. token.name \in ShortArgs \cup LongArgs
  BY DEF Returned, ShortArgs, LongArgs, ShortOptions, longopt
<1>2. token.arg # <<>>
  BY <1>1 DEF Returned
<1>3. token.arg \in Seq(Nat)
  BY DEF Options
<1> QED BY <1>2, <1>3

(* The parts of TypeOK: the command line with its reading, and the program *)
LineType ==
    argv \in Seq(Options) /\ optind \in 1..(Len(argv) + 1) /\ app \in Structure

(* A step of the parser takes the next option and reads it, or none.       *)
LEMMA ParserReads ==
    ASSUME LineType, ParseStep
    PROVE  /\ argv' = argv
           /\ \/ optind' = optind /\ app' = app
              \/ /\ optind \in 1..Len(argv) /\ optind' = optind + 1
                 /\ app' \in Structure /\ Reads(argv[optind], app, app')
<1> DEFINE t == Opt
           w == optarg
           Done == /\ argv' = argv /\ optind' = optind + 1
                   /\ app' \in Structure /\ Reads(argv[optind], app, app')
<1>1. Parsing => optind \in 1..Len(argv) /\ argv[optind] \in Options
  BY DEF LineType, Parsing
<1>2. app \in Structure /\ app.lun <= MaxLun
  BY DEF LineType, Structure, MaxLun
<1>3. Parsing /\ t \in {"f", "d", "L", "l", "c", "o", "E"} =>
          w \in Seq(Nat) /\ Len(w) > 0 /\ w[1] \in Nat
  BY <1>1, HasArgument DEF Opt, optarg
<1>4. CASE SelectCommand /\ app.cmd = "none"
  <2>1. PICK c \in Commands, e \in Halves :
            /\ c = CommandOf[t] /\ e = IF t = "E" THEN w[1] % Half ELSE app.entry_param
    <3>1. CommandOf[t] \in Commands
      BY <1>4, CommandLetters DEF SelectCommand
    <3>2. (IF t = "E" THEN w[1] % Half ELSE app.entry_param) \in Halves
      BY <1>2, <1>3, <1>4, Widths DEF SelectCommand, Structure
    <3> QED BY <3>1, <3>2
  <2>2. /\ Parsing /\ t \in DOMAIN CommandOf /\ argv' = argv /\ optind' = optind + 1
        /\ app' = [app EXCEPT !.cmd = c, !.entry_param = e]
    BY <1>4, <2>1 DEF SelectCommand, Take
  <2>3. app' \in Structure
    BY <1>2, <2>2 DEF Structure
  <2>4. Reads(argv[optind], app, app')
    BY <1>2, <1>4, <2>1, <2>2, CommandLetters
       DEF Reads, Numbers, Files, DeviceId, Flags, Command, Structure, Opt, optarg
  <2> QED BY <1>1, <2>2, <2>3, <2>4
<1>5. CASE SetFile
  <2>1. PICK x \in Nat : x = w[1]
    BY <1>3, <1>5 DEF SetFile
  <2>2. /\ Parsing /\ t = "f" /\ argv' = argv /\ optind' = optind + 1
        /\ app' = [app EXCEPT !.ofilename = x, !.ifilename = x]
    BY <1>5, <2>1 DEF SetFile, Take
  <2>3. app' \in Structure
    BY <1>2, <2>2 DEF Structure
  <2>4. Reads(argv[optind], app, app')
    BY <1>2, <2>1, <2>2, CommandLetters
       DEF Reads, Numbers, Files, DeviceId, Flags, Command, Structure, Opt, optarg
  <2> QED BY <1>1, <2>2, <2>3, <2>4
<1>6. CASE ParseDevid /\ Len(w) = 2 /\ w[1] % Word \in Halves /\ w[2] % Word \in Halves
  <2>1. PICK x \in Halves, y \in Halves : x = w[1] % Word /\ y = w[2] % Word
    BY <1>6
  <2>2. /\ Parsing /\ t = "d" /\ argv' = argv /\ optind' = optind + 1
        /\ app' = [app EXCEPT !.vid = x, !.pid = y, !.isdev = TRUE]
    BY <1>6, <2>1 DEF ParseDevid, Take
  <2>3. app' \in Structure
    BY <1>2, <2>2 DEF Structure
  <2>4. Reads(argv[optind], app, app')
    BY <1>2, <1>6, <2>1, <2>2, CommandLetters
       DEF Reads, Numbers, Files, DeviceId, Flags, Command, Structure, Opt, optarg
  <2> QED BY <1>1, <2>2, <2>3, <2>4
<1>7. CASE SetLun /\ ~(w[1] % Word > MaxLun)
  <2>1. PICK x \in 0..MaxLun : x = w[1] % Word
    <3>1. w[1] % Word \in Words
      BY <1>3, <1>7, Widths DEF SetLun
    <3>2. w[1] % Word \in Nat
      BY <3>1 DEF Words
    <3> QED BY <1>7, <3>2 DEF MaxLun
  <2>2. /\ Parsing /\ t = "L" /\ argv' = argv /\ optind' = optind + 1
        /\ app' = [app EXCEPT !.lun = x]
    BY <1>7, <2>1 DEF SetLun, Take
  <2>3. app' \in Structure
    BY <1>2, <2>2 DEF Structure
  <2>4. Reads(argv[optind], app, app')
    BY <1>2, <1>7, <2>1, <2>2, CommandLetters
       DEF Reads, Numbers, Files, DeviceId, Flags, Command, Structure, Opt, optarg,
           MaxLun
  <2> QED BY <1>1, <2>2, <2>3, <2>4
<1>8. CASE SetNumber
  <2>1. PICK x \in Words : x = w[1] % Word
    BY <1>3, <1>8, Widths DEF SetNumber
  <2>2. Parsing /\ argv' = argv /\ optind' = optind + 1
    BY <1>8 DEF SetNumber, Take
  <2>3. \/ t = "l" /\ app' = [app EXCEPT !.lba = x]
        \/ t = "c" /\ app' = [app EXCEPT !.bc = x]
        \/ t = "o" /\ app' = [app EXCEPT !.offset = x]
    BY <1>8, <2>1 DEF SetNumber, Take
  <2>4. app' \in Structure
    BY <1>2, <2>3 DEF Structure
  <2>5. Reads(argv[optind], app, app')
    <3> USE CommandLetters
        DEF Reads, Numbers, Files, DeviceId, Flags, Command, Structure, Opt, optarg
    <3>1. CASE t = "l" /\ app' = [app EXCEPT !.lba = x]
      BY <1>2, <2>1, <3>1
    <3>2. CASE t = "c" /\ app' = [app EXCEPT !.bc = x]
      BY <1>2, <2>1, <3>2
    <3>3. CASE t = "o" /\ app' = [app EXCEPT !.offset = x]
      BY <1>2, <2>1, <3>3
    <3> QED BY <2>3, <3>1, <3>2, <3>3
  <2> QED BY <1>1, <2>2, <2>4, <2>5
<1>9. CASE SetFlag
  <2>1. Parsing /\ argv' = argv /\ optind' = optind + 1
    BY <1>9 DEF SetFlag, Take
  <2>2. \/ t = "O" /\ app' = [app EXCEPT !.logical = TRUE]
        \/ t = "p" /\ app' = [app EXCEPT !.logical = FALSE]
        \/ t = "s" /\ app' = [app EXCEPT !.showdir = TRUE]
        \/ t = "D" /\ app' = [app EXCEPT !.detach = TRUE]
        \/ t = "a" /\ app' = [app EXCEPT !.alt = TRUE]
        \/ t = "yes" /\ app' = [app EXCEPT !.yes = TRUE]
    BY <1>9 DEF SetFlag, Take
  <2>3. app' \in Structure
    <3>1. \A a \in Structure, b \in BOOLEAN :
              /\ [a EXCEPT !.logical = b] \in Structure
              /\ [a EXCEPT !.showdir = b] \in Structure
              /\ [a EXCEPT !.detach = b] \in Structure
      BY DEF Structure
    <3>2. \A a \in Structure, b \in BOOLEAN :
              /\ [a EXCEPT !.alt = b] \in Structure
              /\ [a EXCEPT !.yes = b] \in Structure
      BY DEF Structure
    <3> QED BY <1>2, <2>2, <3>1, <3>2
  <2>4. /\ Returned(argv[optind]) \in {"O", "p", "s", "D", "a", "yes"}
        /\ Returned(argv[optind]) = t
    BY <2>2 DEF Opt
  <2>5. \A field \in DOMAIN app \ {"logical", "showdir", "detach", "alt", "yes"} :
            app'[field] = app[field]
    BY <1>2, <2>2 DEF Structure
  <2>6. /\ app'.lba = app.lba /\ app'.bc = app.bc /\ app'.offset = app.offset
        /\ app'.lun = app.lun /\ app'.entry_param = app.entry_param
        /\ app'.ofilename = app.ofilename /\ app'.ifilename = app.ifilename
        /\ app'.vid = app.vid /\ app'.pid = app.pid /\ app'.isdev = app.isdev
        /\ app'.cmd = app.cmd
    BY <1>2, <2>5 DEF Structure
  <2>7. Numbers(argv[optind], app, app')
    BY <1>2, <2>4, <2>6 DEF Numbers
  <2>8. Files(argv[optind], app, app') /\ DeviceId(argv[optind], app, app')
    BY <2>4, <2>6 DEF Files, DeviceId
  <2>9. Command(argv[optind], app, app')
    BY <2>4, <2>6, CommandLetters DEF Command
  <2>10. Flags(argv[optind], app, app')
    BY <1>2, <2>2, <2>4 DEF Flags, Structure
  <2> QED BY <1>1, <2>1, <2>3, <2>7, <2>8, <2>9, <2>10 DEF Reads
<1>10. \/ SelectCommand /\ app.cmd = "none"
       \/ SetFile
       \/ ParseDevid /\ Len(w) = 2 /\ w[1] % Word \in Halves /\ w[2] % Word \in Halves
       \/ SetLun /\ ~(w[1] % Word > MaxLun)
       \/ SetNumber
       \/ SetFlag
       \/ UNCHANGED <<argv, optind, app>>
  BY DEF ParseStep, SelectCommand, AskForHelp, ParseDevid, SetLun, EndOfLine,
         Help, Refuse, ExitWith
<1> QED BY <1>4, <1>5, <1>6, <1>7, <1>8, <1>9, <1>10

(* Whatever the options are, the structure says what was read.             *)
LEMMA ParserKeepsReading ==
    ASSUME LineType, AppIsReading, ParseStep
    PROVE  LineType' /\ AppIsReading'
<1>1. ReadingIn(argv, optind, app)
  BY ReadingDefined
<1>2. argv' = argv /\ optind' \in 1..(Len(argv) + 1) /\ app' \in Structure
  BY ParserReads DEF LineType
<1>3. ReadingIn(argv, optind', app')
  BY <1>1, ParserReads, ReadingNext DEF LineType
<1>4. (AppIsReading <=> ReadingIn(argv, optind, app))'
  BY ReadingDefined, PTL
<1> QED BY <1>2, <1>3, <1>4 DEF LineType

-----------------------------------------------------------------------------
(* The bulk context.                                                       *)

Contexts(len) ==
    [dev : 0..len, handle : 0..len, conf : 0..len, interface : Nat,
     claimed : BOOLEAN, in : 0..255, out : 0..255]
ContextType ==
    /\ devices \in Seq(UsbDevices)
    /\ at \in {"idle", "list", "next", "descriptor", "open", "config", "scan",
               "unsuitable", "compare", "claim", "identify", "refused",
               "opened", "enumerated"}
    /\ n \in 1..(Len(devices) + 1) /\ setting \in Nat
    /\ uctx \in Contexts(Len(devices))
    /\ listed \in BOOLEAN /\ misuse \in BOOLEAN /\ actid \in BOOLEAN
    /\ \A set \in {handles, confs, claims, found, tested, short, failed} :
           set \subseteq 1..Len(devices)

(* An alternate setting that can be used, a device with one, and a context *)
(* that names the interface and two endpoints of one.                      *)
Usable(s) ==
    s.storage /\ \E a, b \in 1..Len(s.endpoints) :
        /\ s.endpoints[a].bulk /\ s.endpoints[a].in
        /\ s.endpoints[b].bulk /\ ~s.endpoints[b].in
HasUsable(d) == \E k \in 1..Len(d.settings) : Usable(d.settings[k])
Names(u, s) ==
    /\ s.storage /\ s.interface = u.interface
    /\ Bulk(s, u.in, TRUE) /\ Bulk(s, u.out, FALSE)
NamesOneOf(u, d) == \E k \in 1..Len(d.settings) : Names(u, d.settings[k])

(* A device that open_device went past although it could be used.          *)
Passed(d) ==
    /\ d < n /\ want \notin {AnyDevice, devices[d].id} /\ Suitable(d)
    /\ d \in handles \cap confs

(* The books agree with the context, but for the devices passed over.      *)
BooksInv ==
    /\ ~misuse
    /\ claims = IF uctx.claimed THEN {uctx.handle} ELSE {}
    /\ uctx.claimed => uctx.handle # 0
    /\ uctx.conf \in {0, uctx.handle}
    /\ uctx.handle # 0 => /\ uctx.handle \in handles
                          /\ uctx.handle \in confs <=> uctx.conf = uctx.handle
    /\ \A d \in handles \cup confs : d # uctx.handle => Passed(d)

(* What the context holds at each place.                                   *)
PlaceInv ==
    /\ at \in {"idle", "list"} =>
           n = 1 /\ uctx = ZeroContext /\ handles \cup confs = {}
    /\ at \in {"idle", "list", "opened", "refused", "enumerated"} => ~listed
    /\ at \in {"descriptor", "open", "config", "scan", "unsuitable", "compare",
               "claim", "identify", "opened"} => n <= Len(devices)
    /\ at = "descriptor" => uctx = ZeroContext
    /\ at = "open" => uctx = [ZeroContext EXCEPT !.dev = n]
    /\ at = "config" => uctx.dev = n /\ uctx.handle = n /\ uctx.conf = 0
    /\ at \in {"scan", "compare"} => uctx.dev = n
    /\ at \in {"scan", "compare", "claim", "identify", "opened"} =>
           uctx.handle = n /\ uctx.conf = n
    /\ at = "scan" => /\ setting > 0
                      /\ \A k \in 1..Len(devices[n].settings) :
                             k < setting => ~Usable(devices[n].settings[k])
    /\ at = "unsuitable" => /\ uctx.handle \in {0, n} /\ uctx.conf = uctx.handle
                            /\ n \in failed \/ ~HasUsable(devices[n])
    /\ at \in {"next", "refused", "enumerated"} =>
           uctx.conf = uctx.handle /\ \A d \in handles \cup confs : Passed(d)
    /\ uctx.claimed <=> at \in {"identify", "opened"}
    /\ at \in {"compare", "claim", "identify", "opened"} =>
           NamesOneOf(uctx, devices[n])
    /\ at \in {"compare", "opened"} => want # AnyDevice
    /\ at \in {"identify", "enumerated"} => want = AnyDevice
    /\ at \in {"claim", "opened"} /\ want # AnyDevice =>
           devices[n].id = want /\ ~listed

(* Where actid and the count of enumerate_devices come from.               *)
TestInv ==
    /\ \A d \in tested : d < n
    /\ actid => \E e \in tested : devices[e].actions
    /\ \A d \in found :
           \/ devices[d].actions
           \/ d \in short /\ \E e \in tested : e < d /\ devices[e].actions

(* The devices of which the loop is through.                               *)
VisitInv ==
    /\ \A d \in 1..(n - 1) : Suitable(d) =>
           \/ d \in failed
           \/ IF want = AnyDevice THEN d \in tested ELSE devices[d].id # want
    /\ at = "enumerated" => n = Len(devices) + 1
    /\ at = "refused" /\ want # AnyDevice /\ n > 1 =>
           LET asked == {d \in 1..Len(devices) : devices[d].id = want /\ Suitable(d)}
           IN  asked = {} \/ asked \cap failed # {}
    /\ TestInv

ContextInv == BooksInv /\ PlaceInv /\ VisitInv

LEMMA SuitableDefined ==
    \A d : Suitable(d) <=> HasUsable(devices[d])
BY DEF Suitable, HasUsable, Usable

LEMMA SuitableSame ==
    ASSUME devices' = devices
    PROVE  \A d : Suitable(d)' <=> Suitable(d)
BY DEF Suitable

(* A context that names a setting names a device that has one.             *)
LEMMA NamedIsUsable ==
    ASSUME NEW u, NEW d, NamesOneOf(u, d)
    PROVE  HasUsable(d)
<1>1. PICK k \in 1..Len(d.settings) : Names(u, d.settings[k])
  BY DEF NamesOneOf
<1>2. Usable(d.settings[k])
  BY <1>1 DEF Names, Usable, Bulk
<1> QED BY <1>2 DEF HasUsable

(* An alternate setting whose endpoints have both directions is usable, and*)
(* the context then names it; otherwise it is not.                         *)
LEMMA EndpointTaken ==
    ASSUME NEW eps \in Seq(EndpointDescriptors), NEW k \in 0..Len(eps),
           NEW in \in BOOLEAN, NEW old \in 0..255
    PROVE  /\ Endpoint(eps, k, in, old) \in 0..255
           /\ in \in endpoints_found(eps, k) =>
                  \E m \in 1..Len(eps) :
                      /\ eps[m].bulk /\ eps[m].in = in
                      /\ eps[m].addr = Endpoint(eps, k, in, old)
<1> DEFINE same == {m \in 1..k : eps[m].bulk /\ eps[m].in = in}
<1>1. same \in SUBSET (1..k) /\ same \subseteq 1..Len(eps) /\ k \in Nat
  OBVIOUS
<1>2. CASE same = {}
  BY <1>2 DEF Endpoint, endpoints_found
<1>3. CASE same # {}
  <2>1. Newest(same) \in same
    <3> HIDE DEF same
    <3> QED BY <1>1, <1>3, NewestExists
  <2>2. Endpoint(eps, k, in, old) = eps[Newest(same)].addr
    BY <1>3 DEF Endpoint, Newest
  <2>3. Newest(same) \in 1..Len(eps)
    BY <1>1, <2>1
  <2>4. eps[Newest(same)].addr \in 0..255
    <3>1. \A m \in 1..Len(eps) : eps[m] \in EndpointDescriptors
      OBVIOUS
    <3>2. \A e \in EndpointDescriptors : e.addr \in 0..255
      BY DEF EndpointDescriptors
    <3> HIDE DEF same
    <3> QED BY <2>3, <3>1, <3>2
  <2> QED BY <2>1, <2>2, <2>3, <2>4
<1> QED BY <1>2, <1>3

(* The scan of one alternate setting: it is usable exactly if the endpoints*)
(* of both directions are found, and the context then names it.            *)
Both(s) == {k \in 1..Len(s.endpoints) : s.storage
                                        /\ endpoints_found(s.endpoints, k) = BOOLEAN}
Last(s) == IF ~s.storage THEN 0
           ELSE IF Both(s) = {} THEN Len(s.endpoints)
           ELSE CHOOSE k \in Both(s) : \A m \in Both(s) : k <= m

LEMMA ScanFacts ==
    ASSUME NEW s \in InterfaceDescriptors
    PROVE  /\ Last(s) \in 0..Len(s.endpoints)
           /\ Both(s) = {} => ~Usable(s)
           /\ Both(s) # {} => /\ s.storage
                              /\ endpoints_found(s.endpoints, Last(s)) = BOOLEAN
<1>1. s.endpoints \in Seq(EndpointDescriptors) /\ s.storage \in BOOLEAN
  BY DEF InterfaceDescriptors
<1>2. Both(s) \in SUBSET Nat /\ Both(s) \subseteq 1..Len(s.endpoints)
  BY <1>1 DEF Both
<1>3. CASE Both(s) # {}
  <2>1. PICK k \in Both(s) : \A m \in Both(s) : k <= m
    BY <1>2, <1>3, LeastNatural
  <2>2. s.storage
    BY <1>3 DEF Both
  <2>3. Last(s) \in Both(s)
    BY <1>3, <2>1, <2>2 DEF Last
  <2>4. Last(s) \in 1..Len(s.endpoints) /\ endpoints_found(s.endpoints, Last(s)) = BOOLEAN
    BY <2>3 DEF Both
  <2> QED BY <1>1, <1>3, <2>2, <2>4
<1>4. CASE Both(s) = {}
  <2>1. Last(s) \in 0..Len(s.endpoints)
    BY <1>1, <1>4 DEF Last
  <2>2. ASSUME Usable(s) PROVE FALSE
    <3>1. PICK a \in 1..Len(s.endpoints), b \in 1..Len(s.endpoints) :
              /\ s.endpoints[a].bulk /\ s.endpoints[a].in
              /\ s.endpoints[b].bulk /\ ~s.endpoints[b].in
      BY <2>2 DEF Usable
    <3>2. s.endpoints[a].in = TRUE /\ s.endpoints[b].in = FALSE
      <4>1. \A m \in 1..Len(s.endpoints) : s.endpoints[m] \in EndpointDescriptors
        BY <1>1
      <4>2. \A e \in EndpointDescriptors : e.in \in BOOLEAN
        BY DEF EndpointDescriptors
      <4>3. s.endpoints[a].in \in BOOLEAN /\ s.endpoints[b].in \in BOOLEAN
        BY <4>1, <4>2
      <4> QED BY <3>1, <4>3
    <3>3. \A m \in 1..Len(s.endpoints) : s.endpoints[m].in \in BOOLEAN
      <4>1. \A m \in 1..Len(s.endpoints) : s.endpoints[m] \in EndpointDescriptors
        BY <1>1
      <4>2. \A e \in EndpointDescriptors : e.in \in BOOLEAN
        BY DEF EndpointDescriptors
      <4> QED BY <4>1, <4>2
    <3>4. endpoints_found(s.endpoints, Len(s.endpoints)) = BOOLEAN
      BY <3>1, <3>2, <3>3 DEF endpoints_found
    <3>5. Len(s.endpoints) \in Both(s)
      BY <1>1, <2>2, <3>1, <3>4 DEF Both, Usable
    <3> QED BY <1>4, <3>5
  <2> QED BY <1>4, <2>1, <2>2
<1> QED BY <1>3, <1>4

(* free_bulk_context: nothing is released that is not held, and of what the*)
(* context does not name nothing is touched.                               *)
LEMMA FreeReleases ==
    ASSUME ContextType, BooksInv, FreeContext, UNCHANGED <<devices, want>>,
           n' \in {n, n + 1}
    PROVE  /\ BooksInv' /\ ~uctx'.claimed /\ uctx'.handle = 0 /\ uctx'.conf = 0
           /\ \A d \in (handles \cup confs)' : Passed(d)'
           /\ uctx' \in Contexts(Len(devices)) /\ misuse' \in BOOLEAN
           /\ \A set \in {handles', confs', claims'} : set \subseteq 1..Len(devices)
<1>1. /\ uctx \in Contexts(Len(devices)) /\ Len(devices) \in Nat /\ n \in Nat
      /\ handles \subseteq 1..Len(devices) /\ confs \subseteq 1..Len(devices)
      /\ claims \subseteq 1..Len(devices)
  BY DEF ContextType
<1>2. PICK i \in Nat : uctx' = [ZeroContext EXCEPT !.interface = i]
  BY <1>1 DEF FreeContext, Contexts
<1>3. /\ uctx' \in Contexts(Len(devices)) /\ ~uctx'.claimed
      /\ uctx'.handle = 0 /\ uctx'.conf = 0
  <2>1. uctx' = [dev |-> 0, handle |-> 0, conf |-> 0, interface |-> i,
                 claimed |-> FALSE, in |-> 0, out |-> 0]
    BY <1>2 DEF ZeroContext
  <2>2. 0 \in 0..Len(devices) /\ 0 \in 0..255
    BY <1>1
  <2> QED BY <2>1, <2>2 DEF Contexts
<1>4. claims' = {} /\ misuse' = FALSE
  BY <1>1 DEF FreeContext, BooksInv
<1>5. handles' = handles \ {uctx.handle} /\ confs' = confs \ {uctx.conf}
  BY DEF FreeContext
<1>6. \A d \in handles' \cup confs' : d # uctx.handle /\ d \in handles \cup confs
  BY <1>1, <1>5 DEF BooksInv
<1>7. \A d : Suitable(d)' <=> Suitable(d)
  BY SuitableSame
<1>8. \A d \in handles' \cup confs' : Passed(d) /\ d \in handles' \cap confs'
  <2> SUFFICES ASSUME NEW d \in handles' \cup confs'
               PROVE  Passed(d) /\ d \in handles' \cap confs'
    OBVIOUS
  <2>1. Passed(d)
    BY <1>6 DEF BooksInv
  <2>2. d \in handles \cap confs /\ d # uctx.handle /\ d # 0
    BY <1>1, <1>6, <2>1 DEF Passed
  <2>3. d # uctx.conf
    BY <2>2 DEF BooksInv
  <2> QED BY <1>5, <2>1, <2>2, <2>3
<1>9. \A d \in handles' \cup confs' : d < n'
  BY <1>1, <1>5, <1>8 DEF Passed
<1>10. \A d \in (handles \cup confs)' : Passed(d)'
  BY <1>7, <1>8, <1>9 DEF Passed
<1>11. BooksInv'
  BY <1>3, <1>4, <1>10 DEF BooksInv
<1> QED BY <1>1, <1>3, <1>4, <1>5, <1>10, <1>11

(* Nothing is known less of the devices while the loop stays at one.       *)
LEMMA VisitKept ==
    ASSUME ContextType, VisitInv, UNCHANGED <<devices, want, n, tally>>,
           failed \subseteq failed', at' \notin {"refused", "enumerated"}
    PROVE  VisitInv'
<1>1. \A d : Suitable(d)' <=> Suitable(d)
  BY SuitableSame
<1> QED BY <1>1 DEF VisitInv, TestInv, tally

(* The loop goes on with the next device.                                  *)
LEMMA VisitNext ==
    ASSUME ContextType, VisitInv, UNCHANGED <<devices, want>>, n' = n + 1,
           failed \subseteq failed', tested \subseteq tested', at' = "next",
           \/ n \in failed' \/ ~HasUsable(devices[n])
           \/ IF want = AnyDevice THEN n \in tested' ELSE devices[n].id # want,
           TestInv'
    PROVE  VisitInv'
<1>1. \A d : Suitable(d)' <=> Suitable(d)
  BY SuitableSame
<1>2. n \in Nat /\ 1..(n' - 1) = 1..(n - 1) \cup {n}
  BY DEF ContextType
<1>3. \A d \in 1..(n - 1) : Suitable(d) =>
          \/ d \in failed'
          \/ IF want = AnyDevice THEN d \in tested' ELSE devices[d].id # want
  BY DEF VisitInv
<1>4. ASSUME NEW d, d = n, Suitable(d)
      PROVE  \/ d \in failed'
             \/ IF want = AnyDevice THEN d \in tested' ELSE devices[d].id # want
  BY <1>4, SuitableDefined
<1>5. \A d \in 1..(n' - 1) : Suitable(d)' =>
          \/ d \in failed'
          \/ IF want' = AnyDevice THEN d \in tested' ELSE devices'[d].id # want'
  BY <1>1, <1>2, <1>3, <1>4
<1> QED BY <1>5 DEF VisitInv

(* A failing call of init_bulk_context.                                    *)
LEMMA InitFailsNext ==
    ASSUME ContextType, ContextInv, InitFails, n <= Len(devices),
           UNCHANGED <<devices, want, n, tally>>, setting' \in Nat
    PROVE  ContextType' /\ ContextInv'
<1>1. /\ failed' = failed \cup {n} /\ FreeContext /\ at' = "unsuitable"
      /\ listed' = listed
  BY DEF InitFails, Fails
<1>2. /\ BooksInv' /\ ~uctx'.claimed /\ uctx'.handle = 0 /\ uctx'.conf = 0
      /\ uctx' \in Contexts(Len(devices)) /\ misuse' \in BOOLEAN
      /\ \A set \in {handles', confs', claims'} : set \subseteq 1..Len(devices)
  BY <1>1, FreeReleases DEF ContextInv
<1>3. n \in 1..Len(devices)
  BY DEF ContextType
<1>4. ContextType'
  BY <1>1, <1>2, <1>3 DEF ContextType, tally
<1>5. PlaceInv'
  BY <1>1, <1>2, <1>3 DEF PlaceInv
<1>6. VisitInv'
  BY <1>1, VisitKept DEF ContextInv
<1> QED BY <1>2, <1>4, <1>5, <1>6 DEF ContextInv

(* The list and the head of the loop.                                      *)
LEMMA ListNext ==
    ASSUME ContextType, ContextInv, GetDeviceList \/ NextDevice \/ FreeList
    PROVE  ContextType' /\ ContextInv'
<1>1. /\ UNCHANGED <<devices, want, n, setting, handles, confs, claims, misuse, counts>>
      /\ n \in Nat /\ Len(devices) \in Nat
  BY DEF GetDeviceList, NextDevice, FreeList, books, ContextType
<1>2. \A d : Suitable(d)' <=> Suitable(d)
  BY <1>1, SuitableSame
<1>3. \A d : Passed(d)' <=> Passed(d)
  BY <1>1, <1>2 DEF Passed
<1>4. ZeroContext \in Contexts(Len(devices)) /\ ZeroContext.handle = 0
      /\ ZeroContext.conf = 0 /\ ~ZeroContext.claimed
  BY <1>1 DEF ZeroContext, Contexts
<1>5. CASE GetDeviceList
  <2>1. /\ uctx' = uctx /\ at = "list" /\ n = 1 /\ uctx = ZeroContext
        /\ handles \cup confs = {} /\ ~listed
        /\ \/ at' = "refused" /\ listed' = listed
           \/ at' = "next" /\ listed' = TRUE
    BY <1>5 DEF GetDeviceList, ContextInv, PlaceInv
  <2>2. ContextType'
    BY <1>1, <2>1 DEF ContextType, counts, tally
  <2>3. BooksInv'
    BY <1>1, <1>3, <2>1 DEF BooksInv, ContextInv
  <2>4. PlaceInv'
    BY <1>1, <1>4, <2>1 DEF PlaceInv
  <2>5. VisitInv'
    BY <1>1, <1>2, <2>1 DEF VisitInv, TestInv, ContextInv, counts, tally
  <2> QED BY <2>2, <2>3, <2>4, <2>5 DEF ContextInv
<1>6. CASE NextDevice
  <2>1. /\ uctx' = ZeroContext /\ at = "next" /\ n <= Len(devices)
        /\ at' = "descriptor" /\ listed' = listed
        /\ \A d \in handles \cup confs : Passed(d)
        /\ ~uctx.claimed
    BY <1>6 DEF NextDevice, ContextInv, PlaceInv, books
  <2>2. ContextType'
    BY <1>1, <1>4, <2>1 DEF ContextType, counts, tally
  <2>3. BooksInv'
    BY <1>1, <1>3, <1>4, <2>1 DEF BooksInv, ContextInv
  <2>4. PlaceInv'
    BY <1>1, <1>4, <2>1 DEF PlaceInv
  <2>5. VisitInv'
    BY <1>1, <2>1, VisitKept DEF ContextInv, counts, tally
  <2> QED BY <2>2, <2>3, <2>4, <2>5 DEF ContextInv
<1>7. CASE FreeList
  <2>1. /\ uctx' = uctx /\ at = "next" /\ n = Len(devices) + 1 /\ listed' = FALSE
        /\ at' = IF want = AnyDevice THEN "enumerated" ELSE "refused"
        /\ \A d \in handles \cup confs : Passed(d)
        /\ ~uctx.claimed /\ uctx.conf = uctx.handle
    BY <1>1, <1>7 DEF FreeList, ContextInv, PlaceInv, ContextType
  <2>2. ContextType'
    BY <1>1, <2>1 DEF ContextType, counts, tally
  <2>3. BooksInv'
    BY <1>1, <1>3, <2>1 DEF BooksInv, ContextInv
  <2>4. PlaceInv'
    <3>1. at' \in {"enumerated", "refused"} /\ (at' = "enumerated" => want' = AnyDevice)
      BY <1>1, <2>1
    <3>2. \A d \in handles' \cup confs' : Passed(d)'
      BY <1>1, <1>3, <2>1
    <3> QED BY <1>1, <2>1, <3>1, <3>2 DEF PlaceInv
  <2>5. \A d \in 1..Len(devices) : Suitable(d) =>
            \/ d \in failed
            \/ IF want = AnyDevice THEN d \in tested ELSE devices[d].id # want
    BY <1>1, <2>1 DEF ContextInv, VisitInv
  <2>6. want # AnyDevice =>
            \A d \in 1..Len(devices) : devices[d].id = want /\ Suitable(d) => d \in failed
    BY <2>5
  <2>7. VisitInv'
    <3>1. at' = "enumerated" => n' = Len(devices') + 1
      BY <1>1, <2>1
    <3>2. want' # AnyDevice =>
              LET asked == {d \in 1..Len(devices') : devices'[d].id = want' /\ Suitable(d)'}
              IN  asked = {} \/ asked \cap failed' # {}
      BY <1>1, <1>2, <2>6 DEF counts
    <3> QED BY <1>1, <1>2, <3>1, <3>2 DEF VisitInv, TestInv, ContextInv, counts, tally
  <2> QED BY <2>2, <2>3, <2>4, <2>7 DEF ContextInv
<1> QED BY <1>5, <1>6, <1>7

(* init_bulk_context: the descriptor, the handle, the configuration.       *)
LEMMA InitNext ==
    ASSUME ContextType, ContextInv, GetDescriptor \/ OpenHandle \/ GetConfiguration
    PROVE  ContextType' /\ ContextInv'
<1>1. /\ UNCHANGED <<devices, want, n, tally>> /\ n \in Nat
      /\ n \in 1..Len(devices) /\ Len(devices) \in Nat /\ setting' \in Nat
  BY DEF GetDescriptor, OpenHandle, GetConfiguration, ContextType, ContextInv,
         PlaceInv
<1>2. CASE InitFails
  BY <1>1, <1>2, InitFailsNext
<1>3. \A d : Suitable(d)' <=> Suitable(d)
  BY <1>1, SuitableSame
<1>4. ~(n < n)
  BY <1>1
<1>5. CASE GetDescriptor /\ ~InitFails
  <2>1. /\ uctx = ZeroContext /\ uctx' = [ZeroContext EXCEPT !.dev = n]
        /\ at' = "open" /\ UNCHANGED <<books, failed>>
    BY <1>5 DEF GetDescriptor, ContextInv, PlaceInv
  <2>2. /\ uctx' \in Contexts(Len(devices)) /\ uctx'.handle = 0 /\ uctx'.conf = 0
        /\ ~uctx'.claimed /\ uctx.handle = 0 /\ uctx.conf = 0 /\ ~uctx.claimed
    <3>1. /\ uctx = [dev |-> 0, handle |-> 0, conf |-> 0, interface |-> 0,
                     claimed |-> FALSE, in |-> 0, out |-> 0]
          /\ uctx' = [dev |-> n, handle |-> 0, conf |-> 0, interface |-> 0,
                      claimed |-> FALSE, in |-> 0, out |-> 0]
      BY <2>1 DEF ZeroContext
    <3>2. n \in 0..Len(devices) /\ 0 \in 0..Len(devices) /\ 0 \in 0..255
      BY <1>1
    <3> QED BY <3>1, <3>2 DEF Contexts
  <2>3. ContextType'
    BY <1>1, <2>1, <2>2 DEF ContextType, books, tally
  <2>4. BooksInv'
    BY <1>1, <1>3, <2>1, <2>2 DEF BooksInv, Passed, ContextInv, books
  <2>5. PlaceInv'
    BY <1>1, <2>1, <2>2 DEF PlaceInv
  <2>6. VisitInv'
    BY <1>1, <2>1, VisitKept DEF ContextInv
  <2> QED BY <2>3, <2>4, <2>5, <2>6 DEF ContextInv
<1>6. CASE OpenHandle /\ ~InitFails
  <2>1. /\ uctx = [ZeroContext EXCEPT !.dev = n] /\ uctx' = [uctx EXCEPT !.handle = n]
        /\ at' = "config" /\ handles' = handles \cup {n}
        /\ UNCHANGED <<listed, confs, claims, misuse, failed>>
    BY <1>6 DEF OpenHandle, ContextInv, PlaceInv
  <2>2. /\ uctx' \in Contexts(Len(devices)) /\ uctx'.handle = n /\ uctx'.conf = 0
        /\ ~uctx'.claimed /\ uctx'.dev = n
        /\ uctx.handle = 0 /\ uctx.conf = 0 /\ ~uctx.claimed
    <3>1. /\ uctx = [dev |-> n, handle |-> 0, conf |-> 0, interface |-> 0,
                     claimed |-> FALSE, in |-> 0, out |-> 0]
          /\ uctx' = [dev |-> n, handle |-> n, conf |-> 0, interface |-> 0,
                      claimed |-> FALSE, in |-> 0, out |-> 0]
      BY <2>1 DEF ZeroContext
    <3>2. n \in 0..Len(devices) /\ 0 \in 0..Len(devices) /\ 0 \in 0..255
      BY <1>1
    <3> QED BY <3>1, <3>2 DEF Contexts
  <2>3. ContextType'
    BY <1>1, <2>1, <2>2 DEF ContextType, tally
  <2>4. BooksInv'
    <3>1. \A d \in handles \cup confs : Passed(d)
      BY <2>2 DEF BooksInv, ContextInv, ContextType
    <3>2. \A d \in handles \cup confs : Passed(d)'
      BY <1>1, <1>3, <2>1, <3>1 DEF Passed
    <3>3. n \notin confs
      BY <1>4, <3>1 DEF Passed
    <3>4. claims' = {} /\ ~misuse'
      BY <2>1, <2>2 DEF BooksInv, ContextInv
    <3>5. n # 0
      BY <1>1
    <3> QED BY <2>1, <2>2, <3>2, <3>3, <3>4, <3>5 DEF BooksInv
  <2>5. PlaceInv'
    BY <1>1, <2>1, <2>2 DEF PlaceInv
  <2>6. VisitInv'
    BY <1>1, <2>1, VisitKept DEF ContextInv
  <2> QED BY <2>3, <2>4, <2>5, <2>6 DEF ContextInv
<1>7. CASE GetConfiguration /\ ~InitFails
  <2>1. /\ uctx.dev = n /\ uctx.handle = n /\ uctx.conf = 0 /\ ~uctx.claimed
        /\ uctx' = [uctx EXCEPT !.conf = n] /\ setting' = 1
        /\ at' = "scan" /\ confs' = confs \cup {n}
        /\ UNCHANGED <<listed, handles, claims, misuse, failed>>
    BY <1>7 DEF GetConfiguration, ContextInv, PlaceInv
  <2>2. /\ uctx' \in Contexts(Len(devices)) /\ uctx'.handle = n /\ uctx'.conf = n
        /\ ~uctx'.claimed /\ uctx'.dev = n
    <3>1. uctx \in Contexts(Len(devices))
      BY DEF ContextType
    <3>2. n \in 0..Len(devices)
      BY <1>1
    <3>3. uctx' = [uctx EXCEPT !.conf = n] /\ uctx.dev = n /\ uctx.handle = n
          /\ ~uctx.claimed
      BY <2>1
    <3> QED BY <3>1, <3>2, <3>3 DEF Contexts
  <2>3. ContextType'
    BY <1>1, <2>1, <2>2 DEF ContextType, tally
  <2>4. BooksInv'
    <3>1. \A d \in handles' \cup confs' : d # n => Passed(d)
      BY <2>1 DEF BooksInv, ContextInv
    <3>2. \A d \in handles' \cup confs' : d # n => Passed(d)'
      BY <1>1, <1>3, <2>1, <3>1 DEF Passed
    <3>3. claims' = {} /\ ~misuse' /\ n \in handles'
      BY <1>1, <2>1 DEF BooksInv, ContextInv
    <3> QED BY <2>1, <2>2, <3>2, <3>3 DEF BooksInv
  <2>5. PlaceInv'
    <3>1. \A k \in 1..Len(devices'[n'].settings) : ~(k < setting')
      BY <2>1
    <3> QED BY <1>1, <2>1, <2>2, <3>1 DEF PlaceInv
  <2>6. VisitInv'
    BY <1>1, <2>1, VisitKept DEF ContextInv
  <2> QED BY <2>3, <2>4, <2>5, <2>6 DEF ContextInv
<1> QED
  BY <1>2, <1>5, <1>6, <1>7

(* The scan of the alternate settings, and what follows without a suitable *)
(* one.                                                                    *)
LEMMA ScanNext ==
    ASSUME ContextType, ContextInv, ScanSetting \/ NoSuitableSetting \/ Unsuitable
    PROVE  ContextType' /\ ContextInv'
<1>1. /\ UNCHANGED <<devices, want, tally, failed>> /\ n \in Nat
      /\ n \in 1..Len(devices) /\ Len(devices) \in Nat /\ setting \in Nat
      /\ devices[n] \in UsbDevices /\ uctx \in Contexts(Len(devices))
  BY DEF ScanSetting, NoSuitableSetting, Unsuitable, ContextType, ContextInv,
         PlaceInv, counts
<1>2. \A d : Suitable(d)' <=> Suitable(d)
  BY <1>1, SuitableSame
<1>3. CASE ScanSetting
  <2>1. /\ UNCHANGED <<n, books>> /\ setting \in 1..Len(devices[n].settings)
        /\ uctx.dev = n /\ uctx.handle = n /\ uctx.conf = n /\ ~uctx.claimed
        /\ at = "scan" /\ setting' = setting + 1
        /\ \A k \in 1..Len(devices[n].settings) :
               k < setting => ~Usable(devices[n].settings[k])
    <3>1. devices[n].settings \in Seq(InterfaceDescriptors)
      BY <1>1 DEF UsbDevices
    <3>2. /\ UNCHANGED <<n, books>> /\ setting <= Len(devices[n].settings)
          /\ at = "scan" /\ setting' = setting + 1
      BY <1>3, Zenon DEF ScanSetting
    <3>3. setting \in 1..Len(devices[n].settings)
      <4>1. setting \in Nat /\ setting >= 1
        BY <1>1, <3>2 DEF ContextInv, PlaceInv
      <4>2. Len(devices[n].settings) \in Nat
        BY <3>1
      <4> QED BY <3>2, <4>1, <4>2
    <3>4. /\ uctx.dev = n /\ uctx.handle = n /\ uctx.conf = n /\ ~uctx.claimed
          /\ \A k \in 1..Len(devices[n].settings) :
                 k < setting => ~Usable(devices[n].settings[k])
      BY <3>2 DEF ContextInv, PlaceInv
    <3> QED BY <3>2, <3>3, <3>4
  <2>2. PICK s \in InterfaceDescriptors : s = devices[n].settings[setting]
    <3>1. devices[n].settings \in Seq(InterfaceDescriptors)
      BY <1>1 DEF UsbDevices
    <3> QED BY <2>1, <3>1
  <2>3. PICK in \in 0..255, out \in 0..255 :
            /\ in = Endpoint(s.endpoints, Last(s), TRUE, uctx.in)
            /\ out = Endpoint(s.endpoints, Last(s), FALSE, uctx.out)
            /\ Both(s) # {} => Bulk(s, in, TRUE) /\ Bulk(s, out, FALSE)
    <3>1. /\ s.endpoints \in Seq(EndpointDescriptors)
          /\ Last(s) \in 0..Len(s.endpoints)
          /\ uctx.in \in 0..255 /\ uctx.out \in 0..255
      BY <1>1, ScanFacts DEF InterfaceDescriptors, Contexts
    <3>2. /\ Endpoint(s.endpoints, Last(s), TRUE, uctx.in) \in 0..255
          /\ Endpoint(s.endpoints, Last(s), FALSE, uctx.out) \in 0..255
      <4>1. ASSUME NEW eps \in Seq(EndpointDescriptors), NEW k \in 0..Len(eps),
                   NEW dir \in BOOLEAN, NEW old \in 0..255
            PROVE  Endpoint(eps, k, dir, old) \in 0..255
        BY EndpointTaken
      <4> QED BY <3>1, <4>1
    <3>3. ASSUME Both(s) # {}, NEW dir \in BOOLEAN, NEW old \in 0..255
          PROVE  Bulk(s, Endpoint(s.endpoints, Last(s), dir, old), dir)
      <4>1. dir \in endpoints_found(s.endpoints, Last(s))
        BY <3>3, ScanFacts
      <4>2. PICK m \in 1..Len(s.endpoints) :
                /\ s.endpoints[m].bulk /\ s.endpoints[m].in = dir
                /\ s.endpoints[m].addr = Endpoint(s.endpoints, Last(s), dir, old)
        <5>1. PICK eps \in Seq(EndpointDescriptors) : eps = s.endpoints
          BY <3>1
        <5>2. PICK k \in 0..Len(eps) : k = Last(s)
          BY <3>1, <5>1
        <5>3. dir \in endpoints_found(eps, k) =>
                  \E m \in 1..Len(eps) :
                      /\ eps[m].bulk /\ eps[m].in = dir
                      /\ eps[m].addr = Endpoint(eps, k, dir, old)
          BY EndpointTaken
        <5> QED BY <4>1, <5>1, <5>2, <5>3
      <4>3. s.endpoints[m] \in EndpointDescriptors
        BY <3>1
      <4>4. s.endpoints[m] = [bulk |-> TRUE, in |-> dir,
                              addr |-> Endpoint(s.endpoints, Last(s), dir, old)]
        BY <4>2, <4>3 DEF EndpointDescriptors
      <4> QED BY <4>4 DEF Bulk
    <3> QED BY <3>1, <3>2, <3>3
  <2>4. /\ uctx' = [uctx EXCEPT !.interface = s.interface, !.in = in, !.out = out]
        /\ at' = IF Both(s) = {} THEN "scan"
                 ELSE IF want = AnyDevice THEN "claim" ELSE "compare"
    <3> DEFINE e == devices[n].settings[setting]
    <3>1. /\ uctx' = [uctx EXCEPT !.interface = e.interface,
                          !.in = Endpoint(e.endpoints, Last(e), TRUE, uctx.in),
                          !.out = Endpoint(e.endpoints, Last(e), FALSE, uctx.out)]
          /\ at' = IF Both(e) = {} THEN "scan"
                   ELSE IF want = AnyDevice THEN "claim" ELSE "compare"
      BY <1>3 DEF ScanSetting, Both, Last
    <3>2. e = s
      BY <2>2
    <3> HIDE DEF e
    <3> QED BY <2>3, <3>1, <3>2
  <2>5. /\ uctx' \in Contexts(Len(devices)) /\ uctx'.handle = n /\ uctx'.conf = n
        /\ ~uctx'.claimed /\ uctx'.dev = n /\ uctx'.interface = s.interface
        /\ uctx'.in = in /\ uctx'.out = out
    <3>1. s.interface \in Nat
      BY DEF InterfaceDescriptors
    <3> QED BY <1>1, <2>1, <2>4, <3>1 DEF Contexts
  <2>6. ContextType'
    BY <1>1, <2>1, <2>4, <2>5 DEF ContextType, books, tally
  <2>7. BooksInv'
    BY <1>1, <1>2, <2>1, <2>5 DEF BooksInv, Passed, ContextInv, books
  <2>8. CASE Both(s) = {}
    <3>1. ~Usable(devices[n].settings[setting])
      BY <2>2, <2>8, ScanFacts
    <3>2. \A k \in 1..Len(devices[n].settings) :
              k < setting + 1 => ~Usable(devices[n].settings[k])
      BY <1>1, <2>1, <3>1
    <3>3. PlaceInv'
      BY <1>1, <2>1, <2>4, <2>5, <2>8, <3>2 DEF PlaceInv
    <3>4. VisitInv'
      BY <1>1, <2>1, <2>4, <2>8, VisitKept DEF ContextInv
    <3> QED BY <2>6, <2>7, <3>3, <3>4 DEF ContextInv
  <2>9. CASE Both(s) # {}
    <3>1. Names(uctx', devices[n].settings[setting])
      BY <2>2, <2>3, <2>5, <2>9, ScanFacts DEF Names
    <3>2. NamesOneOf(uctx', devices[n])
      BY <2>1, <3>1 DEF NamesOneOf
    <3>3. /\ at' = "claim" => want = AnyDevice
          /\ at' = "compare" => want # AnyDevice
          /\ at' \in {"claim", "compare"}
      BY <2>4, <2>9
    <3>4. PlaceInv'
      BY <1>1, <2>1, <2>5, <3>2, <3>3 DEF PlaceInv
    <3>5. VisitInv'
      BY <1>1, <2>1, <3>3, VisitKept DEF ContextInv
    <3> QED BY <2>6, <2>7, <3>4, <3>5 DEF ContextInv
  <2> QED BY <2>8, <2>9
<1>4. CASE NoSuitableSetting
  <2>1. /\ UNCHANGED <<n, setting, uctx, books>> /\ at = "scan" /\ at' = "unsuitable"
        /\ uctx.handle = n /\ uctx.conf = n /\ ~uctx.claimed
        /\ setting > Len(devices[n].settings)
        /\ \A k \in 1..Len(devices[n].settings) :
               k < setting => ~Usable(devices[n].settings[k])
    BY <1>4 DEF NoSuitableSetting, ContextInv, PlaceInv
  <2>2. ~HasUsable(devices[n])
    <3>1. devices[n].settings \in Seq(InterfaceDescriptors)
      BY <1>1 DEF UsbDevices
    <3> QED BY <1>1, <2>1, <3>1 DEF HasUsable
  <2>3. ContextType'
    BY <1>1, <2>1 DEF ContextType, books, tally
  <2>4. BooksInv'
    BY <1>1, <1>2, <2>1 DEF BooksInv, Passed, ContextInv, books
  <2>5. PlaceInv'
    BY <1>1, <2>1, <2>2 DEF PlaceInv
  <2>6. VisitInv'
    BY <1>1, <2>1, VisitKept DEF ContextInv
  <2> QED BY <2>3, <2>4, <2>5, <2>6 DEF ContextInv
<1>5. CASE Unsuitable
  <2>1. /\ FreeContext /\ at' = "next" /\ n' = n + 1 /\ at = "unsuitable"
        /\ UNCHANGED <<setting, listed>>
        /\ n \in failed \/ ~HasUsable(devices[n])
    BY <1>5 DEF Unsuitable, ContextInv, PlaceInv
  <2>2. /\ BooksInv' /\ ~uctx'.claimed /\ uctx'.handle = 0 /\ uctx'.conf = 0
        /\ \A d \in (handles \cup confs)' : Passed(d)'
        /\ uctx' \in Contexts(Len(devices)) /\ misuse' \in BOOLEAN
        /\ \A set \in {handles', confs', claims'} : set \subseteq 1..Len(devices)
    BY <1>1, <2>1, FreeReleases DEF ContextInv
  <2>3. ContextType'
    BY <1>1, <2>1, <2>2 DEF ContextType, tally
  <2>4. PlaceInv'
    BY <1>1, <2>1, <2>2 DEF PlaceInv
  <2>5. VisitInv'
    <3>1. TestInv'
      <4>1. UNCHANGED <<devices, actid, found, tested, short>>
        BY <1>1 DEF tally
      <4>2. \A d \in tested : d < n + 1
        BY <1>1 DEF ContextInv, VisitInv, TestInv, ContextType
      <4> QED BY <2>1, <4>1, <4>2 DEF ContextInv, VisitInv, TestInv
    <3>2. tested' = tested
      BY <1>1 DEF tally
    <3> QED BY <1>1, <2>1, <3>1, <3>2, VisitNext DEF ContextInv
  <2> QED BY <2>2, <2>3, <2>4, <2>5 DEF ContextInv, tally
<1> QED BY <1>3, <1>4, <1>5

(* The id, the claim, and the command to identify the device.              *)
LEMMA UseNext ==
    ASSUME ContextType, ContextInv, CompareId \/ Claim \/ Identify
    PROVE  ContextType' /\ ContextInv'
<1>1. /\ UNCHANGED <<devices, want, setting>> /\ n \in Nat
      /\ n \in 1..Len(devices) /\ Len(devices) \in Nat
      /\ uctx.handle = n /\ uctx.conf = n /\ uctx \in Contexts(Len(devices))
      /\ NamesOneOf(uctx, devices[n])
  <2>1. UNCHANGED <<devices, want, setting>> /\ at \in {"compare", "claim", "identify"}
    BY Zenon DEF CompareId, Claim, Identify
  <2> QED BY <2>1 DEF ContextType, ContextInv, PlaceInv
<1>2. \A d : Suitable(d)' <=> Suitable(d)
  BY <1>1, SuitableSame
<1>3. \A d : d = n => Suitable(d)
  BY <1>1, NamedIsUsable, SuitableDefined
<1>4. n + 1 \in 1..(Len(devices) + 1) /\ n < n + 1 /\ n # 0
  BY <1>1
<1>5. CASE CompareId /\ devices[n].id = want
  <2>1. /\ at = "compare" /\ at' = "claim" /\ listed' = FALSE /\ ~uctx.claimed
        /\ UNCHANGED <<n, uctx, handles, confs, claims, misuse, counts>>
    BY <1>5 DEF CompareId, ContextInv, PlaceInv
  <2>2. ContextType'
    BY <1>1, <2>1 DEF ContextType, counts, tally
  <2>3. BooksInv'
    BY <1>1, <1>2, <2>1 DEF BooksInv, Passed, ContextInv
  <2>4. PlaceInv'
    BY <1>1, <1>5, <2>1 DEF PlaceInv
  <2>5. VisitInv'
    BY <1>1, <2>1, VisitKept DEF ContextInv, counts, tally
  <2> QED BY <2>2, <2>3, <2>4, <2>5 DEF ContextInv
<1>6. CASE CompareId /\ devices[n].id # want
  <2>1. /\ at = "compare" /\ at' = "next" /\ n' = n + 1 /\ listed' = listed
        /\ ~uctx.claimed /\ want # AnyDevice
        /\ UNCHANGED <<uctx, handles, confs, claims, misuse, counts>>
    BY <1>6 DEF CompareId, ContextInv, PlaceInv
  <2>2. ContextType'
    BY <1>1, <1>4, <2>1 DEF ContextType, counts, tally
  <2>3. ASSUME NEW d \in (handles \cup confs)' PROVE Passed(d)'
    <3>1. CASE d = n
      <4>1. n \in handles \cap confs
        BY <1>1, <1>4 DEF BooksInv, ContextInv
      <4>2. Suitable(d)'
        BY <1>2, <1>3, <3>1
      <4> QED BY <1>1, <1>4, <1>6, <2>1, <3>1, <4>1, <4>2 DEF Passed
    <3>2. CASE d # n
      <4>1. Passed(d)
        BY <1>1, <2>1, <2>3, <3>2 DEF BooksInv, ContextInv
      <4>2. d < n + 1 /\ Suitable(d)'
        <5>1. d \in Nat
          BY <2>1, <2>3 DEF ContextType
        <5> QED BY <1>1, <1>2, <4>1, <5>1 DEF Passed
      <4> QED BY <1>1, <2>1, <4>1, <4>2 DEF Passed
    <3> QED BY <3>1, <3>2
  <2>4. BooksInv'
    BY <1>1, <2>1, <2>3 DEF BooksInv, ContextInv
  <2>5. PlaceInv'
    BY <1>1, <2>1, <2>3 DEF PlaceInv
  <2>6. VisitInv'
    <3>1. TestInv'
      <4>1. UNCHANGED <<devices, actid, found, tested, short>>
        BY <1>1, <2>1 DEF counts, tally
      <4>2. \A d \in tested : d < n + 1
        BY <1>1 DEF ContextInv, VisitInv, TestInv, ContextType
      <4> QED BY <2>1, <4>1, <4>2 DEF ContextInv, VisitInv, TestInv
    <3>2. tested' = tested /\ failed' = failed
      BY <2>1 DEF counts, tally
    <3> QED BY <1>1, <1>6, <2>1, <3>1, <3>2, VisitNext DEF ContextInv
  <2> QED BY <2>2, <2>4, <2>5, <2>6 DEF ContextInv
<1>7. CASE /\ Claim /\ Fails /\ FreeContext
           /\ IF want = AnyDevice THEN at' = "next" /\ n' = n + 1
              ELSE at' = "refused" /\ UNCHANGED n
  <2>1. /\ at = "claim" /\ failed' = failed \cup {n} /\ listed' = listed
        /\ want = AnyDevice => at' = "next" /\ n' = n + 1
        /\ want # AnyDevice => at' = "refused" /\ n' = n
        /\ UNCHANGED tally
    BY <1>7 DEF Claim, Fails
  <2>2. want # AnyDevice => devices[n].id = want /\ ~listed
    BY <2>1 DEF ContextInv, PlaceInv
  <2>3. n' \in {n, n + 1} /\ n' \in 1..(Len(devices) + 1)
    BY <1>1, <1>4, <2>1
  <2>4. /\ BooksInv' /\ ~uctx'.claimed /\ uctx'.handle = 0 /\ uctx'.conf = 0
        /\ \A d \in (handles \cup confs)' : Passed(d)'
        /\ uctx' \in Contexts(Len(devices)) /\ misuse' \in BOOLEAN
        /\ \A set \in {handles', confs', claims'} : set \subseteq 1..Len(devices)
    BY <1>1, <1>7, <2>3, FreeReleases DEF ContextInv
  <2>5. ContextType'
    BY <1>1, <2>1, <2>3, <2>4 DEF ContextType, tally
  <2>6. PlaceInv'
    <3>1. at' \in {"next", "refused"} /\ (at' = "refused" => ~listed')
      BY <2>1, <2>2
    <3> QED BY <1>1, <2>4, <3>1 DEF PlaceInv
  <2>7. VisitInv'
    <3>1. TestInv'
      <4>1. UNCHANGED <<devices, actid, found, tested, short>>
        BY <1>1, <2>1 DEF tally
      <4>2. \A d \in tested : d < n /\ d < n + 1
        BY <1>1 DEF ContextInv, VisitInv, TestInv, ContextType
      <4> QED BY <2>3, <4>1, <4>2 DEF ContextInv, VisitInv, TestInv
    <3>2. tested' = tested
      BY <2>1 DEF tally
    <3>3. CASE want = AnyDevice
      BY <1>1, <2>1, <3>1, <3>2, <3>3, VisitNext DEF ContextInv
    <3>4. CASE want # AnyDevice
      <4>1. n \in {d \in 1..Len(devices') : devices'[d].id = want' /\ Suitable(d)'}
        BY <1>1, <1>2, <1>3, <2>2, <3>4
      <4>2. n \in failed'
        BY <2>1
      <4>3. \A d \in 1..(n' - 1) : Suitable(d)' =>
                \/ d \in failed'
                \/ IF want' = AnyDevice THEN d \in tested'
                   ELSE devices'[d].id # want'
        BY <1>1, <1>2, <2>1, <3>4 DEF ContextInv, VisitInv
      <4> QED BY <1>1, <2>1, <3>1, <3>4, <4>1, <4>2, <4>3 DEF VisitInv
    <3> QED BY <3>3, <3>4
  <2> QED BY <2>4, <2>5, <2>6, <2>7 DEF ContextInv
<1>8. CASE /\ Claim /\ uctx' = [uctx EXCEPT !.claimed = TRUE]
           /\ claims' = claims \cup {uctx.handle}
           /\ at' = (IF want = AnyDevice THEN "identify" ELSE "opened")
           /\ UNCHANGED <<n, handles, confs, misuse, failed>>
  <2>1. /\ at = "claim" /\ uctx' = [uctx EXCEPT !.claimed = TRUE]
        /\ claims' = claims \cup {n} /\ ~uctx.claimed
        /\ at' = IF want = AnyDevice THEN "identify" ELSE "opened"
        /\ UNCHANGED <<n, handles, confs, misuse, listed, counts>>
        /\ want # AnyDevice => devices[n].id = want /\ ~listed
    BY <1>1, <1>8 DEF Claim, ContextInv, PlaceInv, counts
  <2>2. /\ uctx' \in Contexts(Len(devices)) /\ uctx'.handle = n /\ uctx'.conf = n
        /\ uctx'.claimed /\ uctx'.interface = uctx.interface
        /\ uctx'.in = uctx.in /\ uctx'.out = uctx.out
    BY <1>1, <2>1 DEF Contexts
  <2>3. ContextType'
    BY <1>1, <2>1, <2>2 DEF ContextType, counts, tally
  <2>4. BooksInv'
    BY <1>1, <1>2, <1>4, <2>1, <2>2 DEF BooksInv, Passed, ContextInv
  <2>5. NamesOneOf(uctx', devices[n])
    BY <1>1, <2>2 DEF NamesOneOf, Names
  <2>6. /\ at' = "identify" => want = AnyDevice
        /\ at' = "opened" => want # AnyDevice
        /\ at' \in {"identify", "opened"}
    BY <2>1
  <2>7. PlaceInv'
    BY <1>1, <2>1, <2>2, <2>5, <2>6 DEF PlaceInv
  <2>8. VisitInv'
    BY <1>1, <2>1, <2>6, VisitKept DEF ContextInv, counts, tally
  <2> QED BY <2>3, <2>4, <2>7, <2>8 DEF ContextInv
<1>9. CASE Identify
  <2>1. /\ at = "identify" /\ at' = "next" /\ n' = n + 1 /\ FreeContext
        /\ tested' = tested \cup {n} /\ want = AnyDevice
        /\ UNCHANGED <<listed, failed>>
        /\ \/ /\ actid' \in {actid, devices[n].actions, FALSE}
              /\ UNCHANGED <<found, short>>
           \/ /\ actid' = devices[n].actions
              /\ found' = found \cup (IF actid' THEN {n} ELSE {})
              /\ UNCHANGED short
           \/ /\ actid' \in {actid, devices[n].actions}
              /\ found' = found \cup (IF actid' THEN {n} ELSE {})
              /\ short' = short \cup {n}
    BY <1>9 DEF Identify, ContextInv, PlaceInv
  <2>2. /\ BooksInv' /\ ~uctx'.claimed /\ uctx'.handle = 0 /\ uctx'.conf = 0
        /\ \A d \in (handles \cup confs)' : Passed(d)'
        /\ uctx' \in Contexts(Len(devices)) /\ misuse' \in BOOLEAN
        /\ \A set \in {handles', confs', claims'} : set \subseteq 1..Len(devices)
    BY <1>1, <2>1, FreeReleases DEF ContextInv
  <2>3. /\ found' \subseteq found \cup {n} /\ short' \subseteq short \cup {n}
        /\ devices[n].actions \in BOOLEAN /\ actid \in BOOLEAN /\ actid' \in BOOLEAN
    <3>1. devices[n].actions \in BOOLEAN
      <4>1. devices[n] \in UsbDevices
        BY <1>1 DEF ContextType
      <4> QED BY <4>1 DEF UsbDevices
    <3>2. actid \in BOOLEAN
      BY DEF ContextType
    <3> QED BY <2>1, <3>1, <3>2
  <2>4. ContextType'
    BY <1>1, <1>4, <2>1, <2>2, <2>3 DEF ContextType
  <2>5. PlaceInv'
    BY <1>1, <2>1, <2>2 DEF PlaceInv
  <2>6. VisitInv'
    <3>1. TestInv'
      <4>1. /\ \A d \in tested : d < n
            /\ actid => \E e \in tested : devices[e].actions
            /\ \A d \in found :
                 \/ devices[d].actions
                 \/ d \in short /\ \E e \in tested : e < d /\ devices[e].actions
        BY DEF ContextInv, VisitInv, TestInv
      <4>2. \A d \in tested' : d < n'
        BY <1>4, <2>1, <4>1 DEF ContextType
      <4>3. actid' => \E e \in tested' : devices'[e].actions
        BY <1>1, <2>1, <4>1
      <4>4. actid' => devices[n].actions \/ actid
        BY <2>1, <2>3
      <4>5. ASSUME n \in found', n \notin found
            PROVE  \/ devices[n].actions
                   \/ n \in short' /\ \E e \in tested' : e < n /\ devices[e].actions
        <5>1. actid'
          BY <2>1, <4>5
        <5>2. CASE devices[n].actions
          BY <5>2
        <5>3. CASE ~devices[n].actions
          <6>1. PICK e \in tested : devices[e].actions
            BY <4>1, <4>4, <5>1, <5>3
          <6>2. e < n /\ e \in tested'
            BY <2>1, <4>1
          <6>3. n \in short'
            BY <2>1, <2>3, <4>5, <5>1, <5>3
          <6> QED BY <6>1, <6>2, <6>3
        <5> QED BY <5>2, <5>3
      <4>6. ASSUME NEW d \in found'
            PROVE  \/ devices[d].actions
                   \/ d \in short' /\ \E e \in tested' : e < d /\ devices[e].actions
        <5>1. CASE d \in found
          BY <2>1, <4>1, <5>1
        <5>2. CASE d \notin found
          BY <2>3, <4>5, <4>6, <5>2
        <5> QED BY <5>1, <5>2
      <4> QED BY <1>1, <4>2, <4>3, <4>6 DEF TestInv
    <3> QED BY <1>1, <2>1, <3>1, VisitNext DEF ContextInv
  <2> QED BY <2>2, <2>4, <2>5, <2>6 DEF ContextInv
<1> QED BY <1>5, <1>6, <1>7, <1>8, <1>9 DEF Claim

-----------------------------------------------------------------------------
(* The program.                                                            *)

ControlType ==
    /\ pc \in {"parse", "init", "dispatch", "context", "session", "exit", "end"}
    /\ status \in {-1, 0, 1, 255} /\ (pc \in {"exit", "end"} <=> status # -1)
    /\ want \in {AnyDevice} \cup (Halves \X Halves)

(* The context is not touched before there is a command.                   *)
StartInv == pc \in {"parse", "init", "dispatch"} => at = "idle"

Inv == /\ LineType /\ AppIsReading
       /\ ContextType /\ ContextInv
       /\ ControlType /\ StartInv

LEMMA InitInv == Init => Inv
<1> SUFFICES ASSUME Init PROVE Inv
  OBVIOUS
<1>1. PICK v \in Invocations : LineInit(v.line) /\ ContextInit(v.bus)
  BY DEF Init
<1>2. v.line \in Seq(Options) /\ v.bus \in Seq(UsbDevices)
  BY InvocationAssumption
<1>3. /\ argv = v.line /\ optind = 1 /\ app = Defaults /\ pc = "parse"
      /\ status = -1 /\ devices = v.bus /\ want = AnyDevice /\ at = "idle"
      /\ n = 1 /\ setting = 1 /\ uctx = ZeroContext /\ listed = FALSE
      /\ handles = {} /\ confs = {} /\ claims = {} /\ found = {} /\ tested = {}
      /\ short = {} /\ failed = {} /\ misuse = FALSE /\ actid = FALSE
  BY <1>1 DEF LineInit, ContextInit
<1>4. LineType
  <2>1. Defaults \in Structure
    <3>1. 0 \in Words /\ 1 \in Words /\ 0 \in Halves
      BY Widths
    <3> QED BY <3>1 DEF Defaults, Structure, DefaultName, MaxLun
  <2> QED BY <1>2, <1>3, <2>1 DEF LineType
<1>5. AppIsReading
  <2>1. \A letters : GivenIn(argv, optind, letters) = {}
    BY <1>3 DEF GivenIn
  <2>2. ReadingIn(argv, optind, app)
    <3>1. 0 \in Halves
      BY Widths
    <3> QED BY <1>3, <2>1, <3>1
            DEF ReadingIn, NumbersIn, FilesIn, DeviceIn, FlagsIn, CommandIn,
                ArgumentIn, Defaults, DefaultName, MaxLun
  <2> QED BY <2>2, ReadingDefined
<1>6. ContextType
  <2>1. Len(devices) \in Nat /\ 0 \in 0..Len(devices) /\ 0 \in 0..255
    BY <1>2, <1>3
  <2>2. ZeroContext \in Contexts(Len(devices))
    BY <2>1 DEF ZeroContext, Contexts
  <2>3. at \in {"idle", "list"} /\ n \in 1..(Len(devices) + 1)
        /\ setting \in Nat /\ listed \in BOOLEAN /\ misuse \in BOOLEAN
        /\ actid \in BOOLEAN
    <3>1. 1 \in 1..(Len(devices) + 1)
      BY <2>1
    <3>2. at = "idle" /\ n = 1 /\ setting = 1 /\ listed = FALSE /\ misuse = FALSE
          /\ actid = FALSE
      BY <1>3
    <3> QED BY <3>1, <3>2
  <2>4. /\ devices \in Seq(UsbDevices) /\ uctx \in Contexts(Len(devices))
        /\ \A set \in {handles, confs, claims, found, tested, short, failed} :
               set \subseteq 1..Len(devices)
    BY <1>2, <1>3, <2>2
  <2> QED BY <2>3, <2>4 DEF ContextType
<1>7. ContextInv
  <2>1. BooksInv
    BY <1>3 DEF BooksInv, ZeroContext
  <2>2. PlaceInv
    BY <1>3 DEF PlaceInv, ZeroContext
  <2>3. VisitInv
    BY <1>3 DEF VisitInv, TestInv
  <2> QED BY <2>1, <2>2, <2>3 DEF ContextInv
<1>8. ControlType /\ StartInv
  BY <1>3 DEF ControlType, StartInv
<1> QED BY <1>4, <1>5, <1>6, <1>7, <1>8 DEF Inv

(* What depends on the line alone, and on the context alone.               *)
LEMMA LineKept ==
    ASSUME LineType, AppIsReading, UNCHANGED <<argv, optind, app>>
    PROVE  LineType' /\ AppIsReading'
<1>1. LineType'
  BY DEF LineType
<1>2. (AppIsReading <=> ReadingIn(argv, optind, app))'
  BY ReadingDefined, PTL
<1>3. ReadingIn(argv, optind, app)
  BY ReadingDefined
<1> QED BY <1>1, <1>2, <1>3

LEMMA ContextKept ==
    ASSUME ContextType, ContextInv, UNCHANGED contextVars
    PROVE  ContextType' /\ ContextInv'
<1>1. UNCHANGED <<devices, want, at, n, setting, uctx, listed, handles, confs,
                  claims, misuse, actid, found, tested, short, failed>>
  BY DEF contextVars, books, counts, tally
<1>2. \A d : Suitable(d)' <=> Suitable(d)
  BY <1>1, SuitableSame
<1>3. \A d : Passed(d)' <=> Passed(d)
  BY <1>1, <1>2 DEF Passed
<1>4. ContextType'
  BY <1>1 DEF ContextType
<1>5. BooksInv'
  BY <1>1, <1>3 DEF BooksInv, ContextInv
<1>6. PlaceInv'
  BY <1>1, <1>3 DEF PlaceInv, ContextInv
<1>7. VisitInv'
  BY <1>1, <1>2 DEF VisitInv, TestInv, ContextInv
<1> QED BY <1>4, <1>5, <1>6, <1>7 DEF ContextInv

LEMMA ContextNext ==
    ASSUME ContextType, ContextInv, ContextStep
    PROVE  ContextType' /\ ContextInv' /\ want' = want
<1>1. want' = want
  BY DEF ContextStep, GetDeviceList, NextDevice, FreeList, GetDescriptor,
         OpenHandle, GetConfiguration, ScanSetting, NoSuitableSetting,
         Unsuitable, CompareId, Claim, Identify
<1> QED BY <1>1, ListNext, InitNext, ScanNext, UseNext DEF ContextStep

LEMMA StepInv == Inv /\ [Next]_vars => Inv'
<1> SUFFICES ASSUME Inv, [Next]_vars PROVE Inv'
  OBVIOUS
<1> USE DEF Inv
<1>1. CASE Parse
  <2>1. LineType' /\ AppIsReading'
    BY <1>1, ParserKeepsReading DEF Parse
  <2>2. ContextType' /\ ContextInv'
    BY <1>1, ContextKept DEF Parse
  <2>3. want' = want /\ at' = at
    BY <1>1 DEF Parse, contextVars
  <2>4. \/ pc' = pc /\ status' = status
        \/ pc' = "end" /\ status' \in {0, 255}
        \/ pc' = "init" /\ status' = status
    BY <1>1 DEF Parse, ParseStep, SelectCommand, AskForHelp, SetFile, ParseDevid,
                SetLun, SetNumber, SetFlag, EndOfLine, Take, Help, Refuse, ExitWith
  <2>5. pc = "parse"
    BY <1>1 DEF Parse, ParseStep, SelectCommand, AskForHelp, SetFile, ParseDevid,
                SetLun, SetNumber, SetFlag, EndOfLine, Parsing
  <2>6. ControlType' /\ StartInv'
    BY <2>3, <2>4, <2>5 DEF ControlType, StartInv
  <2> QED BY <2>1, <2>2, <2>6
<1>2. CASE LibusbInit \/ ContextDone \/ Session \/ LibusbExit
  <2>1. UNCHANGED <<argv, optind, app, contextVars>>
    BY <1>2 DEF LibusbInit, ContextDone, Session, LibusbExit
  <2>2. LineType' /\ AppIsReading'
    BY <2>1, LineKept
  <2>3. ContextType' /\ ContextInv'
    BY <2>1, ContextKept
  <2>4. want' = want /\ at' = at
    BY <2>1 DEF contextVars
  <2>5. \/ pc = "init" /\ pc' = "end" /\ status' = 255
        \/ pc = "init" /\ pc' = "dispatch" /\ status' = status
        \/ pc \in {"context", "session"} /\ pc' = "exit" /\ status' \in {0, 1}
        \/ pc = "context" /\ pc' = "session" /\ status' = status
        \/ pc = "exit" /\ pc' = "end" /\ status' = status
    BY <1>2 DEF LibusbInit, ContextDone, Session, LibusbExit, Goto, Return
  <2>6. ControlType' /\ StartInv'
    BY <2>4, <2>5 DEF ControlType, StartInv
  <2> QED BY <2>2, <2>3, <2>6
<1>3. CASE Dispatch
  <2>1. /\ UNCHANGED <<argv, optind, app, devices, n, setting, uctx, listed,
                       handles, confs, claims, misuse, actid, found, tested, short,
                       failed>>
        /\ pc = "dispatch" /\ at = "idle"
        /\ \/ pc' = "exit" /\ status' \in {0, 1} /\ UNCHANGED <<want, at>>
           \/ /\ pc' = "context" /\ status' = status /\ at' = "list"
              /\ want' \in {AnyDevice, <<app.vid, app.pid>>}
    BY <1>3 DEF Dispatch, Return, Goto, Continue, books, counts, tally, StartInv
  <2>2. LineType' /\ AppIsReading'
    BY <2>1, LineKept
  <2>3. app.vid \in Halves /\ app.pid \in Halves
    BY DEF LineType, Structure
  <2>4. ControlType' /\ StartInv'
    BY <2>1, <2>3 DEF ControlType, StartInv
  <2>5. ContextType'
    BY <2>1 DEF ContextType
  <2>6. /\ n = 1 /\ uctx = ZeroContext /\ handles \cup confs = {} /\ ~listed
        /\ ~uctx.claimed
    BY <2>1 DEF ContextInv, PlaceInv
  <2>7. BooksInv'
    BY <2>1, <2>6 DEF BooksInv, ContextInv
  <2>8. PlaceInv'
    BY <2>1, <2>6 DEF PlaceInv
  <2>9. VisitInv'
    BY <2>1, <2>6 DEF VisitInv, TestInv, ContextInv
  <2> QED BY <2>2, <2>4, <2>5, <2>7, <2>8, <2>9 DEF ContextInv
<1>4. CASE Context
  <2>1. pc = "context" /\ ContextStep /\ UNCHANGED <<argv, optind, app, pc, status>>
    BY <1>4 DEF Context, lineVars
  <2>2. LineType' /\ AppIsReading'
    BY <2>1, LineKept
  <2>3. ContextType' /\ ContextInv' /\ want' = want
    BY <2>1, ContextNext
  <2>4. ControlType' /\ StartInv'
    BY <2>1, <2>3 DEF ControlType, StartInv
  <2> QED BY <2>2, <2>3, <2>4
<1>5. CASE UNCHANGED vars
  <2>1. UNCHANGED <<argv, optind, app, pc, status, contextVars>>
    BY <1>5 DEF vars, lineVars
  <2>2. want' = want /\ at' = at
    BY <2>1 DEF contextVars
  <2>3. ControlType' /\ StartInv'
    BY <2>1, <2>2 DEF ControlType, StartInv
  <2> QED BY <2>1, <2>3, LineKept, ContextKept
<1> QED BY <1>1, <1>2, <1>3, <1>4, <1>5 DEF Next

THEOREM Invariance == Spec => []Inv
<1> QED BY InitInv, StepInv, PTL DEF Spec

(* What is passed over stays open: no call failed for it, and nothing frees*)
(* it; and the list is there as long as one of the loops goes on.          *)
Looping ==
    \/ at \in {"next", "descriptor", "open", "config", "scan", "unsuitable",
               "compare", "identify"}
    \/ at = "claim" /\ want = AnyDevice
Skipped(d) == want \notin {AnyDevice, devices[d].id} /\ Suitable(d)
OpenInv ==
    /\ \A d \in failed : d < n \/ (d = n /\ at \in {"unsuitable", "refused"})
    /\ failed \cap (handles \cup confs) = {}
    /\ \A d \in 1..(n - 1) :
           Skipped(d) => d \in failed \/ d \in handles \cap confs
    /\ Looping => listed

(* A step of the loop that frees the context of the device at hand, if it  *)
(* has one, and perhaps goes on to the next.                               *)
LEMMA OpenFreed ==
    ASSUME ContextType, ContextInv, OpenInv, FreeContext, UNCHANGED <<devices, want>>,
           n \in 1..Len(devices), uctx.handle \in {0, n}, uctx.conf = uctx.handle,
           uctx.handle = 0 => n \notin handles \cup confs,
           \/ failed' = failed /\ (n \in failed => n' = n + 1)
           \/ failed' = failed \cup {n},
           \/ n' = n + 1 /\ at' = "next"
                 /\ (~Suitable(n) \/ want = AnyDevice \/ n \in failed')
           \/ n' = n /\ at' \in {"unsuitable", "refused"},
           at' # "refused" => listed'
    PROVE  OpenInv'
<1>1. handles' = handles \ {uctx.handle} /\ confs' = confs \ {uctx.handle}
  BY DEF FreeContext
<1>2. n \in Nat /\ n # 0 /\ Len(devices) \in Nat
  OBVIOUS
<1>3. n \notin handles' \cup confs'
  BY <1>1
<1>4. \A d : d # n => (d \in handles \cap confs /\ d # 0 => d \in handles' \cap confs')
  BY <1>1
<1>5. handles' \subseteq handles /\ confs' \subseteq confs
  BY <1>1
<1>6. \A d : Skipped(d)' <=> Skipped(d)
  <2>1. devices' = devices /\ want' = want
    OBVIOUS
  <2>2. \A d : Suitable(d)' <=> Suitable(d)
    BY <2>1, SuitableSame
  <2> QED BY <2>1, <2>2 DEF Skipped
<1>7. failed' \cap (handles' \cup confs') = {}
  BY <1>3, <1>5 DEF OpenInv, Looping
<1>8. \A d \in failed' : d < n' \/ (d = n' /\ at' \in {"unsuitable", "refused"})
  <2>1. \A d \in failed' : d \in Nat /\ (d < n \/ d = n)
    BY <1>2 DEF OpenInv, ContextType
  <2>2. CASE n' = n + 1
    BY <1>2, <2>1, <2>2
  <2>3. CASE n' = n /\ at' \in {"unsuitable", "refused"}
    BY <2>1, <2>3
  <2> QED BY <2>2, <2>3
<1>9. \A d \in 1..(n' - 1) :
          Skipped(d)' => d \in failed' \/ d \in handles' \cap confs'
  <2> SUFFICES ASSUME NEW d \in 1..(n' - 1), Skipped(d)
               PROVE  d \in failed' \/ d \in handles' \cap confs'
    BY <1>6
  <2>1. CASE d = n
    BY <1>2, <2>1 DEF Skipped
  <2>2. CASE d # n
    <3>1. d \in 1..(n - 1) /\ d # 0
      BY <1>2, <2>2
    <3>2. d \in failed \/ d \in handles \cap confs
      BY <3>1 DEF OpenInv, Looping
    <3> QED BY <1>4, <2>2, <3>1, <3>2
  <2> QED BY <2>1, <2>2
<1> QED BY <1>7, <1>8, <1>9 DEF OpenInv, Looping

LEMMA OpenContext ==
    ASSUME ContextType, ContextInv, OpenInv, ContextStep
    PROVE  OpenInv'
<1>1. n \in Nat /\ Len(devices) \in Nat /\ n # 0
  BY DEF ContextType
<1>2. UNCHANGED <<devices, want>>
  BY DEF ContextStep, GetDeviceList, NextDevice, FreeList, GetDescriptor,
         OpenHandle, GetConfiguration, ScanSetting, NoSuitableSetting,
         Unsuitable, CompareId, Claim, Identify
<1>3. \A d : Skipped(d)' <=> Skipped(d)
  BY <1>2 DEF Skipped, Suitable
<1>4. uctx.handle = 0 /\ at \notin {"idle", "list", "next", "refused", "enumerated"}
          => n \notin handles \cup confs
  <2>1. \A d \in handles \cup confs : d # 0
    BY DEF ContextType
  <2> QED BY <1>1, <2>1 DEF ContextInv, BooksInv, Passed
<1>5. CASE GetDeviceList \/ NextDevice \/ FreeList
  <2>1. /\ UNCHANGED <<n, handles, confs, failed>>
        /\ \/ at = "list" /\ at' = "refused"
           \/ at = "list" /\ at' = "next" /\ listed'
           \/ at = "next" /\ at' = "descriptor" /\ listed' = listed
           \/ at = "next" /\ at' \in {"enumerated", "refused"}
    BY <1>5 DEF GetDeviceList, NextDevice, FreeList, counts, books
  <2> QED BY <1>2, <1>3, <2>1 DEF OpenInv, Looping
<1>6. CASE InitFails /\ (GetDescriptor \/ OpenHandle \/ GetConfiguration)
  <2>1. /\ failed' = failed \cup {n} /\ FreeContext /\ at' = "unsuitable"
        /\ listed' = listed /\ n' = n /\ at \in {"descriptor", "open", "config"}
    BY <1>6 DEF InitFails, Fails, GetDescriptor, OpenHandle, GetConfiguration
  <2>2. /\ n \in 1..Len(devices) /\ uctx.handle \in {0, n} /\ listed
        /\ uctx.conf = 0
    <3>1. at \in {"descriptor", "open"} => uctx.handle = 0 /\ uctx.conf = 0
      BY DEF ContextInv, PlaceInv, ZeroContext
    <3>2. at = "config" => uctx.handle = n /\ uctx.conf = 0
      BY DEF ContextInv, PlaceInv
    <3>3. n \in 1..Len(devices) /\ listed
      BY <1>1, <2>1 DEF ContextInv, PlaceInv, OpenInv, Looping, ContextType
    <3> QED BY <2>1, <3>1, <3>2, <3>3
  <2>3. confs' = confs \ {0} /\ handles' = handles \ {uctx.handle}
    BY <2>1, <2>2 DEF FreeContext
  <2>4. n \notin confs
    <3>1. uctx.handle = n => n \notin confs
      BY <1>1, <2>2 DEF ContextInv, BooksInv
    <3> QED BY <1>4, <2>1, <2>2, <3>1
  <2>5. n \notin handles' \cup confs'
    BY <1>4, <2>1, <2>2, <2>3, <2>4
  <2>6. failed' \cap (handles' \cup confs') = {}
    BY <2>1, <2>3, <2>5 DEF OpenInv, Looping
  <2>7. \A d \in 1..(n - 1) : d # 0 /\ d # n
    BY <1>1
  <2>8. \A d \in 1..(n' - 1) :
            Skipped(d)' => d \in failed' \/ d \in handles' \cap confs'
    BY <1>3, <2>1, <2>2, <2>3, <2>7 DEF OpenInv, Looping
  <2> QED BY <1>2, <2>1, <2>2, <2>6, <2>8 DEF OpenInv, Looping
<1>7. CASE GetDescriptor /\ ~InitFails
  <2>1. /\ UNCHANGED <<n, handles, confs, failed, listed>>
        /\ at = "descriptor" /\ at' = "open"
    BY <1>7 DEF GetDescriptor, books
  <2> QED BY <1>2, <1>3, <2>1 DEF OpenInv, Looping
<1>8. CASE (OpenHandle \/ GetConfiguration) /\ ~InitFails
  <2>1. /\ UNCHANGED <<n, failed, listed>> /\ at \in {"open", "config"}
        /\ at' \in {"config", "scan"}
        /\ handles \subseteq handles' /\ handles' \subseteq handles \cup {n}
        /\ confs \subseteq confs' /\ confs' \subseteq confs \cup {n}
    BY <1>8 DEF OpenHandle, GetConfiguration
  <2>2. n \notin failed
    BY <1>1, <2>1 DEF OpenInv, Looping
  <2> QED BY <1>2, <1>3, <2>1, <2>2 DEF OpenInv, Looping
<1>9. CASE ScanSetting \/ NoSuitableSetting
  <2>1. /\ UNCHANGED <<n, handles, confs, failed, listed>> /\ at = "scan"
        /\ at' \in {"scan", "unsuitable", "claim", "compare"}
    BY <1>9 DEF ScanSetting, NoSuitableSetting, counts, books
  <2> QED BY <1>2, <1>3, <2>1 DEF OpenInv, Looping
<1>10. CASE Unsuitable
  <2>1. /\ FreeContext /\ at' = "next" /\ n' = n + 1 /\ at = "unsuitable"
        /\ failed' = failed /\ listed' = listed
    BY <1>10 DEF Unsuitable, counts
  <2>2. /\ n \in 1..Len(devices) /\ uctx.handle \in {0, n} /\ listed
        /\ uctx.conf = uctx.handle /\ (n \in failed \/ ~HasUsable(devices[n]))
    BY <1>1, <2>1 DEF ContextInv, PlaceInv, OpenInv, Looping, ContextType
  <2>3. n \in failed' \/ ~Suitable(n)
    BY <2>1, <2>2, SuitableDefined
  <2> QED BY <1>2, <1>4, <2>1, <2>2, <2>3, OpenFreed
<1>11. CASE CompareId
  <2>1. /\ UNCHANGED <<handles, confs, failed>> /\ at = "compare"
        /\ \/ at' = "claim" /\ n' = n /\ want # AnyDevice
           \/ at' = "next" /\ n' = n + 1 /\ listed' = listed
    BY <1>11 DEF CompareId, counts, ContextInv, PlaceInv
  <2>2. n \in handles \cap confs
    BY <1>1, <2>1 DEF ContextInv, BooksInv, PlaceInv
  <2>3. \A d \in failed : d \in Nat /\ d < n
    BY <2>1 DEF OpenInv, ContextType
  <2>4. \A d \in 1..(n' - 1) : d \in 1..(n - 1) \/ d = n
    BY <1>1, <2>1
  <2>5. \A d \in 1..(n' - 1) :
            Skipped(d)' => d \in failed' \/ d \in handles' \cap confs'
    BY <1>3, <2>1, <2>2, <2>4 DEF OpenInv, Looping
  <2>6. \A d \in failed' : d < n'
    BY <1>1, <2>1, <2>3
  <2>7. failed' \cap (handles' \cup confs') = {}
    BY <2>1 DEF OpenInv, Looping
  <2>8. at' = "next" => listed'
    BY <2>1 DEF OpenInv, Looping
  <2> QED BY <1>2, <2>1, <2>5, <2>6, <2>7, <2>8 DEF OpenInv, Looping
<1>12. CASE Claim
  <2>1. /\ at = "claim" /\ n \in 1..Len(devices) /\ uctx.handle = n
        /\ uctx.conf = n /\ (want = AnyDevice => listed) /\ listed' = listed
    BY <1>1, <1>12 DEF Claim, ContextInv, PlaceInv, OpenInv, Looping, ContextType
  <2>2. CASE /\ Fails /\ FreeContext
             /\ IF want = AnyDevice THEN at' = "next" /\ n' = n + 1
                ELSE at' = "refused" /\ UNCHANGED n
    <3>1. failed' = failed \cup {n}
      BY <2>2 DEF Fails
    <3>2. at' # "refused" => listed'
      BY <2>1, <2>2
    <3> QED BY <1>1, <1>2, <2>1, <2>2, <3>1, <3>2, OpenFreed
  <2>3. CASE UNCHANGED <<n, handles, confs, failed>> /\ at' \in {"identify", "opened"}
             /\ (at' = "identify" => want = AnyDevice)
    BY <1>2, <1>3, <2>1, <2>3 DEF OpenInv, Looping
  <2> QED BY <1>12, <2>2, <2>3 DEF Claim
<1>13. CASE Identify
  <2>1. /\ FreeContext /\ at' = "next" /\ n' = n + 1 /\ at = "identify"
        /\ failed' = failed /\ listed' = listed
    BY <1>13 DEF Identify
  <2>2. /\ n \in 1..Len(devices) /\ uctx.handle = n /\ listed
        /\ uctx.conf = uctx.handle /\ want = AnyDevice
    BY <1>1, <2>1 DEF ContextInv, PlaceInv, OpenInv, Looping, ContextType
  <2> QED BY <1>1, <1>2, <2>1, <2>2, OpenFreed
<1> QED BY <1>5, <1>6, <1>7, <1>8, <1>9, <1>10, <1>11, <1>12, <1>13 DEF ContextStep

LEMMA OpenAlways == Spec => []OpenInv
<1>1. Init => OpenInv
  <2> SUFFICES ASSUME Init PROVE OpenInv
    OBVIOUS
  <2>1. n = 1 /\ failed = {} /\ at = "idle"
    BY DEF Init, ContextInit
  <2>2. 1..(n - 1) = {}
    BY <2>1
  <2> QED BY <2>1, <2>2 DEF OpenInv, Looping
<1>2. Inv /\ OpenInv /\ [Next]_vars => OpenInv'
  <2> SUFFICES ASSUME Inv, OpenInv, [Next]_vars PROVE OpenInv'
    OBVIOUS
  <2>1. CASE Context
    BY <2>1, OpenContext DEF Context, Inv
  <2>2. CASE Dispatch
    <3>1. /\ UNCHANGED <<devices, n, handles, confs, failed>>
          /\ at' \in {at, "list"} /\ at = "idle" /\ n = 1
      BY <2>2 DEF Dispatch, Goto, Return, Continue, books, counts, Inv, StartInv,
                  ContextInv, PlaceInv
    <3>2. 1..(n' - 1) = {}
      BY <3>1
    <3> QED BY <3>1, <3>2 DEF OpenInv, Looping
  <2>3. CASE UNCHANGED contextVars
    <3>1. UNCHANGED <<devices, want, at, n, listed, handles, confs, failed>>
      BY <2>3 DEF contextVars, books, counts
    <3>2. \A d : Skipped(d)' <=> Skipped(d)
      BY <3>1 DEF Skipped, Suitable
    <3> QED BY <3>1, <3>2 DEF OpenInv, Looping
  <2>4. Context \/ Dispatch \/ UNCHANGED contextVars
    BY DEF Next, Parse, LibusbInit, ContextDone, Session, LibusbExit, vars
  <2> QED BY <2>1, <2>2, <2>3, <2>4
<1> QED BY <1>1, <1>2, Invariance, PTL DEF Spec

-----------------------------------------------------------------------------
(* What follows from the invariant.                                        *)

(* Every structure keeps its type, and the program its places and its exit *)
(* statuses, whatever line and bus main is started with.                   *)
THEOREM TypeCorrect == Spec => []TypeOK
<1>1. ASSUME Inv PROVE TypeOK
  <2>1. Len(devices) \in Nat /\ (0..Len(devices)) \ {0} = 1..Len(devices)
    BY <1>1 DEF Inv, ContextType
  <2>2. \A set \in {handles, confs, claims, found, tested, short, failed} :
            set \subseteq (0..Len(devices)) \ {0}
    BY <1>1, <2>1 DEF Inv, ContextType
  <2>3. /\ optind \in 1..(Len(argv) + 1) /\ app \in Structure
        /\ uctx \in Contexts(Len(devices))
    BY <1>1 DEF Inv, LineType, ContextType
  <2>4. /\ pc \in {"parse", "init", "dispatch", "context", "session", "exit", "end"}
        /\ status \in {-1, 0, 1, 255} /\ (pc \in {"exit", "end"} <=> status # -1)
        /\ want \in {AnyDevice} \cup (Halves \X Halves)
    BY <1>1 DEF Inv, ControlType
  <2>5. /\ at \in {"idle", "list", "next", "descriptor", "open", "config",
                   "scan", "unsuitable", "compare", "claim", "identify",
                   "refused", "opened", "enumerated"}
        /\ n \in 1..(Len(devices) + 1) /\ setting \in Nat
        /\ listed \in BOOLEAN /\ misuse \in BOOLEAN /\ actid \in BOOLEAN
    BY <1>1 DEF Inv, ContextType
  <2> QED BY <2>2, <2>3, <2>4, <2>5, Zenon DEF TypeOK, Structure, Contexts
<1> QED BY <1>1, Invariance, PTL

(* parseparams: the structure says what the options read so far say.       *)
THEOREM ReadingCorrect == Spec => []AppIsReading
<1>1. Inv => AppIsReading
  BY DEF Inv
<1> QED BY <1>1, Invariance, PTL

(* free_bulk_context, called twice on most paths, releases nothing twice   *)
(* and nothing that is not held.                                           *)
THEOREM NothingMisused == Spec => []NoMisuse
<1>1. Inv => NoMisuse
  BY DEF Inv, ContextInv, BooksInv, NoMisuse
<1> QED BY <1>1, Invariance, PTL

(* open_device leaves open all that it passes over and the device it finds,*)
(* main never frees them, and nothing else is open: enumerate_devices      *)
(* leaves nothing, however the calls failed.                               *)
THEOREM LeftOpenExactly == Spec => []LeftOpen
<1>1. ASSUME Inv, OpenInv PROVE LeftOpen
  <2> DEFINE used == IF at = "opened" THEN {n} ELSE {}
  <2>1. /\ BooksInv /\ PlaceInv /\ n \in Nat /\ n # 0
        /\ handles \subseteq 1..Len(devices) /\ confs \subseteq 1..Len(devices)
    BY <1>1 DEF Inv, ContextInv, ContextType
  <2>2. PassedOver \subseteq handles \cap confs
    BY <1>1 DEF PassedOver, OpenInv, Skipped
  <2>3. ASSUME NEW d \in handles \cup confs, Passed(d) PROVE d \in PassedOver
    <3>1. d \in 1..(n - 1)
      BY <2>1, <2>3 DEF Passed
    <3>2. d \notin failed
      BY <1>1 DEF OpenInv, Looping
    <3> QED BY <2>3, <3>1, <3>2 DEF PassedOver, Passed
  <2>4. CASE at \in {"idle", "list"}
    <3>1. /\ handles = {} /\ confs = {} /\ claims = {} /\ PassedOver = {}
          /\ used = {} /\ ~listed
      BY <2>1, <2>2, <2>4 DEF PlaceInv, BooksInv, ZeroContext
    <3> QED BY <2>4, <3>1 DEF LeftOpen
  <2>5. CASE at \in {"next", "refused", "enumerated"}
    <3>1. \A d \in handles \cup confs : Passed(d)
      BY <2>1, <2>5 DEF PlaceInv
    <3>2. handles = PassedOver /\ confs = PassedOver
      BY <2>2, <2>3, <3>1
    <3>3. claims = {} /\ used = {}
      BY <2>1, <2>5 DEF PlaceInv, BooksInv
    <3>4. listed <=> at = "next"
      BY <1>1, <2>1, <2>5 DEF PlaceInv, OpenInv, Looping
    <3> QED BY <2>5, <3>2, <3>3, <3>4 DEF LeftOpen
  <2>6. CASE at = "opened"
    <3>1. uctx.handle = n /\ uctx.conf = n /\ uctx.claimed /\ ~listed
      BY <2>1, <2>6 DEF PlaceInv
    <3>2. claims = {n} /\ used = {n} /\ n \in handles \cap confs
      BY <2>1, <2>6, <3>1 DEF BooksInv
    <3>3. \A d \in handles \cup confs : d # n => Passed(d)
      BY <2>1, <3>1 DEF BooksInv
    <3>4. handles = PassedOver \cup {n} /\ confs = PassedOver \cup {n}
      BY <2>2, <2>3, <3>2, <3>3
    <3> QED BY <2>6, <3>1, <3>2, <3>4 DEF LeftOpen
  <2> QED BY <2>4, <2>5, <2>6 DEF LeftOpen
<1> QED BY <1>1, Invariance, OpenAlways, PTL

(* init_bulk_context: interface and endpoints are of one alternate setting.*)
THEOREM OneSettingUsed == Spec => []EndpointsOfOneSetting
<1>1. ASSUME Inv PROVE EndpointsOfOneSetting
  <2>1. at \in {"compare", "claim", "identify", "opened"} =>
            uctx.handle = n /\ NamesOneOf(uctx, devices[n])
    BY <1>1 DEF Inv, ContextInv, PlaceInv
  <2> QED BY <2>1 DEF EndpointsOfOneSetting, NamesOneOf, Names
<1> QED BY <1>1, Invariance, PTL

(* open_and_claim: the device asked for, or a reason why not.              *)
THEOREM AskedDeviceUsed == Spec => []OnlyAskedDevice
<1>1. ASSUME Inv PROVE OnlyAskedDevice
  <2> DEFINE asked == {d \in 1..Len(devices) : devices[d].id = want /\ Suitable(d)}
  <2>1. BooksInv /\ PlaceInv /\ VisitInv /\ n \in 1..(Len(devices) + 1)
        /\ Len(devices) \in Nat
    BY <1>1 DEF Inv, ContextInv, ContextType
  <2>2. CASE at = "opened"
    <3>1. /\ uctx.handle = n /\ uctx.claimed /\ n \in 1..Len(devices)
          /\ devices[n].id = want /\ want # AnyDevice
          /\ NamesOneOf(uctx, devices[n])
      BY <2>1, <2>2 DEF PlaceInv
    <3>2. \A d : d = n => Suitable(d)
      BY <3>1, NamedIsUsable, SuitableDefined
    <3>3. n \in asked /\ n \in claims
      BY <2>1, <3>1, <3>2 DEF BooksInv
    <3>4. \A d \in asked : d < n => d \in failed
      BY <2>1, <3>1 DEF VisitInv
    <3> QED BY <2>2, <3>1, <3>3, <3>4 DEF OnlyAskedDevice
  <2>3. CASE at # "opened"
    BY <2>1, <2>3 DEF OnlyAskedDevice, VisitInv
  <2> QED BY <2>2, <2>3
<1> QED BY <1>1, Invariance, PTL

(* enumerate_devices: every device gets its test.                          *)
THEOREM AllVisited == Spec => []EnumerationVisitsAll
<1>1. ASSUME Inv PROVE EnumerationVisitsAll
  BY <1>1 DEF Inv, ContextInv, VisitInv, TestInv, EnumerationVisitsAll
<1> QED BY <1>1, Invariance, PTL

-----------------------------------------------------------------------------
(* The exit status.                                                        *)
StatusInv ==
    /\ pc = "session" => at = "opened"
    /\ pc \in {"exit", "end"} => Justified

(* main: status 0 has one of the three reasons; the safety half of         *)
(* Terminates.                                                             *)
THEOREM StatusJustified == Spec => [](pc = "end" => Justified)
<1>1. Init => StatusInv
  BY DEF Init, LineInit, StatusInv
<1>2. StatusInv /\ Inv /\ [Next]_vars => StatusInv'
  <2> SUFFICES ASSUME StatusInv, Inv, [Next]_vars PROVE StatusInv'
    OBVIOUS
  <2>1. CASE Parse
    <3>1. pc = "parse" /\ at' = at /\ at = "idle"
      BY <2>1 DEF Parse, ParseStep, SelectCommand, AskForHelp, SetFile, ParseDevid,
                  SetLun, SetNumber, SetFlag, EndOfLine, Parsing, contextVars, Inv,
                  StartInv
    <3>2. \/ pc' \in {"parse", "init"}
          \/ pc' = "end" /\ status' = 255
          \/ /\ pc' = "end" /\ UNCHANGED <<argv, optind, app>>
             /\ ~(optind > Len(argv)) \/ app.cmd = "none"
      <4>1. optind \in Nat /\ Len(argv) \in Nat
        BY DEF Inv, LineType
      <4> QED
        BY <2>1, <4>1
           DEF Parse, ParseStep, SelectCommand, AskForHelp, SetFile, ParseDevid,
               SetLun, SetNumber, SetFlag, EndOfLine, Parsing, Take, Help, Refuse,
               ExitWith
    <3> QED BY <3>1, <3>2 DEF StatusInv, Justified
  <2>2. CASE LibusbInit
    BY <2>2 DEF LibusbInit, Goto, StatusInv, Justified
  <2>3. CASE Dispatch
    BY <2>3 DEF Dispatch, Return, Goto, StatusInv, Justified
  <2>4. CASE Context
    BY <2>4 DEF Context, lineVars, StatusInv
  <2>5. CASE ContextDone
    <3>1. at = "enumerated" => n = Len(devices) + 1
      BY DEF Inv, ContextInv, VisitInv
    <3>2. UNCHANGED <<at, n, devices>>
      BY <2>5 DEF ContextDone, contextVars
    <3> QED BY <2>5, <3>1, <3>2 DEF ContextDone, Return, Goto, StatusInv, Justified
  <2>6. CASE Session
    <3>1. PICK result \in {FALSE, app.cmd \in Succeeding} : Return(result)
      BY <2>6 DEF Session
    <3>2. status' = 0 => app.cmd \in Succeeding
      <4>1. CASE app.cmd \in Succeeding
        BY <4>1
      <4>2. CASE ~(app.cmd \in Succeeding)
        <5>0. result = FALSE \/ result = (app.cmd \in Succeeding)
          BY <3>1, Zenon
        <5>1. ~result
          BY <4>2, <5>0, Zenon
        <5>2. status' = 1
          BY <3>1, <5>1 DEF Return
        <5> QED BY <5>2
      <4> QED BY <4>1, <4>2
    <3>3. pc' = "exit" /\ at = "opened" /\ UNCHANGED <<app, at>>
      BY <2>6, <3>1 DEF Session, Return, contextVars, StatusInv
    <3> QED BY <3>2, <3>3 DEF StatusInv, Justified
  <2>7. CASE LibusbExit \/ UNCHANGED vars
    <3>1. /\ UNCHANGED <<argv, optind, app, status, at, n, devices>>
          /\ (pc = "exit" /\ pc' = "end") \/ pc' = pc
      BY <2>7 DEF LibusbExit, Goto, vars, lineVars, contextVars
    <3> QED BY <3>1 DEF StatusInv, Justified
  <2> QED BY <2>1, <2>2, <2>3, <2>4, <2>5, <2>6, <2>7 DEF Next
<1>3. StatusInv => (pc = "end" => Justified)
  BY DEF StatusInv
<1> QED BY <1>1, <1>2, <1>3, Invariance, PTL DEF Spec
===============================================================================
