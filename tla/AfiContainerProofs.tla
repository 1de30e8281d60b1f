-------------------------- MODULE AfiContainerProofs --------------------------
(***************************************************************************)
(* Proofs about the operators of AfiContainer: what a checksum is a sum of,*)
(* and what writing somewhere does to a file.                              *)
(***************************************************************************)
EXTENDS AfiContainer, LeastNumber, SequenceTheorems

(* The larger and the smaller of two numbers.                              *)
LEMMA MaxOfTwo ==
    ASSUME NEW a \in Int, NEW b \in Int
    PROVE  /\ Max({a, b}) = IF a < b THEN b ELSE a
           /\ Min({a, b}) = IF a < b THEN a ELSE b
  BY DEF Max, Min

(* A table over 1..n is a sequence of length n.                            *)
LEMMA TableIsSeq ==
    ASSUME NEW S, NEW n \in Nat, NEW f \in [1..n -> S]
    PROVE  f \in Seq(S) /\ Len(f) = n
<1>1. f \in Seq(S)
  BY SeqDef
<1>2. Len(f) \in Nat /\ 1..Len(f) = 1..n
  BY <1>1, LenProperties
<1> QED BY <1>1, <1>2

(* A concatenation, element by element.                                    *)
LEMMA ConcatFacts ==
    ASSUME NEW S, NEW f \in Seq(S), NEW b \in Seq(S)
    PROVE  /\ f \o b \in Seq(S) /\ Len(f \o b) = Len(f) + Len(b)
           /\ Len(f) \in Nat /\ Len(b) \in Nat
           /\ \A k \in 1..Len(f) : (f \o b)[k] = f[k]
           /\ \A k \in 1..Len(b) : (f \o b)[Len(f) + k] = b[k]
<1>1. /\ f \o b \in Seq(S) /\ Len(f \o b) = Len(f) + Len(b)
      /\ \A k \in 1..(Len(f) + Len(b)) :
            (f \o b)[k] = IF k <= Len(f) THEN f[k] ELSE b[k - Len(f)]
  BY ConcatProperties
<1>2. Len(f) \in Nat /\ Len(b) \in Nat
  BY LenProperties
<1>3. ASSUME NEW p \in Nat, NEW q \in Nat
      PROVE  /\ \A k \in 1..p : k \in 1..(p + q) /\ k <= p
             /\ \A k \in 1..q : /\ p + k \in 1..(p + q) /\ ~(p + k <= p)
                                /\ p + k - p = k
  <2>1. \A k \in 1..p : k \in 1..(p + q) /\ k <= p
    OBVIOUS
  <2>2. \A k \in 1..q : p + k \in 1..(p + q) /\ ~(p + k <= p) /\ p + k - p = k
    OBVIOUS
  <2> QED BY <2>1, <2>2
<1>4. \A k \in 1..Len(f) : (f \o b)[k] = f[k]
  BY <1>1, <1>2, <1>3
<1>5. ASSUME NEW k \in 1..Len(b) PROVE (f \o b)[Len(f) + k] = b[k]
  <2>1. /\ Len(f) + k \in 1..(Len(f) + Len(b)) /\ ~(Len(f) + k <= Len(f))
        /\ Len(f) + k - Len(f) = k
    BY <1>2, <1>3
  <2> QED BY <1>1, <2>1
<1> QED BY <1>1, <1>2, <1>4, <1>5

(* Appending to short tuples.                                              *)
LEMMA AppendTuples ==
    ASSUME NEW a, NEW b, NEW c
    PROVE  /\ Len(<<a>>) = 1 /\ Append(<<a>>, b) = <<a, b>>
           /\ Len(<<a, b>>) = 2 /\ Append(<<a, b>>, c) = <<a, b, c>>
<1> DEFINE S == {a, b, c}
<1>1. ASSUME NEW s \in Seq(S), NEW e \in S, NEW t \in Seq(S),
             Len(t) = Len(s) + 1, \A k \in 1..Len(s) : t[k] = s[k],
             t[Len(s) + 1] = e
      PROVE  Append(s, e) = t
  <2>1. /\ Append(s, e) \in Seq(S) /\ Len(Append(s, e)) = Len(s) + 1
        /\ \A k \in 1..Len(s) : Append(s, e)[k] = s[k]
        /\ Append(s, e)[Len(s) + 1] = e
    BY AppendProperties
  <2>2. \A k \in 1..(Len(s) + 1) : k \in 1..Len(s) \/ k = Len(s) + 1
    <3>1. Len(s) \in Nat
      BY LenProperties
    <3> QED BY <3>1
  <2>3. \A k \in 1..Len(t) : Append(s, e)[k] = t[k]
    BY <1>1, <2>1, <2>2
  <2> QED BY <1>1, <2>1, <2>3, SeqEqual
<1>2. /\ <<a>> \in Seq(S) /\ <<a, b>> \in Seq(S) /\ <<a, b, c>> \in Seq(S)
      /\ Len(<<a>>) = 1 /\ Len(<<a, b>>) = 2 /\ Len(<<a, b, c>>) = 3
  OBVIOUS
<1>3. Append(<<a>>, b) = <<a, b>>
  <2>1. /\ Len(<<a, b>>) = Len(<<a>>) + 1
        /\ \A k \in 1..Len(<<a>>) : <<a, b>>[k] = <<a>>[k]
        /\ <<a, b>>[Len(<<a>>) + 1] = b
    OBVIOUS
  <2> QED BY <1>1, <1>2, <2>1
<1>4. Append(<<a, b>>, c) = <<a, b, c>>
  <2>1. /\ Len(<<a, b, c>>) = Len(<<a, b>>) + 1
        /\ \A k \in 1..Len(<<a, b>>) : <<a, b, c>>[k] = <<a, b>>[k]
        /\ <<a, b, c>>[Len(<<a, b>>) + 1] = c
    OBVIOUS
  <2> QED BY <1>1, <1>2, <2>1
<1> QED BY <1>2, <1>3, <1>4

(* A sequence is found again in the concatenation it is part of.           *)
LEMMA MiddleOfThree ==
    ASSUME NEW S, NEW a \in Seq(S), NEW b \in Seq(S), NEW c \in Seq(S)
    PROVE  SubSeq((a \o b) \o c, Len(a) + 1, Len(a) + Len(b)) = b
<1> DEFINE s == (a \o b) \o c
           lo == Len(a) + 1
           hi == Len(a) + Len(b)
<1>1. /\ a \o b \in Seq(S) /\ Len(a \o b) = Len(a) + Len(b)
      /\ Len(a) \in Nat /\ Len(b) \in Nat
      /\ \A k \in 1..Len(b) : (a \o b)[Len(a) + k] = b[k]
  BY ConcatFacts
<1>2. \A k \in 1..Len(a \o b) : s[k] = (a \o b)[k] /\ (a \o b)[k] \in S
  BY <1>1, ConcatFacts, ElementOfSeq
<1>3. ASSUME NEW p \in Nat, NEW q \in Nat
      PROVE  /\ p + 1 \in Int /\ p + q \in Int
             /\ (p + 1 <= p + q <=> q # 0)
             /\ (p + q) - (p + 1) + 1 = q
             /\ \A k \in (p + 1)..(p + q) : k \in 1..(p + q)
             /\ \A k \in 1..q : (p + 1) + k - 1 = p + k /\ p + k \in 1..(p + q)
  <2>1. \A k \in (p + 1)..(p + q) : k \in 1..(p + q)
    OBVIOUS
  <2>2. \A k \in 1..q : (p + 1) + k - 1 = p + k /\ p + k \in 1..(p + q)
    OBVIOUS
  <2> QED BY <2>1, <2>2
<1>4. /\ lo \in Int /\ hi \in Int /\ (lo <= hi <=> Len(b) # 0)
      /\ hi - lo + 1 = Len(b)
  BY <1>1, <1>3
<1>5. \A k \in lo..hi : s[k] \in S
  BY <1>1, <1>2, <1>3
<1>6. \A k \in 1..Len(b) : s[lo + k - 1] = b[k]
  <2> TAKE k \in 1..Len(b)
  <2>1. lo + k - 1 = Len(a) + k /\ Len(a) + k \in 1..Len(a \o b)
    BY <1>1, <1>3
  <2> QED BY <1>1, <1>2, <2>1
<1> HIDE DEF s, lo, hi
<1>7. /\ SubSeq(s, lo, hi) \in Seq(S)
      /\ Len(SubSeq(s, lo, hi)) = IF lo <= hi THEN hi - lo + 1 ELSE 0
      /\ \A k \in 1..(hi - lo + 1) : SubSeq(s, lo, hi)[k] = s[lo + k - 1]
  BY <1>4, <1>5, SubSeqProperties
<1>8. Len(SubSeq(s, lo, hi)) = Len(b)
  BY <1>1, <1>4, <1>7
<1>9. \A k \in 1..Len(b) : SubSeq(s, lo, hi)[k] = b[k]
  BY <1>4, <1>6, <1>7
<1>10. SubSeq(s, lo, hi) = b
  BY <1>7, <1>8, <1>9, SeqEqual
<1> QED BY <1>10 DEF s, lo, hi
-----------------------------------------------------------------------------
(* Writing to a file.                                                      *)
LEMMA ZerosFacts ==
    ASSUME NEW n \in Nat
    PROVE  /\ Zeros(n) \in Seq(Nat) /\ Len(Zeros(n)) = n
           /\ \A k \in 1..n : Zeros(n)[k] = 0
<1>1. Zeros(n) \in [1..n -> Nat]
  BY DEF Zeros
<1> QED BY <1>1, TableIsSeq DEF Zeros

LEMMA WriteFacts ==
    ASSUME NEW f \in Seq(Nat), NEW off \in Nat, NEW data \in Seq(Nat)
    PROVE  /\ WriteAt(f, off, data) \in Seq(Nat)
           /\ Len(WriteAt(f, off, data)) =
                 IF Len(f) < off + Len(data) THEN off + Len(data) ELSE Len(f)
           /\ \A k \in 1..Len(WriteAt(f, off, data)) :
                 WriteAt(f, off, data)[k] =
                    IF k \in (off + 1)..(off + Len(data)) THEN data[k - off]
                    ELSE IF k <= Len(f) THEN f[k] ELSE 0
<1> DEFINE n == IF Len(f) < off + Len(data) THEN off + Len(data) ELSE Len(f)
           cell(k) == IF k \in (off + 1)..(off + Len(data)) THEN data[k - off]
                      ELSE IF k <= Len(f) THEN f[k] ELSE 0
<1>1. Len(f) \in Nat /\ Len(data) \in Nat /\ n \in Nat
  BY LenProperties
<1>2. Max({Len(f), off + Len(data)}) = n
  <2>1. Len(f) \in Int /\ off + Len(data) \in Int
    BY <1>1
  <2> QED BY <2>1, MaxOfTwo, Zenon
<1>3. WriteAt(f, off, data) = [k \in 1..n |-> cell(k)]
  BY <1>2 DEF WriteAt
<1>4. ASSUME NEW k \in 1..n PROVE cell(k) \in Nat
  <2>1. CASE k \in (off + 1)..(off + Len(data))
    <3>1. \A m \in Nat : k \in (off + 1)..(off + m) => k - off \in 1..m
      OBVIOUS
    <3>2. k - off \in 1..Len(data)
      BY <1>1, <2>1, <3>1
    <3> QED BY <2>1, <3>2, ElementOfSeq
  <2>2. CASE k \notin (off + 1)..(off + Len(data)) /\ k <= Len(f)
    <3>1. k \in 1..Len(f)
      BY <1>1, <2>2
    <3> QED BY <2>2, <3>1, ElementOfSeq
  <2> QED BY <2>1, <2>2
<1>5. WriteAt(f, off, data) \in [1..n -> Nat]
  BY <1>3, <1>4
<1>6. WriteAt(f, off, data) \in Seq(Nat) /\ Len(WriteAt(f, off, data)) = n
  BY <1>1, <1>5, TableIsSeq
<1> QED BY <1>3, <1>6

(* Past the end of a file it leaves a hole.                                *)
LEMMA WriteBehind ==
    ASSUME NEW f \in Seq(Nat), NEW off \in Nat, Len(f) <= off,
           NEW data \in Seq(Nat)
    PROVE  WriteAt(f, off, data) = (f \o Zeros(off - Len(f))) \o data
<1> DEFINE w == WriteAt(f, off, data)
           z == Zeros(off - Len(f))
           c == (f \o z) \o data
<1>1. /\ Len(f) \in Nat /\ Len(data) \in Nat /\ off - Len(f) \in Nat
      /\ Len(f) + (off - Len(f)) = off
  <2>1. Len(f) \in Nat /\ Len(data) \in Nat
    BY LenProperties
  <2> QED BY <2>1
<1>2. /\ z \in Seq(Nat) /\ Len(z) = off - Len(f)
      /\ \A k \in 1..(off - Len(f)) : z[k] = 0
  BY <1>1, ZerosFacts
<1> HIDE DEF z
<1>3. /\ f \o z \in Seq(Nat) /\ Len(f \o z) = off
      /\ \A k \in 1..Len(f) : (f \o z)[k] = f[k]
      /\ \A k \in 1..Len(z) : (f \o z)[Len(f) + k] = z[k]
  BY <1>1, <1>2, ConcatFacts
<1>4. /\ c \in Seq(Nat) /\ Len(c) = off + Len(data)
      /\ \A k \in 1..off : c[k] = (f \o z)[k]
      /\ \A k \in 1..Len(data) : c[off + k] = data[k]
  <2>1. /\ c \in Seq(Nat) /\ Len(c) = Len(f \o z) + Len(data)
        /\ \A k \in 1..Len(f \o z) : c[k] = (f \o z)[k]
        /\ \A k \in 1..Len(data) : c[Len(f \o z) + k] = data[k]
    <3>1. f \o z \in Seq(Nat)
      BY <1>3
    <3>2. ASSUME NEW g \in Seq(Nat)
          PROVE  /\ g \o data \in Seq(Nat) /\ Len(g \o data) = Len(g) + Len(data)
                 /\ \A k \in 1..Len(g) : (g \o data)[k] = g[k]
                 /\ \A k \in 1..Len(data) : (g \o data)[Len(g) + k] = data[k]
      BY ConcatFacts
    <3> QED BY <3>1, <3>2, Zenon
  <2> HIDE DEF c
  <2> QED BY <1>3, <2>1, Zenon
<1>5. /\ w \in Seq(Nat)
      /\ Len(w) = IF Len(f) < off + Len(data) THEN off + Len(data) ELSE Len(f)
      /\ \A k \in 1..Len(w) :
            w[k] = IF k \in (off + 1)..(off + Len(data)) THEN data[k - off]
                   ELSE IF k <= Len(f) THEN f[k] ELSE 0
  BY WriteFacts
<1> HIDE DEF w, c
<1>6. Len(w) = off + Len(data)
  BY <1>1, <1>5
<1>7. ASSUME NEW k \in 1..(off + Len(data)) PROVE w[k] = c[k]
  <2>1. CASE k <= Len(f)
    <3>1. k \in 1..Len(f) /\ k \in 1..off /\ k \notin (off + 1)..(off + Len(data))
      BY <1>1, <2>1
    <3> QED BY <1>3, <1>4, <1>5, <1>6, <2>1, <3>1
  <2>2. CASE ~(k <= Len(f)) /\ k <= off
    <3>1. /\ k \in 1..off /\ k \notin (off + 1)..(off + Len(data))
          /\ k - Len(f) \in 1..(off - Len(f)) /\ Len(f) + (k - Len(f)) = k
      BY <1>1, <2>2
    <3>2. (f \o z)[k] = 0
      BY <1>2, <1>3, <3>1
    <3> QED BY <1>4, <1>5, <1>6, <2>2, <3>1, <3>2
  <2>3. CASE ~(k <= off)
    <3>1. /\ k \in (off + 1)..(off + Len(data)) /\ k - off \in 1..Len(data)
          /\ off + (k - off) = k
      BY <1>1, <2>3
    <3>2. c[k] = data[k - off]
      BY <1>4, <3>1
    <3> QED BY <1>5, <1>6, <3>1, <3>2
  <2>4. k <= Len(f) \/ (~(k <= Len(f)) /\ k <= off) \/ ~(k <= off)
    BY <1>1
  <2> QED BY <2>1, <2>2, <2>3, <2>4
<1>8. w = c
  BY <1>4, <1>5, <1>6, <1>7, SeqEqual
<1> QED BY <1>8 DEF w, c, z

(* At its end it appends.                                                  *)
LEMMA WriteAtEnd ==
    ASSUME NEW f \in Seq(Nat), NEW data \in Seq(Nat)
    PROVE  WriteAt(f, Len(f), data) = f \o data
<1>1. Len(f) \in Nat /\ Len(f) <= Len(f) /\ Len(f) - Len(f) = 0
  <2>1. Len(f) \in Nat
    BY LenProperties
  <2> QED BY <2>1
<1>2. WriteAt(f, Len(f), data) = (f \o Zeros(0)) \o data
  BY <1>1, WriteBehind
<1>3. Zeros(0) = <<>>
  BY ZerosFacts, EmptySeq
<1> QED BY <1>2, <1>3, ConcatEmptySeq

(* What lies before the offset stays as it is.                             *)
LEMMA WriteKeeps ==
    ASSUME NEW a \in Seq(Nat), NEW r \in Seq(Nat), NEW off \in Nat,
           Len(a) <= off, NEW data \in Seq(Nat)
    PROVE  \E t \in Seq(Nat) : WriteAt(a \o r, off, data) = a \o t
<1> DEFINE w == WriteAt(a \o r, off, data)
           t == SubSeq(w, Len(a) + 1, Len(w))
<1>1. /\ a \o r \in Seq(Nat) /\ Len(a \o r) = Len(a) + Len(r)
      /\ Len(a) \in Nat /\ Len(r) \in Nat /\ Len(data) \in Nat
      /\ \A k \in 1..Len(a) : (a \o r)[k] = a[k]
  BY ConcatFacts, LenProperties
<1>2. /\ w \in Seq(Nat)
      /\ Len(w) = IF Len(a) + Len(r) < off + Len(data) THEN off + Len(data)
                  ELSE Len(a) + Len(r)
      /\ \A k \in 1..Len(w) :
            w[k] = IF k \in (off + 1)..(off + Len(data)) THEN data[k - off]
                   ELSE IF k <= Len(a) + Len(r) THEN (a \o r)[k] ELSE 0
  <2>1. /\ w \in Seq(Nat)
        /\ Len(w) = IF Len(a \o r) < off + Len(data) THEN off + Len(data)
                    ELSE Len(a \o r)
        /\ \A k \in 1..Len(w) :
              w[k] = IF k \in (off + 1)..(off + Len(data)) THEN data[k - off]
                     ELSE IF k <= Len(a \o r) THEN (a \o r)[k] ELSE 0
    <3>1. a \o r \in Seq(Nat)
      BY <1>1
    <3> QED BY <3>1, WriteFacts, Zenon
  <2> HIDE DEF w
  <2> QED BY <1>1, <2>1, Zenon
<1> HIDE DEF w
<1>3. Len(w) \in Nat /\ Len(a) <= Len(w)
  BY <1>1, <1>2
<1>4. ASSUME NEW k \in 1..Len(a) PROVE w[k] = a[k]
  <2>1. /\ k \in 1..Len(w) /\ k \notin (off + 1)..(off + Len(data))
        /\ k <= Len(a) + Len(r)
    BY <1>1, <1>3
  <2> QED BY <1>1, <1>2, <2>1
<1>5. \A k \in (Len(a) + 1)..Len(w) : w[k] \in Nat
  <2>1. \A k \in (Len(a) + 1)..Len(w) : k \in 1..Len(w)
    BY <1>1, <1>3
  <2> QED BY <1>2, <2>1, ElementOfSeq
<1>6. /\ t \in Seq(Nat) /\ Len(t) = Len(w) - Len(a)
      /\ \A k \in 1..(Len(w) - Len(a)) : t[k] = w[Len(a) + k]
  <2>1. Len(a) + 1 \in Int /\ Len(w) \in Int
    BY <1>1, <1>3
  <2>2. /\ t \in Seq(Nat)
        /\ Len(t) = IF Len(a) + 1 <= Len(w) THEN Len(w) - (Len(a) + 1) + 1 ELSE 0
        /\ \A k \in 1..(Len(w) - (Len(a) + 1) + 1) : t[k] = w[(Len(a) + 1) + k - 1]
    BY <1>5, <2>1, SubSeqProperties
  <2> HIDE DEF t
  <2>3. ASSUME NEW p \in Nat, NEW q \in Nat, p <= q
        PROVE  /\ q - (p + 1) + 1 = q - p
               /\ ~(p + 1 <= q) => q - p = 0
               /\ \A k \in 1..(q - p) : (p + 1) + k - 1 = p + k
    BY <2>3
  <2> QED BY <1>1, <1>3, <2>2, <2>3
<1> HIDE DEF t
<1>7. /\ a \o t \in Seq(Nat) /\ Len(a \o t) = Len(w)
      /\ \A k \in 1..Len(a) : (a \o t)[k] = a[k]
      /\ \A k \in 1..Len(t) : (a \o t)[Len(a) + k] = t[k]
  <2>1. /\ a \o t \in Seq(Nat) /\ Len(a \o t) = Len(a) + Len(t)
        /\ \A k \in 1..Len(a) : (a \o t)[k] = a[k]
        /\ \A k \in 1..Len(t) : (a \o t)[Len(a) + k] = t[k]
    BY <1>6, ConcatFacts
  <2>2. Len(a) + (Len(w) - Len(a)) = Len(w)
    BY <1>1, <1>3
  <2> QED BY <1>6, <2>1, <2>2
<1>8. ASSUME NEW k \in 1..Len(w) PROVE w[k] = (a \o t)[k]
  <2>1. CASE k <= Len(a)
    <3>1. k \in 1..Len(a)
      BY <1>1, <2>1
    <3> QED BY <1>4, <1>7, <3>1
  <2>2. CASE ~(k <= Len(a))
    <3>1. k - Len(a) \in 1..(Len(w) - Len(a)) /\ Len(a) + (k - Len(a)) = k
      BY <1>1, <1>3, <2>2
    <3> QED BY <1>6, <1>7, <3>1
  <2> QED BY <2>1, <2>2
<1>9. w = a \o t
  BY <1>2, <1>7, <1>8, SeqEqual
<1> QED BY <1>6, <1>9 DEF w

(* Rewriting the header changes nothing but the header.                    *)
LEMMA HeaderRewritten ==
    ASSUME NEW n \in Nat, NEW r \in Seq(Nat)
    PROVE  WriteAt(Zeros(n) \o r, 0, Zeros(n)) = Zeros(n) \o r
<1> DEFINE z == Zeros(n)
           w == WriteAt(z \o r, 0, z)
<1>1. z \in Seq(Nat) /\ Len(z) = n
  BY ZerosFacts
<1> HIDE DEF z
<1>2. /\ z \o r \in Seq(Nat) /\ Len(z \o r) = n + Len(r) /\ Len(r) \in Nat
      /\ \A k \in 1..n : (z \o r)[k] = z[k]
  BY <1>1, ConcatFacts
<1>3. /\ w \in Seq(Nat)
      /\ Len(w) = IF n + Len(r) < 0 + n THEN 0 + n ELSE n + Len(r)
      /\ \A k \in 1..Len(w) :
            w[k] = IF k \in (0 + 1)..(0 + n) THEN z[k - 0]
                   ELSE IF k <= n + Len(r) THEN (z \o r)[k] ELSE 0
  <2>1. /\ w \in Seq(Nat)
        /\ Len(w) = IF Len(z \o r) < 0 + Len(z) THEN 0 + Len(z) ELSE Len(z \o r)
        /\ \A k \in 1..Len(w) :
              w[k] = IF k \in (0 + 1)..(0 + Len(z)) THEN z[k - 0]
                     ELSE IF k <= Len(z \o r) THEN (z \o r)[k] ELSE 0
    <3>1. z \o r \in Seq(Nat) /\ 0 \in Nat
      BY <1>2
    <3> QED BY <1>1, <3>1, WriteFacts, Zenon
  <2> HIDE DEF w
  <2> QED BY <1>1, <1>2, <2>1, Zenon
<1> HIDE DEF w
<1>4. Len(w) = n + Len(r)
  BY <1>2, <1>3
<1>5. ASSUME NEW k \in 1..(n + Len(r)) PROVE w[k] = (z \o r)[k]
  <2>1. /\ k \in (0 + 1)..(0 + n) <=> k \in 1..n
        /\ k - 0 = k /\ k <= n + Len(r)
    BY <1>2
  <2> QED BY <1>2, <1>3, <1>4, <2>1
<1>6. w = z \o r
  BY <1>2, <1>3, <1>4, <1>5, SeqEqual
<1> QED BY <1>6 DEF w, z
-----------------------------------------------------------------------------
(* Checksums.  A table of the sums of the first cells of data.             *)
IsSum(f, data) ==
    /\ f \in [0..Len(data) -> Nat]
    /\ f[0] = 0
    /\ \A n \in 1..Len(data) : f[n] = f[n - 1] + data[n]

(* There is such a table, by induction on how far it goes.                 *)
LEMMA SumExists ==
    ASSUME NEW data \in Seq(Nat)
    PROVE  \E f : IsSum(f, data)
<1> DEFINE L == Len(data)
           UpTo(f, m) == /\ f \in [0..m -> Nat] /\ f[0] = 0
                         /\ \A n \in 1..m : f[n] = f[n - 1] + data[n]
           T == {m \in Nat : m <= L => \E f : UpTo(f, m)}
<1>1. L \in Nat /\ \A n \in 1..L : data[n] \in Nat
  BY LenProperties, ElementOfSeq
<1>2. 0 \in T
  <2> DEFINE f == [n \in 0..0 |-> 0]
  <2>1. UpTo(f, 0)
    <3>1. f \in [0..0 -> Nat] /\ f[0] = 0 /\ 1..0 = {}
      OBVIOUS
    <3> QED BY <3>1, Zenon
  <2> QED BY <2>1, Zenon
<1>3. ASSUME NEW m \in T PROVE m + 1 \in T
  <2>1. m \in Nat /\ m + 1 \in Nat
    OBVIOUS
  <2> SUFFICES ASSUME m + 1 <= L PROVE \E f : UpTo(f, m + 1)
    BY <2>1
  <2>2. PICK f : UpTo(f, m)
    <3>1. m <= L
      BY <1>1, <2>1
    <3> QED BY <3>1
  <2>3. /\ m \in 0..m /\ m + 1 \in 1..L
        /\ \A n \in 0..(m + 1) : n = m + 1 \/ n \in 0..m
        /\ \A n \in 1..(m + 1) : n = m + 1 \/ n \in 1..m
    BY <1>1, <2>1
  <2>4. /\ (m + 1) - 1 = m /\ m # m + 1 /\ 0 # m + 1
        /\ \A n \in 1..m : n - 1 \in 0..m /\ n - 1 # m + 1 /\ n # m + 1
        /\ \A n \in 1..(m + 1) : n \in 0..(m + 1) /\ n - 1 \in 0..(m + 1)
        /\ m \in 0..(m + 1) /\ m + 1 \in 0..(m + 1) /\ 0 \in 0..(m + 1)
    BY <2>1
  <2> DEFINE g == [n \in 0..(m + 1) |->
                     IF n = m + 1 THEN f[m] + data[m + 1] ELSE f[n]]
  <2>5. g \in [0..(m + 1) -> Nat]
    <3>1. f[m] + data[m + 1] \in Nat
      <4>1. f[m] \in Nat /\ data[m + 1] \in Nat
        BY <1>1, <2>2, <2>3
      <4> QED BY <4>1
    <3> QED BY <2>2, <2>3, <3>1
  <2>6. g[0] = 0
    BY <2>2, <2>4
  <2>7. ASSUME NEW n \in 1..(m + 1) PROVE g[n] = g[n - 1] + data[n]
    <3>1. CASE n = m + 1
      BY <2>4, <3>1
    <3>2. CASE n \in 1..m
      <4>1. g[n] = f[n] /\ g[n - 1] = f[n - 1]
        BY <2>4, <3>2
      <4> QED BY <2>2, <3>2, <4>1
    <3> QED BY <2>3, <3>1, <3>2
  <2> QED BY <2>5, <2>6, <2>7
<1>4. T = Nat
  <2>1. T \in SUBSET Nat
    OBVIOUS
  <2> HIDE DEF T
  <2> QED BY <1>2, <1>3, <2>1, SetInduction
<1>5. L \in T
  BY <1>1, <1>4
<1>6. L <= L
  BY <1>1
<1> QED BY <1>5, <1>6 DEF IsSum

(* The checksum is the last sum of any such table.                         *)
LEMMA ChecksumIs ==
    ASSUME NEW data \in Seq(Nat), NEW f, IsSum(f, data)
    PROVE  Checksum(data) = f[Len(data)] /\ Checksum(data) \in Nat
<1> DEFINE L == Len(data)
           sum == CHOOSE s : s = [n \in 0..L |->
                                    IF n = 0 THEN 0 ELSE s[n-1] + data[n]]
<1>1. L \in Nat
  BY LenProperties
<1>2. Checksum(data) = sum[L]
  BY DEF Checksum
<1>3. f = [n \in 0..L |-> IF n = 0 THEN 0 ELSE f[n-1] + data[n]]
  <2>1. \A n \in 0..L : n = 0 \/ n \in 1..L
    BY <1>1
  <2>2. \A n \in 0..L : f[n] = IF n = 0 THEN 0 ELSE f[n-1] + data[n]
    BY <2>1 DEF IsSum
  <2>3. f = [n \in 0..L |-> f[n]]
    BY DEF IsSum
  <2> QED BY <2>2, <2>3
<1>4. sum = [n \in 0..L |-> IF n = 0 THEN 0 ELSE sum[n-1] + data[n]]
  BY <1>3
<1> HIDE DEF sum
<1> DEFINE T == {n \in Nat : n <= L => sum[n] = f[n]}
<1>5. 0 \in T
  <2>1. 0 \in 0..L
    BY <1>1
  <2>2. sum[0] = 0
    BY <1>4, <2>1
  <2> QED BY <2>2 DEF IsSum
<1>6. ASSUME NEW n \in T PROVE n + 1 \in T
  <2>1. n \in Nat /\ n + 1 \in Nat
    OBVIOUS
  <2> SUFFICES ASSUME n + 1 <= L PROVE sum[n + 1] = f[n + 1]
    BY <2>1
  <2>2. n <= L /\ n + 1 \in 1..L /\ n + 1 \in 0..L /\ (n + 1) - 1 = n /\ n + 1 # 0
    BY <1>1, <2>1
  <2>3. sum[n] = f[n]
    BY <2>2
  <2>4. sum[n + 1] = sum[(n + 1) - 1] + data[n + 1]
    BY <1>4, <2>2
  <2>5. f[n + 1] = f[(n + 1) - 1] + data[n + 1]
    BY <2>2 DEF IsSum
  <2> QED BY <2>2, <2>3, <2>4, <2>5
<1>7. T = Nat
  <2>1. T \in SUBSET Nat
    OBVIOUS
  <2> HIDE DEF T
  <2> QED BY <1>5, <1>6, <2>1, SetInduction
<1>8. sum[L] = f[L]
  <2>1. L \in T /\ L <= L
    BY <1>1, <1>7
  <2> QED BY <2>1
<1>9. f[L] \in Nat
  <2>1. L \in 0..L
    BY <1>1
  <2> QED BY <2>1 DEF IsSum
<1> QED BY <1>2, <1>8, <1>9

LEMMA ChecksumType ==
    ASSUME NEW data \in Seq(Nat) PROVE Checksum(data) \in Nat
  BY SumExists, ChecksumIs

(* Checksums add up.                                                       *)
LEMMA ChecksumConcat ==
    ASSUME NEW d \in Seq(Nat), NEW t \in Seq(Nat)
    PROVE  Checksum(d \o t) = Checksum(d) + Checksum(t)
<1>1. PICK f : IsSum(f, d)
  BY SumExists
<1>2. PICK g : IsSum(g, t)
  BY SumExists
<1> DEFINE p == Len(d)
           q == Len(t)
           h == [n \in 0..(p + q) |-> IF n <= p THEN f[n] ELSE f[p] + g[n - p]]
<1>3. /\ d \o t \in Seq(Nat) /\ Len(d \o t) = p + q /\ p \in Nat /\ q \in Nat
      /\ \A k \in 1..p : (d \o t)[k] = d[k]
      /\ \A k \in 1..q : (d \o t)[p + k] = t[k]
  BY ConcatFacts
<1>4. /\ f \in [0..p -> Nat] /\ f[0] = 0
      /\ \A n \in 1..p : f[n] = f[n - 1] + d[n]
  BY <1>1 DEF IsSum
<1>5. /\ g \in [0..q -> Nat] /\ g[0] = 0
      /\ \A n \in 1..q : g[n] = g[n - 1] + t[n]
  BY <1>2 DEF IsSum
<1>6. \A k \in 1..q : t[k] \in Nat
  BY ElementOfSeq
<1> HIDE DEF p, q
<1>7. h \in [0..(p + q) -> Nat] /\ h[0] = 0
  <2>1. \A n \in 0..(p + q) : IF n <= p THEN n \in 0..p ELSE n - p \in 0..q
    BY <1>3
  <2>2. p \in 0..p /\ 0 \in 0..(p + q) /\ 0 <= p
    BY <1>3
  <2>3. ASSUME NEW n \in 0..(p + q)
        PROVE  (IF n <= p THEN f[n] ELSE f[p] + g[n - p]) \in Nat
    <3>1. CASE n <= p
      BY <1>4, <2>1, <3>1
    <3>2. CASE ~(n <= p)
      <4>1. f[p] \in Nat /\ g[n - p] \in Nat
        BY <1>4, <1>5, <2>1, <2>2, <3>2
      <4> QED BY <3>2, <4>1
    <3> QED BY <3>1, <3>2
  <2> QED BY <1>4, <2>2, <2>3
<1>8. ASSUME NEW n \in 1..(p + q) PROVE h[n] = h[n - 1] + (d \o t)[n]
  <2>1. n \in 0..(p + q) /\ n - 1 \in 0..(p + q)
    BY <1>3
  <2>2. CASE n <= p
    <3>1. n \in 1..p /\ n - 1 <= p
      BY <1>3, <2>2
    <3>2. h[n] = f[n] /\ h[n - 1] = f[n - 1]
      BY <2>1, <2>2, <3>1
    <3> QED BY <1>3, <1>4, <3>1, <3>2
  <2>3. CASE n = p + 1
    <3>1. /\ ~(n <= p) /\ n - p = 1 /\ n - 1 = p /\ p <= p /\ 1 \in 1..q
          /\ 1 - 1 = 0 /\ p \in 0..p
      BY <1>3, <2>3
    <3>2. h[n] = f[p] + g[1] /\ h[n - 1] = f[p]
      BY <2>1, <3>1
    <3>3. g[1] = 0 + t[1] /\ t[1] \in Nat /\ (d \o t)[n] = t[1]
      BY <1>3, <1>5, <1>6, <2>3, <3>1
    <3> QED BY <3>2, <3>3
  <2>4. CASE ~(n <= p) /\ n # p + 1
    <3>1. /\ ~(n - 1 <= p) /\ n - p \in 1..q /\ n - p - 1 \in 0..q
          /\ (n - 1) - p = n - p - 1 /\ p + (n - p) = n /\ p \in 0..p
      BY <1>3, <2>4
    <3>2. h[n] = f[p] + g[n - p] /\ h[n - 1] = f[p] + g[n - p - 1]
      BY <2>1, <2>4, <3>1
    <3>3. g[n - p] = g[n - p - 1] + t[n - p]
      BY <1>5, <3>1
    <3>4. (d \o t)[n] = t[n - p]
      BY <1>3, <3>1
    <3>5. f[p] \in Nat /\ g[n - p - 1] \in Nat /\ t[n - p] \in Nat
      BY <1>4, <1>5, <1>6, <3>1
    <3>6. \A a \in Nat, b \in Nat, c \in Nat : a + (b + c) = (a + b) + c
      OBVIOUS
    <3> QED BY <3>2, <3>3, <3>4, <3>5, <3>6
  <2> QED BY <2>2, <2>3, <2>4
<1>9. h[p + q] = f[p] + g[q]
  <2>1. CASE q = 0
    <3>1. p + q = p /\ p <= p /\ p \in 0..(p + q) /\ p \in 0..p
      BY <1>3, <2>1
    <3>2. h[p + q] = f[p] /\ f[p] \in Nat /\ g[q] = 0
      BY <1>4, <1>5, <2>1, <3>1
    <3> QED BY <3>2
  <2>2. CASE q # 0
    <3>1. ~(p + q <= p) /\ (p + q) - p = q /\ p + q \in 0..(p + q)
      BY <1>3, <2>2
    <3> QED BY <3>1
  <2> QED BY <2>1, <2>2
<1>10. IsSum(h, d \o t)
  BY <1>3, <1>7, <1>8 DEF IsSum
<1> HIDE DEF h
<1>11. Checksum(d \o t) = h[p + q]
  BY <1>3, <1>10, ChecksumIs
<1>12. Checksum(d) = f[p] /\ Checksum(t) = g[q]
  BY <1>1, <1>2, ChecksumIs DEF p, q
<1> QED BY <1>9, <1>11, <1>12

(* Nothing sums to nothing, nor does a hole.                               *)
LEMMA ChecksumZeros ==
    ASSUME NEW n \in Nat PROVE Checksum(Zeros(n)) = 0 /\ Checksum(<<>>) = 0
<1>1. ASSUME NEW m \in Nat PROVE Checksum(Zeros(m)) = 0
  <2> DEFINE z == Zeros(m)
             h == [k \in 0..m |-> 0]
  <2>1. z \in Seq(Nat) /\ Len(z) = m /\ \A k \in 1..m : z[k] = 0
    BY ZerosFacts
  <2> HIDE DEF z
  <2>2. /\ \A k \in 1..m : k \in 0..m /\ k - 1 \in 0..m
        /\ m \in 0..m /\ 0 \in 0..m
    OBVIOUS
  <2>3. IsSum(h, z)
    BY <2>1, <2>2 DEF IsSum
  <2>4. h[m] = 0
    BY <2>2
  <2> HIDE DEF h
  <2> QED BY <2>1, <2>3, <2>4, ChecksumIs DEF z
<1>2. Zeros(0) = <<>>
  BY ZerosFacts, EmptySeq
<1>3. Checksum(Zeros(0)) = 0
  BY <1>1
<1> QED BY <1>1, <1>2, <1>3
===============================================================================
