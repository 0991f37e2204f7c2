---------------------------- MODULE CTypesProofs ----------------------------
(***************************************************************************)
(* Proofs about CTypes, for texts of any length over any characters and    *)
(* for both signs of C's char: what comes back from c_chars, and how they  *)
(* are ordered.                                                            *)
(***************************************************************************)
EXTENDS CTypes, SequenceTheorems, WellFoundedInduction, TLAPS

Scalar == 0 .. CharMax
Byte   == 0 .. 255

-----------------------------------------------------------------------------
(* One character. *)

LEMMA CharMaxNat == CharMax \in Nat
  BY SMT DEF CharMax

LEMMA ScalarIsNat == Scalar \subseteq Nat
  BY CharMaxNat DEF Scalar

\* A byte survives the cast to c_char and back, whatever the sign of char.
LEMMA CastBack ==
  ASSUME signed \in BOOLEAN, NEW n \in Nat
  PROVE  IsChar(AsCChar(n)) /\ AsU8(AsCChar(n)) = n % 256
<1>1. n % 256 \in 0 .. 255
  OBVIOUS
<1>2. CASE signed /\ n % 256 >= 128
  <2>1. AsCChar(n) = (n % 256) - 256
    BY <1>2 DEF AsCChar
  <2>2. ((n % 256) - 256) % 256 = n % 256
    OBVIOUS
  <2> QED
    BY <1>1, <1>2, <2>1, <2>2 DEF IsChar, AsU8
<1>3. CASE ~(signed /\ n % 256 >= 128)
  <2>1. AsCChar(n) = n % 256
    BY <1>3 DEF AsCChar
  <2>2. (n % 256) % 256 = n % 256
    OBVIOUS
  <2> QED
    BY <1>1, <1>3, <2>1, <2>2 DEF IsChar, AsU8
<1> QED
  BY <1>2, <1>3

LEMMA ShortSequences ==
  ASSUME NEW S, NEW a \in S, NEW b \in S, NEW c \in S, NEW d \in S
  PROVE  /\ <<a>> \in Seq(S) /\ Len(<<a>>) = 1
         /\ <<a, b>> \in Seq(S) /\ Len(<<a, b>>) = 2
         /\ <<a, b, c>> \in Seq(S) /\ Len(<<a, b, c>>) = 3
         /\ <<a, b, c, d>> \in Seq(S) /\ Len(<<a, b, c, d>>) = 4
  OBVIOUS

\* Only an ASCII character is one byte, which is the character itself.
LEMMA Utf8 ==
  ASSUME NEW c \in Scalar
  PROVE  /\ EncodeUtf8(c) \in Seq(Byte)
         /\ c < 128 => EncodeUtf8(c) = <<c>>
         /\ c >= 128 => Len(EncodeUtf8(c)) >= 2
<1> DEFINE rest(d) == 128 + ((c \div d) % 64)
<1>1. rest(1) \in Byte /\ rest(64) \in Byte /\ rest(4096) \in Byte
  <2>1. c \in Nat
    BY ScalarIsNat
  <2> QED
    BY <2>1, SMT DEF Byte
<1> HIDE DEF rest
<1>2. c \in Nat /\ c < 4194304
  <2>1. CharMax \in Nat /\ CharMax < 4194304
    BY SMT DEF CharMax
  <2> QED
    BY <2>1, SMT DEF Scalar
<1>3. CASE c < 128
  <2>1. EncodeUtf8(c) = <<c>>
    BY <1>2, <1>3, SMT DEF EncodeUtf8
  <2>2. c \in Byte
    BY <1>2, <1>3, SMT DEF Byte
  <2> QED
    BY <1>2, <1>3, <2>1, <2>2, ShortSequences
<1>4. CASE 128 <= c /\ c < 2048
  <2>1. EncodeUtf8(c) = <<192 + (c \div 64), rest(1)>>
    BY <1>2, <1>4, SMT DEF EncodeUtf8, rest
  <2>2. 192 + (c \div 64) \in Byte
    BY <1>2, <1>4, SMT DEF Byte
  <2> QED
    BY <1>1, <1>2, <1>4, <2>1, <2>2, ShortSequences
<1>5. CASE 2048 <= c /\ c < 65536
  <2>1. EncodeUtf8(c) = <<224 + (c \div 4096), rest(64), rest(1)>>
    BY <1>2, <1>5, SMT DEF EncodeUtf8, rest
  <2>2. 224 + (c \div 4096) \in Byte
    BY <1>2, <1>5, SMT DEF Byte
  <2> QED
    BY <1>1, <1>2, <1>5, <2>1, <2>2, ShortSequences
<1>6. CASE 65536 <= c
  <2>1. EncodeUtf8(c) = <<240 + (c \div 262144), rest(4096), rest(64), rest(1)>>
    BY <1>2, <1>6, SMT DEF EncodeUtf8, rest
  <2>2. 240 + (c \div 262144) \in Byte
    BY <1>2, <1>6, SMT DEF Byte
  <2> QED
    BY <1>1, <1>2, <1>6, <2>1, <2>2, ShortSequences
<1> QED
  BY <1>2, <1>3, <1>4, <1>5, <1>6, SMT

-----------------------------------------------------------------------------
(* The bytes of a text. *)

LEMMA Least ==
  ASSUME NEW T \in SUBSET Nat, T # {}
  PROVE  \E m \in T : \A n \in T : m <= n
<1>1. PICK m \in T : \A n \in T : ~(<<n, m>> \in OpToRel(<, Nat))
  BY NatLessThanWellFounded, WFMin, Zenon
<1>2. ASSUME NEW n \in T, n < m PROVE FALSE
  <2>1. n \in Nat /\ m \in Nat
    OBVIOUS
  <2>2. <<n, m>> \in OpToRel(<, Nat)
    BY <1>2, <2>1 DEF OpToRel
  <2> QED
    BY <1>1, <2>2, Zenon
<1>3. \A n \in T : m <= n
  BY <1>2
<1> QED
  BY <1>3

\* u lists the bytes of the first n characters of s, for each n up to m.
Encodes(u, s, m) ==
    /\ u \in [0 .. m -> Seq(Byte)]
    /\ u[0] = <<>>
    /\ \A n \in 1 .. m : u[n] = u[n - 1] \o EncodeUtf8(s[n])

\* There is such a list, so that the recursive definition of Bytes has a meaning.
LEMMA EncodesUpTo ==
  ASSUME NEW s \in Seq(Scalar)
  PROVE  \A m \in 0 .. Len(s) : \E u : Encodes(u, s, m)
<1> DEFINE T == {m \in 0 .. Len(s) : ~\E u : Encodes(u, s, m)}
<1> SUFFICES ASSUME T # {} PROVE FALSE
  OBVIOUS
<1>1. Len(s) \in Nat
  OBVIOUS
<1>2. PICK m \in T : \A n \in T : m <= n
  <2>1. T \in SUBSET Nat
    BY <1>1
  <2> HIDE DEF T
  <2> QED
    BY <2>1, Least
<1>3. m \in 0 .. Len(s) /\ ~\E u : Encodes(u, s, m)
  BY <1>2
<1>4. CASE m = 0
  <2> DEFINE u == [n \in 0 .. 0 |-> <<>>]
  <2>1. u \in [0 .. 0 -> Seq(Byte)] /\ u[0] = <<>>
    BY EmptySeq
  <2>2. Encodes(u, s, 0)
    BY <2>1 DEF Encodes
  <2> QED
    BY <1>3, <1>4, <2>2
<1>5. CASE m # 0
  <2>1. m - 1 \in 0 .. Len(s) /\ m \in 1 .. Len(s) /\ m - 1 \notin T
    BY <1>1, <1>2, <1>3, <1>5
  <2>2. PICK u : Encodes(u, s, m - 1)
    BY <2>1
  <2> DEFINE w == [n \in 0 .. m |-> IF n = m THEN u[m - 1] \o EncodeUtf8(s[m]) ELSE u[n]]
  <2>3. /\ u \in [0 .. m - 1 -> Seq(Byte)] /\ u[0] = <<>>
        /\ \A n \in 1 .. m - 1 : u[n] = u[n - 1] \o EncodeUtf8(s[n])
    BY <2>2 DEF Encodes
  <2>4. s[m] \in Scalar
    BY <2>1
  <2>5. u[m - 1] \in Seq(Byte) /\ EncodeUtf8(s[m]) \in Seq(Byte)
    BY <2>1, <2>3, <2>4, Utf8
  <2>6. u[m - 1] \o EncodeUtf8(s[m]) \in Seq(Byte)
    BY <2>5
  <2>7. w \in [0 .. m -> Seq(Byte)]
    BY <2>1, <2>3, <2>6
  <2>8. w[0] = <<>>
    BY <2>1, <2>3
  <2>9. ASSUME NEW n \in 1 .. m PROVE w[n] = w[n - 1] \o EncodeUtf8(s[n])
    <3>1. n - 1 \in 0 .. m /\ n - 1 # m /\ w[n - 1] = u[n - 1]
      BY <2>1
    <3>2. CASE n = m
      <4>1. m \in 0 .. m
        BY <2>1
      <4>2. w[m] = u[m - 1] \o EncodeUtf8(s[m])
        BY <4>1
      <4> HIDE DEF w
      <4> QED
        BY <3>1, <3>2, <4>2
    <3>3. CASE n # m
      <4>1. n \in 1 .. m - 1 /\ w[n] = u[n]
        BY <2>1, <3>3
      <4> HIDE DEF w
      <4> QED
        BY <2>3, <3>1, <4>1
    <3> QED
      BY <3>2, <3>3
  <2>10. Encodes(w, s, m)
    <3> HIDE DEF w
    <3> QED
      BY <2>7, <2>8, <2>9 DEF Encodes
  <2> QED
    BY <1>3, <2>10
<1> QED
  BY <1>4, <1>5

LEMMA BytesEncode ==
  ASSUME NEW s \in Seq(Scalar)
  PROVE  \E u : Encodes(u, s, Len(s)) /\ Bytes(s) = u[Len(s)]
<1> DEFINE N == Len(s)
           Step(f) == [n \in 0 .. N |-> IF n = 0 THEN <<>> ELSE f[n - 1] \o EncodeUtf8(s[n])]
           upTo == CHOOSE f : f = Step(f)
<1>1. N \in Nat
  OBVIOUS
<1>2. Bytes(s) = upTo[N]
  BY DEF Bytes
<1>3. PICK u : Encodes(u, s, N)
  BY <1>1, EncodesUpTo
<1>4. u = Step(u)
  <2>1. u \in [0 .. N -> Seq(Byte)] /\ u[0] = <<>>
    BY <1>3 DEF Encodes
  <2>2. ASSUME NEW n \in 0 .. N
        PROVE  u[n] = IF n = 0 THEN <<>> ELSE u[n - 1] \o EncodeUtf8(s[n])
    <3>1. CASE n = 0
      BY <2>1, <3>1
    <3>2. CASE n # 0
      <4>1. n \in 1 .. N
        BY <1>1, <3>2
      <4> QED
        BY <1>3, <3>2, <4>1 DEF Encodes
    <3> QED
      BY <3>1, <3>2
  <2> QED
    BY <2>1, <2>2
<1>5. upTo = Step(upTo)
  BY <1>4
<1> DEFINE T == {n \in 0 .. N : upTo[n] # u[n]}
<1>6. T = {}
  <2> SUFFICES ASSUME T # {} PROVE FALSE
    OBVIOUS
  <2> HIDE DEF upTo
  <2>1. T \in SUBSET Nat
    BY <1>1
  <2>2. PICK m \in T : \A n \in T : m <= n
    <3> HIDE DEF T
    <3> QED
      BY <2>1, Least
  <2>3. m \in 0 .. N /\ upTo[m] # u[m]
    BY <2>2
  <2>4. /\ upTo[m] = IF m = 0 THEN <<>> ELSE upTo[m - 1] \o EncodeUtf8(s[m])
        /\ u[m] = IF m = 0 THEN <<>> ELSE u[m - 1] \o EncodeUtf8(s[m])
    BY <1>4, <1>5, <2>3
  <2>5. m # 0 => m - 1 \in 0 .. N /\ m - 1 \notin T
    BY <1>1, <2>2, <2>3
  <2> QED
    BY <2>3, <2>4, <2>5
<1>7. N \in 0 .. N
  BY <1>1
<1>8. upTo[N] = u[N]
  BY <1>6, <1>7
<1> QED
  BY <1>2, <1>3, <1>8

\* Bytes are never fewer than characters, and as many exactly if every character is ASCII,
\* and then they are the characters.
LEMMA BytesOfText ==
  ASSUME NEW s \in Seq(Scalar)
  PROVE  /\ Bytes(s) \in Seq(Byte)
         /\ AllBelow(128, s) => Bytes(s) = s
         /\ ~AllBelow(128, s) => Len(Bytes(s)) > Len(s)
<1>1. PICK u : Encodes(u, s, Len(s)) /\ Bytes(s) = u[Len(s)]
  BY BytesEncode
<1> DEFINE N == Len(s)
           Ascii(n) == \A i \in 1 .. n : s[i] < 128
           Good(n) == /\ u[n] \in Seq(Byte)
                      /\ Ascii(n) => Len(u[n]) = n /\ \A i \in 1 .. n : u[n][i] = s[i]
                      /\ ~Ascii(n) => Len(u[n]) > n
           T == {n \in 0 .. N : ~Good(n)}
<1>2. N \in Nat /\ DOMAIN s = 1 .. N /\ \A i \in 1 .. N : s[i] \in Scalar /\ s[i] \in Nat
  <2>1. N \in Nat /\ DOMAIN s = 1 .. N /\ \A i \in 1 .. N : s[i] \in Scalar
    OBVIOUS
  <2> QED
    BY <2>1, ScalarIsNat
<1>3. /\ u \in [0 .. N -> Seq(Byte)] /\ u[0] = <<>>
      /\ \A n \in 1 .. N : u[n] = u[n - 1] \o EncodeUtf8(s[n])
  BY <1>1 DEF Encodes
<1>4. Good(0)
  BY <1>2, <1>3
<1>5. ASSUME NEW m \in 1 .. N, Good(m - 1) PROVE Good(m)
  <2> DEFINE p == u[m - 1]
             e == EncodeUtf8(s[m])
  <2>1. m \in Nat /\ m - 1 \in Nat /\ s[m] \in Scalar /\ s[m] \in Nat
    BY <1>2
  <2>2. /\ e \in Seq(Byte)
        /\ s[m] < 128 => e = <<s[m]>>
        /\ s[m] >= 128 => Len(e) >= 2
    BY <2>1, Utf8
  <2>3. /\ p \in Seq(Byte) /\ u[m] = p \o e
        /\ Ascii(m - 1) => Len(p) = m - 1 /\ \A i \in 1 .. m - 1 : p[i] = s[i]
        /\ ~Ascii(m - 1) => Len(p) > m - 1
    BY <1>3, <1>5
  <2>4. Ascii(m) <=> Ascii(m - 1) /\ s[m] < 128
    BY <2>1
  <2> HIDE DEF p, e, Ascii
  <2>5. /\ p \o e \in Seq(Byte) /\ Len(p \o e) = Len(p) + Len(e)
        /\ Len(p) \in Nat /\ Len(e) \in Nat
        /\ \A i \in 1 .. Len(p) + Len(e) :
              (p \o e)[i] = IF i <= Len(p) THEN p[i] ELSE e[i - Len(p)]
    BY <2>2, <2>3
  <2>6. CASE Ascii(m)
    <3>1. Len(p) = m - 1 /\ e = <<s[m]>> /\ Len(e) = 1 /\ e[1] = s[m]
      BY <2>2, <2>3, <2>4, <2>6
    <3>2. ASSUME NEW i \in 1 .. m PROVE (p \o e)[i] = s[i]
      <4>1. CASE i = m
        BY <2>1, <2>5, <3>1, <4>1
      <4>2. CASE i # m
        <5>1. i \in 1 .. m - 1 /\ i <= Len(p)
          BY <2>1, <3>1, <4>2
        <5> QED
          BY <2>1, <2>3, <2>4, <2>5, <2>6, <3>1, <5>1
      <4> QED
        BY <4>1, <4>2
    <3> QED
      BY <2>1, <2>3, <2>5, <2>6, <3>1, <3>2
  <2>7. CASE ~Ascii(m)
    <3>1. Len(p) >= m - 1 /\ Len(p) + Len(e) > m
      <4>1. CASE Ascii(m - 1)
        BY <2>1, <2>2, <2>3, <2>4, <2>5, <2>7, <4>1
      <4>2. CASE ~Ascii(m - 1)
        <5>1. s[m] < 128 => Len(e) = 1
          BY <2>2
        <5>2. Len(e) >= 1
          BY <2>1, <2>2, <2>5, <5>1, SMTT(60)
        <5>3. Len(p) > m - 1
          BY <2>3, <4>2
        <5> QED
          BY <2>1, <2>5, <5>2, <5>3
      <4> QED
        BY <4>1, <4>2
    <3> QED
      BY <2>3, <2>5, <2>7, <3>1
  <2> QED
    BY <2>6, <2>7
<1>6. T = {}
  <2> SUFFICES ASSUME T # {} PROVE FALSE
    OBVIOUS
  <2> HIDE DEF Good
  <2>1. T \in SUBSET Nat
    BY <1>2
  <2>2. PICK m \in T : \A n \in T : m <= n
    <3> HIDE DEF T
    <3> QED
      BY <2>1, Least
  <2>3. m \in 1 .. N /\ m - 1 \in 0 .. N /\ m - 1 \notin T /\ ~Good(m)
    BY <1>2, <1>4, <2>2
  <2>4. Good(m - 1)
    BY <2>3
  <2> QED
    BY <1>5, <2>3, <2>4
<1>7. N \in 0 .. N /\ (Ascii(N) <=> AllBelow(128, s))
  BY <1>2 DEF AllBelow
<1>8. Good(N)
  <2> HIDE DEF Good
  <2> QED
    BY <1>6, <1>7
<1> HIDE DEF Ascii
<1>9. ASSUME Ascii(N) PROVE Bytes(s) = s
  BY <1>1, <1>2, <1>8, <1>9, SeqEqual
<1> QED
  BY <1>1, <1>7, <1>8, <1>9

-----------------------------------------------------------------------------
(* Order. *)

\* a and b agree up to the first place p in which both have something and differ.
Differ(a, b, p) ==
    /\ p \in 1 .. Len(a) /\ p \in 1 .. Len(b)
    /\ \A j \in 1 .. p - 1 : a[j] = b[j]
    /\ a[p] # b[p]

\* b goes on after all of a.
GoesOn(a, b) == Len(a) < Len(b) /\ \A j \in 1 .. Len(a) : a[j] = b[j]

LEMMA Lengths ==
  ASSUME NEW S, NEW s \in Seq(S)
  PROVE  Len(s) \in Nat /\ DOMAIN s = 1 .. Len(s) /\ \A i \in 1 .. Len(s) : s[i] \in S
  OBVIOUS

LEMMA ThreeWays ==
  ASSUME NEW S, NEW a \in Seq(S), NEW b \in Seq(S)
  PROVE  a = b \/ GoesOn(a, b) \/ GoesOn(b, a) \/ \E p \in Nat : Differ(a, b, p)
<1> DEFINE T == {p \in Nat : p \in 1 .. Len(a) /\ p \in 1 .. Len(b) /\ a[p] # b[p]}
<1>1. Len(a) \in Nat /\ Len(b) \in Nat
  BY Lengths
<1>2. CASE T = {}
  <2>1. \A j \in 1 .. Len(a) : j <= Len(b) => a[j] = b[j]
    BY <1>1, <1>2
  <2>2. CASE Len(a) = Len(b)
    BY <1>1, <2>1, <2>2, SeqEqual
  <2>3. CASE Len(a) < Len(b)
    BY <1>1, <2>1, <2>3 DEF GoesOn
  <2>4. CASE Len(b) < Len(a)
    BY <1>1, <2>1, <2>4 DEF GoesOn
  <2> QED
    BY <1>1, <2>2, <2>3, <2>4
<1>3. CASE T # {}
  <2>1. PICK p \in T : \A q \in T : p <= q
    <3>1. T \in SUBSET Nat
      OBVIOUS
    <3> HIDE DEF T
    <3> QED
      BY <1>3, <3>1, Least
  <2>2. \A j \in 1 .. p - 1 : a[j] = b[j]
    BY <1>1, <2>1
  <2> QED
    BY <2>1, <2>2 DEF Differ
<1> QED
  BY <1>2, <1>3

\* The first difference decides.
LEMMA DifferenceDecides ==
  ASSUME NEW a \in Seq(Int), NEW b \in Seq(Int), NEW p \in Nat, Differ(a, b, p), a[p] < b[p]
  PROVE  Cmp(a, b) = "Less" /\ Cmp(b, a) = "Greater"
<1>1. /\ Len(a) \in Nat /\ Len(b) \in Nat /\ a[p] \in Int /\ b[p] \in Int
      /\ p \in 1 .. Len(a) /\ p \in 1 .. Len(b)
      /\ \A j \in 1 .. p - 1 : a[j] = b[j]
  BY Lengths DEF Differ
<1>2. Before(a, b)
  <2>1. p <= Len(a) + 1 /\ (p <= Len(a) => a[p] < b[p])
    BY <1>1
  <2> QED
    BY <1>1, <2>1, ZenonT(60) DEF Before
<1>3. ASSUME Before(b, a) PROVE FALSE
  <2>1. PICK i \in 1 .. Len(a) :
            /\ i <= Len(b) + 1
            /\ \A j \in 1 .. i - 1 : b[j] = a[j]
            /\ i <= Len(b) => b[i] < a[i]
    BY <1>3 DEF Before
  <2>2. CASE i < p
    <3>1. i \in 1 .. p - 1 /\ i <= Len(b)
      BY <1>1, <2>1, <2>2
    <3>2. a[i] = b[i] /\ b[i] < a[i] /\ a[i] \in Int
      BY <1>1, <2>1, <3>1, Lengths
    <3> QED
      BY <3>2
  <2>3. CASE i = p
    BY <1>1, <2>1, <2>3
  <2>4. CASE i > p
    <3>1. p \in 1 .. i - 1
      BY <1>1, <2>1, <2>4
    <3> QED
      BY <1>1, <2>1, <3>1
  <2> QED
    BY <1>1, <2>1, <2>2, <2>3, <2>4
<1> QED
  BY <1>2, <1>3 DEF Cmp

\* What has ended comes first.
LEMMA EndDecides ==
  ASSUME NEW a \in Seq(Int), NEW b \in Seq(Int), GoesOn(a, b)
  PROVE  Cmp(a, b) = "Less" /\ Cmp(b, a) = "Greater"
<1>1. /\ Len(a) \in Nat /\ Len(b) \in Nat /\ Len(a) < Len(b)
      /\ \A j \in 1 .. Len(a) : a[j] = b[j] /\ a[j] \in Int
  BY Lengths DEF GoesOn
<1>2. Before(a, b)
  <2>1. PICK n : n = Len(a) + 1
    OBVIOUS
  <2>2. n \in 1 .. Len(b) /\ ~(n <= Len(a)) /\ n <= Len(a) + 1
        /\ \A j \in 1 .. n - 1 : a[j] = b[j]
    BY <1>1, <2>1
  <2> QED
    BY <2>2, ZenonT(60) DEF Before
<1>3. ASSUME Before(b, a) PROVE FALSE
  <2>1. PICK i \in 1 .. Len(a) : i <= Len(b) => b[i] < a[i]
    BY <1>3 DEF Before
  <2> QED
    BY <1>1, <2>1
<1> QED
  BY <1>2, <1>3 DEF Cmp

LEMMA EqualDecides ==
  ASSUME NEW a \in Seq(Int)
  PROVE  Cmp(a, a) = "Equal"
<1>1. ASSUME Before(a, a) PROVE FALSE
  <2>1. Len(a) \in Nat
    OBVIOUS
  <2>2. PICK i \in 1 .. Len(a) : i <= Len(a) => a[i] < a[i]
    BY <1>1 DEF Before
  <2>3. a[i] < a[i] /\ a[i] \in Int
    BY <2>1, <2>2
  <2> QED
    BY <2>3
<1> QED
  BY <1>1 DEF Cmp

\* The cast keeps the order of two bytes, except that of an ASCII byte and another one
\* where char is signed.
LEMMA CastOrder ==
  ASSUME signed \in BOOLEAN, NEW m \in Byte, NEW n \in Byte, m < n
  PROVE  IF signed /\ m < 128 /\ n >= 128 THEN AsCChar(n) < AsCChar(m)
                                          ELSE AsCChar(m) < AsCChar(n)
<1>1. m % 256 = m /\ n % 256 = n /\ m \in 0 .. 255 /\ n \in 0 .. 255
  BY DEF Byte
<1> QED
  BY <1>1 DEF AsCChar

\* The last digits of two numbers decide where the others are equal.
LEMMA Digits ==
  ASSUME NEW x \in Nat, NEW y \in Nat, x < y
  PROVE  x \div 64 < y \div 64 \/ (x \div 64 = y \div 64 /\ x % 64 < y % 64)
<1>1. x = 64 * (x \div 64) + (x % 64) /\ y = 64 * (y \div 64) + (y % 64)
  OBVIOUS
<1>2. x \div 64 \in Int /\ y \div 64 \in Int /\ x % 64 \in 0 .. 63 /\ y % 64 \in 0 .. 63
  OBVIOUS
<1> QED
  BY <1>1, <1>2

\* A number without its last six bits, and the byte that carries those.
Up(x)  == x \div 64
Low(x) == 128 + (x % 64)

LEMMA UpLow ==
  ASSUME NEW x \in Nat
  PROVE  Up(x) \in Nat /\ Low(x) \in Int /\ Low(x) >= 128
  BY DEF Up, Low

LEMMA Ups ==
  ASSUME NEW x \in Nat
  PROVE  /\ x \div 1 = x /\ x \div 64 = Up(x) /\ x \div 4096 = Up(Up(x))
         /\ x \div 262144 = Up(Up(Up(x)))
         /\ Up(x) \in Nat /\ Up(Up(x)) \in Nat /\ Up(Up(Up(x))) \in Nat
         /\ x < 2048 => Up(x) < 32
         /\ x < 65536 => Up(Up(x)) < 16
<1>1. x \div 1 = x
  OBVIOUS
<1>2. x \div 64 \in Nat /\ (x < 2048 => x \div 64 < 32)
  OBVIOUS
<1>3. x \div 4096 = (x \div 64) \div 64 /\ x \div 4096 \in Nat
  OBVIOUS
<1>4. x < 65536 => x \div 4096 < 16
  OBVIOUS
<1>5. x \div 262144 = ((x \div 64) \div 64) \div 64 /\ x \div 262144 \in Nat
  OBVIOUS
<1>6. Up(x) = x \div 64
  BY DEF Up
<1>7. Up(Up(x)) = x \div 4096
  BY <1>3 DEF Up
<1>8. Up(Up(Up(x))) = x \div 262144
  BY <1>5 DEF Up
<1> QED
  BY <1>1, <1>2, <1>3, <1>4, <1>5, <1>6, <1>7, <1>8

LEMMA LowDecides ==
  ASSUME NEW x \in Nat, NEW y \in Nat, x < y
  PROVE  Up(x) < Up(y) \/ (Up(x) = Up(y) /\ Low(x) < Low(y))
<1>1. x % 64 \in Int /\ y % 64 \in Int
  OBVIOUS
<1>2. CASE x \div 64 < y \div 64
  BY <1>2 DEF Up
<1>3. CASE x \div 64 = y \div 64 /\ x % 64 < y % 64
  BY <1>1, <1>3 DEF Up, Low
<1> QED
  BY <1>2, <1>3, Digits

LEMMA Utf8Shape ==
  ASSUME NEW x \in Nat, NEW e, e = EncodeUtf8(x)
  PROVE  /\ x < 128 => Len(e) = 1 /\ e[1] = x
         /\ 128 <= x /\ x < 2048 => Len(e) = 2 /\ e[1] = 192 + (Up(x)) /\ e[2] = Low(x)
         /\ 2048 <= x /\ x < 65536 =>
               Len(e) = 3 /\ e[1] = 224 + (Up(Up(x))) /\ e[2] = Low(Up(x)) /\ e[3] = Low(x)
         /\ 65536 <= x =>
               /\ Len(e) = 4 /\ e[1] = 240 + (Up(Up(Up(x))))
               /\ e[2] = Low(Up(Up(x))) /\ e[3] = Low(Up(x)) /\ e[4] = Low(x)
<1>1. /\ x \div 1 = x /\ x \div 64 = Up(x) /\ x \div 4096 = Up(Up(x))
      /\ x \div 262144 = Up(Up(Up(x)))
  BY Ups
<1>2. CASE x < 128
  <2>1. e = <<x>>
    BY <1>2, SMT DEF EncodeUtf8
  <2> QED
    BY <1>2, <2>1
<1>3. CASE 128 <= x /\ x < 2048
  <2>1. e = <<192 + (x \div 64), 128 + ((x \div 1) % 64)>>
    BY <1>3, SMT DEF EncodeUtf8
  <2>2. e = <<192 + Up(x), Low(x)>>
    BY <1>1, <2>1 DEF Low
  <2> QED
    BY <1>3, <2>2
<1>4. CASE 2048 <= x /\ x < 65536
  <2>1. e = <<224 + (x \div 4096), 128 + ((x \div 64) % 64), 128 + ((x \div 1) % 64)>>
    BY <1>4, SMT DEF EncodeUtf8
  <2>2. e = <<224 + Up(Up(x)), Low(Up(x)), Low(x)>>
    BY <1>1, <2>1 DEF Low
  <2> QED
    BY <1>4, <2>2
<1>5. CASE 65536 <= x
  <2>1. e = <<240 + (x \div 262144), 128 + ((x \div 4096) % 64), 128 + ((x \div 64) % 64),
              128 + ((x \div 1) % 64)>>
    BY <1>5, SMT DEF EncodeUtf8
  <2>2. e = <<240 + Up(Up(Up(x))), Low(Up(Up(x))), Low(Up(x)), Low(x)>>
    BY <1>1, <2>1 DEF Low
  <2> QED
    BY <1>5, <2>2
<1> QED
  BY <1>2, <1>3, <1>4, <1>5

\* The first byte tells how long the character is.
LEMMA Utf8First ==
  ASSUME NEW x \in Scalar, NEW e, e = EncodeUtf8(x)
  PROVE  /\ e[1] \in Int /\ Len(e) \in Nat /\ Len(e) >= 1
         /\ e[1] < 128 <=> x < 128
         /\ 128 <= x /\ x < 2048 => 192 <= e[1] /\ e[1] < 224
         /\ 2048 <= x /\ x < 65536 => 224 <= e[1] /\ e[1] < 240
         /\ 65536 <= x => 240 <= e[1]
<1>1. x \in Nat
  BY ScalarIsNat
<1>2. /\ Up(x) \in Nat /\ Up(Up(x)) \in Nat /\ Up(Up(Up(x))) \in Nat
      /\ x < 2048 => Up(x) < 32
      /\ x < 65536 => Up(Up(x)) < 16
  BY <1>1, Ups
<1>3. CASE x < 128
  BY <1>1, <1>2, <1>3, Utf8Shape
<1>4. CASE 128 <= x /\ x < 2048
  BY <1>1, <1>2, <1>4, Utf8Shape
<1>5. CASE 2048 <= x /\ x < 65536
  BY <1>1, <1>2, <1>5, Utf8Shape
<1>6. CASE 65536 <= x
  BY <1>1, <1>2, <1>6, Utf8Shape
<1> QED
  BY <1>1, <1>3, <1>4, <1>5, <1>6

\* a comes before b in byte p, and both bytes are ASCII exactly if c and d are.
Decided(a, b, c, d, p) ==
    /\ Differ(a, b, p) /\ a[p] < b[p]
    /\ a[p] < 128 <=> c < 128
    /\ b[p] < 128 <=> d < 128

\* UTF-8 keeps the order of characters.
LEMMA Utf8Order ==
  ASSUME NEW c \in Scalar, NEW d \in Scalar, c < d
  PROVE  \E p \in Nat : Decided(EncodeUtf8(c), EncodeUtf8(d), c, d, p)
<1>1. c \in Nat /\ d \in Nat
  BY ScalarIsNat
<1>2. PICK a : a = EncodeUtf8(c)
  OBVIOUS
<1>3. PICK b : b = EncodeUtf8(d)
  OBVIOUS
<1>4. /\ a[1] \in Int /\ Len(a) \in Nat /\ Len(a) >= 1
      /\ a[1] < 128 <=> c < 128
  BY <1>2, Utf8First
<1>5. /\ b[1] \in Int /\ Len(b) \in Nat /\ Len(b) >= 1
      /\ b[1] < 128 <=> d < 128
  BY <1>3, Utf8First
<1>6. ASSUME a[1] < b[1] PROVE Decided(a, b, c, d, 1)
  BY <1>4, <1>5, <1>6 DEF Decided, Differ
<1>7. ASSUME NEW p \in 2 .. 4, p <= Len(a), p <= Len(b), \A j \in 1 .. p - 1 : a[j] = b[j],
             a[p] \in Int, b[p] \in Int, a[p] >= 128, b[p] >= 128, a[p] < b[p],
             c >= 128, d >= 128
      PROVE  Decided(a, b, c, d, p)
  BY <1>1, <1>4, <1>5, <1>7 DEF Decided, Differ
<1>8. PICK c1 \in Nat, c2 \in Nat, c3 \in Nat : c1 = Up(c) /\ c2 = Up(c1) /\ c3 = Up(c2)
  BY <1>1, UpLow
<1>9. PICK d1 \in Nat, d2 \in Nat, d3 \in Nat : d1 = Up(d) /\ d2 = Up(d1) /\ d3 = Up(d2)
  BY <1>1, UpLow
<1>10. /\ Low(c) \in Int /\ Low(c) >= 128 /\ Low(d) \in Int /\ Low(d) >= 128
       /\ Low(c1) \in Int /\ Low(c1) >= 128 /\ Low(d1) \in Int /\ Low(d1) >= 128
       /\ Low(c2) \in Int /\ Low(c2) >= 128 /\ Low(d2) \in Int /\ Low(d2) >= 128
  BY <1>1, UpLow
\* Those of the leading bytes that are equal leave it to the others.
<1>11. c1 < d1 \/ (c1 = d1 /\ Low(c) < Low(d))
  BY <1>1, <1>8, <1>9, LowDecides
<1>12. c1 < d1 => c2 < d2 \/ (c2 = d2 /\ Low(c1) < Low(d1))
  BY <1>8, <1>9, LowDecides
<1>13. c2 < d2 => c3 < d3 \/ (c3 = d3 /\ Low(c2) < Low(d2))
  BY <1>8, <1>9, LowDecides
<1>14. CASE \/ c < 128
            \/ 128 <= c /\ c < 2048 /\ d >= 2048
            \/ 2048 <= c /\ c < 65536 /\ d >= 65536
  <2>1. c < 128 => a[1] = c
    BY <1>1, <1>2, Utf8Shape
  <2>2. d < 128 => b[1] = d
    BY <1>1, <1>3, Utf8Shape
  <2>3. /\ 128 <= c /\ c < 2048 => a[1] < 224
        /\ 2048 <= c /\ c < 65536 => a[1] < 240
    BY <1>2, Utf8First
  <2>4. /\ 2048 <= d /\ d < 65536 => 224 <= b[1]
        /\ 65536 <= d => 240 <= b[1]
    BY <1>3, Utf8First
  <2>5. CASE c < 128
    <3>1. CASE d < 128
      BY <1>1, <1>2, <1>3, <1>6, <2>1, <2>2, <2>5, <3>1
    <3>2. CASE d >= 128
      <4>1. a[1] < 128 /\ ~(b[1] < 128)
        BY <1>1, <1>4, <1>5, <2>5, <3>2
      <4>2. a[1] < b[1]
        BY <1>4, <1>5, <4>1
      <4> QED
        BY <1>2, <1>3, <1>6, <4>2
    <3> QED
      BY <1>1, <1>2, <1>3, <3>1, <3>2
  <2>6. CASE 128 <= c /\ c < 2048 /\ d >= 2048
    <3>1. 224 <= b[1]
      <4>1. CASE d < 65536
        BY <2>4, <2>6, <4>1
      <4>2. CASE d >= 65536
        BY <1>1, <1>5, <2>4, <4>2
      <4> QED
        BY <1>1, <4>1, <4>2
    <3>2. a[1] < b[1]
      BY <1>4, <1>5, <2>3, <2>6, <3>1
    <3> QED
      BY <1>2, <1>3, <1>6, <3>2
  <2>7. CASE 2048 <= c /\ c < 65536 /\ d >= 65536
    <3>1. a[1] < b[1]
      BY <1>1, <1>4, <1>5, <2>3, <2>4, <2>7
    <3> QED
      BY <1>2, <1>3, <1>6, <3>1
  <2> QED
    BY <1>2, <1>3, <1>14, <2>5, <2>6, <2>7
<1>15. CASE 128 <= c /\ d < 2048
  <2>1. Len(a) = 2 /\ a[1] = 192 + c1 /\ a[2] = Low(c)
    BY <1>1, <1>2, <1>8, <1>15, Utf8Shape
  <2>2. Len(b) = 2 /\ b[1] = 192 + d1 /\ b[2] = Low(d)
    BY <1>1, <1>3, <1>9, <1>15, Utf8Shape
  <2>3. CASE c1 < d1
    BY <1>2, <1>3, <1>6, <2>1, <2>2, <2>3
  <2>4. CASE c1 = d1 /\ Low(c) < Low(d)
    <3>1. Decided(a, b, c, d, 2)
      BY <1>1, <1>7, <1>10, <1>15, <2>1, <2>2, <2>4
    <3> QED
      BY <1>2, <1>3, <3>1
  <2> QED
    BY <1>11, <2>3, <2>4
<1>16. CASE 2048 <= c /\ d < 65536
  <2>1. Len(a) = 3 /\ a[1] = 224 + c2 /\ a[2] = Low(c1) /\ a[3] = Low(c)
    BY <1>1, <1>2, <1>8, <1>16, Utf8Shape
  <2>2. Len(b) = 3 /\ b[1] = 224 + d2 /\ b[2] = Low(d1) /\ b[3] = Low(d)
    BY <1>1, <1>3, <1>9, <1>16, Utf8Shape
  <2>3. CASE c1 = d1 /\ Low(c) < Low(d)
    <3>1. c2 = d2 /\ Low(c1) = Low(d1)
      BY <1>8, <1>9, <2>3
    <3>2. Decided(a, b, c, d, 3)
      BY <1>1, <1>7, <1>10, <1>16, <2>1, <2>2, <2>3, <3>1
    <3> QED
      BY <1>2, <1>3, <3>2
  <2>4. CASE c2 = d2 /\ Low(c1) < Low(d1)
    <3>1. Decided(a, b, c, d, 2)
      BY <1>1, <1>7, <1>10, <1>16, <2>1, <2>2, <2>4
    <3> QED
      BY <1>2, <1>3, <3>1
  <2>5. CASE c2 < d2
    BY <1>2, <1>3, <1>6, <2>1, <2>2, <2>5
  <2> QED
    BY <1>11, <1>12, <2>3, <2>4, <2>5
<1>17. CASE 65536 <= c
  <2>1. Len(a) = 4 /\ a[1] = 240 + c3 /\ a[2] = Low(c2) /\ a[3] = Low(c1) /\ a[4] = Low(c)
    BY <1>1, <1>2, <1>8, <1>17, Utf8Shape
  <2>2. Len(b) = 4 /\ b[1] = 240 + d3 /\ b[2] = Low(d2) /\ b[3] = Low(d1) /\ b[4] = Low(d)
    <3>1. 65536 <= d
      BY <1>1, <1>17
    <3> QED
      BY <1>1, <1>3, <1>9, <3>1, Utf8Shape
  <2>3. CASE c1 = d1 /\ Low(c) < Low(d)
    <3>1. c2 = d2 /\ Low(c1) = Low(d1) /\ c3 = d3 /\ Low(c2) = Low(d2)
      BY <1>8, <1>9, <2>3
    <3>2. Decided(a, b, c, d, 4)
      BY <1>1, <1>7, <1>10, <1>17, <2>1, <2>2, <2>3, <3>1
    <3> QED
      BY <1>2, <1>3, <3>2
  <2>4. CASE c2 = d2 /\ Low(c1) < Low(d1)
    <3>1. c3 = d3 /\ Low(c2) = Low(d2)
      BY <1>8, <1>9, <2>4
    <3>2. Decided(a, b, c, d, 3)
      BY <1>1, <1>7, <1>10, <1>17, <2>1, <2>2, <2>4, <3>1
    <3> QED
      BY <1>2, <1>3, <3>2
  <2>5. CASE c3 = d3 /\ Low(c2) < Low(d2)
    <3>1. Decided(a, b, c, d, 2)
      BY <1>1, <1>7, <1>10, <1>17, <2>1, <2>2, <2>5
    <3> QED
      BY <1>2, <1>3, <3>1
  <2>6. CASE c3 < d3
    BY <1>2, <1>3, <1>6, <2>1, <2>2, <2>6
  <2> QED
    BY <1>11, <1>12, <1>13, <2>3, <2>4, <2>5, <2>6
<1> QED
  BY <1>1, <1>14, <1>15, <1>16, <1>17

\* The bytes of the first characters are the first bytes.
LEMMA BytesGoOn ==
  ASSUME NEW s \in Seq(Scalar), NEW u, Encodes(u, s, Len(s)), NEW k \in 0 .. Len(s)
  PROVE  \A n \in k .. Len(s) :
            /\ u[n] \in Seq(Byte)
            /\ Len(u[n]) >= Len(u[k])
            /\ n > k => Len(u[n]) > Len(u[k])
            /\ \A j \in 1 .. Len(u[k]) : u[n][j] = u[k][j]
<1> DEFINE N == Len(s)
           Good(n) == /\ u[n] \in Seq(Byte)
                      /\ Len(u[n]) >= Len(u[k])
                      /\ n > k => Len(u[n]) > Len(u[k])
                      /\ \A j \in 1 .. Len(u[k]) : u[n][j] = u[k][j]
           T == {n \in k .. N : ~Good(n)}
<1>1. N \in Nat /\ \A i \in 1 .. N : s[i] \in Scalar
  OBVIOUS
<1>2. /\ \A n \in 0 .. N : u[n] \in Seq(Byte)
      /\ \A n \in 1 .. N : u[n] = u[n - 1] \o EncodeUtf8(s[n])
  BY DEF Encodes
<1>3. Len(u[k]) \in Nat
  BY <1>2
<1>4. ASSUME NEW m \in k + 1 .. N, Good(m - 1) PROVE Good(m)
  <2>1. m \in 1 .. N /\ m - 1 \in 0 .. N /\ s[m] \in Scalar
    BY <1>1
  <2>2. PICK p : p = u[m - 1]
    OBVIOUS
  <2>3. PICK e : e = EncodeUtf8(s[m])
    OBVIOUS
  <2>4. p \in Seq(Byte) /\ e \in Seq(Byte) /\ u[m] = p \o e
    BY <1>2, <2>1, <2>2, <2>3, Utf8
  <2>5. Len(e) >= 1
    BY <2>1, <2>3, Utf8First
  <2>6. /\ p \o e \in Seq(Byte) /\ Len(p \o e) = Len(p) + Len(e)
        /\ Len(p) \in Nat /\ Len(e) \in Nat
        /\ \A i \in 1 .. Len(p) : (p \o e)[i] = p[i]
    BY <2>4
  <2>7. Len(p) >= Len(u[k]) /\ \A j \in 1 .. Len(u[k]) : p[j] = u[k][j]
    BY <1>4, <2>2
  <2>8. Len(p \o e) > Len(u[k])
    BY <1>3, <2>5, <2>6, <2>7
  <2>9. \A j \in 1 .. Len(u[k]) : (p \o e)[j] = u[k][j]
    BY <1>3, <2>6, <2>7
  <2> QED
    BY <1>3, <2>4, <2>6, <2>8, <2>9
<1>5. Good(k)
  BY <1>2, <1>3
<1> HIDE DEF Good
<1>6. T = {}
  <2> SUFFICES ASSUME T # {} PROVE FALSE
    OBVIOUS
  <2>1. T \in SUBSET Nat
    BY <1>1
  <2>2. PICK m \in T : \A n \in T : m <= n
    <3> HIDE DEF T
    <3> QED
      BY <2>1, Least
  <2>3. m \in k + 1 .. N /\ m - 1 \in k .. N /\ m - 1 \notin T /\ ~Good(m)
    BY <1>1, <1>5, <2>2
  <2>4. Good(m - 1)
    BY <2>3
  <2> QED
    BY <1>4, <2>3, <2>4
<1>7. \A n \in k .. N : Good(n)
  BY <1>6
<1> QED
  BY <1>7 DEF Good

\* Two texts that start alike have bytes that start alike.
LEMMA BytesAgree ==
  ASSUME NEW s \in Seq(Scalar), NEW u, Encodes(u, s, Len(s)),
         NEW t \in Seq(Scalar), NEW v, Encodes(v, t, Len(t)),
         NEW k \in Nat, k <= Len(s), k <= Len(t), \A j \in 1 .. k : s[j] = t[j]
  PROVE  u[k] = v[k]
<1> DEFINE T == {n \in 0 .. k : u[n] # v[n]}
<1>1. Len(s) \in Nat /\ Len(t) \in Nat
  OBVIOUS
<1>2. /\ u[0] = v[0]
      /\ \A n \in 1 .. Len(s) : u[n] = u[n - 1] \o EncodeUtf8(s[n])
      /\ \A n \in 1 .. Len(t) : v[n] = v[n - 1] \o EncodeUtf8(t[n])
  BY DEF Encodes
<1>3. T = {}
  <2> SUFFICES ASSUME T # {} PROVE FALSE
    OBVIOUS
  <2>1. PICK m \in T : \A n \in T : m <= n
    <3>1. T \in SUBSET Nat
      OBVIOUS
    <3> HIDE DEF T
    <3> QED
      BY <3>1, Least
  <2>2. m \in 1 .. k /\ m - 1 \in 0 .. k /\ m - 1 \notin T /\ u[m] # v[m]
    BY <1>2, <2>1
  <2>3. u[m - 1] = v[m - 1] /\ s[m] = t[m] /\ m \in 1 .. Len(s) /\ m \in 1 .. Len(t)
    BY <1>1, <2>2
  <2> QED
    BY <1>2, <2>2, <2>3
<1> QED
  BY <1>3

\* Of two texts, the bytes first differ where the characters do, and there the smaller
\* character has the smaller byte.
LEMMA BytesDiffer ==
  ASSUME NEW s \in Seq(Scalar), NEW t \in Seq(Scalar), NEW k \in Nat,
         Differ(s, t, k), s[k] < t[k]
  PROVE  \E q \in Nat : Decided(Bytes(s), Bytes(t), s[k], t[k], q)
<1>1. PICK u : Encodes(u, s, Len(s)) /\ Bytes(s) = u[Len(s)]
  BY BytesEncode
<1>2. PICK v : Encodes(v, t, Len(t)) /\ Bytes(t) = v[Len(t)]
  BY BytesEncode
<1>3. /\ Len(s) \in Nat /\ Len(t) \in Nat /\ k \in 1 .. Len(s) /\ k \in 1 .. Len(t)
      /\ k - 1 \in Nat /\ s[k] \in Scalar /\ t[k] \in Scalar
      /\ \A j \in 1 .. k - 1 : s[j] = t[j]
  BY Lengths DEF Differ
<1>4. PICK a : a = EncodeUtf8(s[k])
  OBVIOUS
<1>5. PICK b : b = EncodeUtf8(t[k])
  OBVIOUS
<1>6. PICK p \in Nat : Decided(a, b, s[k], t[k], p)
  BY <1>3, <1>4, <1>5, Utf8Order
<1>7. PICK w : w = u[k - 1]
  OBVIOUS
<1>8. w = v[k - 1]
  BY <1>1, <1>2, <1>3, <1>7, BytesAgree
<1>9. u[k] = w \o a /\ v[k] = w \o b /\ w \in Seq(Byte)
  <2>1. u[k] = u[k - 1] \o a /\ u[k - 1] \in Seq(Byte)
    <3>1. k - 1 \in 0 .. Len(s)
      BY <1>3
    <3> QED
      BY <1>1, <1>3, <1>4, <3>1 DEF Encodes
  <2>2. v[k] = v[k - 1] \o b
    BY <1>2, <1>3, <1>5 DEF Encodes
  <2> QED
    BY <1>7, <1>8, <2>1, <2>2
<1>10. a \in Seq(Byte) /\ b \in Seq(Byte)
  BY <1>3, <1>4, <1>5, Utf8
<1>11. /\ Len(w) \in Nat /\ Len(a) \in Nat /\ Len(b) \in Nat
       /\ Len(w \o a) = Len(w) + Len(a) /\ Len(w \o b) = Len(w) + Len(b)
       /\ \A i \in 1 .. Len(w) + Len(a) : (w \o a)[i] = IF i <= Len(w) THEN w[i] ELSE a[i - Len(w)]
       /\ \A i \in 1 .. Len(w) + Len(b) : (w \o b)[i] = IF i <= Len(w) THEN w[i] ELSE b[i - Len(w)]
  BY <1>9, <1>10
<1>12. /\ Bytes(s) \in Seq(Byte) /\ Len(Bytes(s)) >= Len(w \o a)
       /\ \A j \in 1 .. Len(w \o a) : Bytes(s)[j] = (w \o a)[j]
  <2>1. k \in 0 .. Len(s) /\ Len(s) \in k .. Len(s)
    BY <1>3
  <2>2. /\ u[Len(s)] \in Seq(Byte) /\ Len(u[Len(s)]) >= Len(u[k])
        /\ \A j \in 1 .. Len(u[k]) : u[Len(s)][j] = u[k][j]
    <3>1. Encodes(u, s, Len(s)) /\ k \in 0 .. Len(s)
      BY <1>1, <2>1
    <3>2. \A n \in k .. Len(s) :
             /\ u[n] \in Seq(Byte) /\ Len(u[n]) >= Len(u[k])
             /\ \A j \in 1 .. Len(u[k]) : u[n][j] = u[k][j]
      BY <3>1, BytesGoOn, ZenonT(60)
    <3> QED
      BY <2>1, <3>2, ZenonT(60)
  <2> QED
    BY <1>1, <1>9, <2>2
<1>13. /\ Bytes(t) \in Seq(Byte) /\ Len(Bytes(t)) >= Len(w \o b)
       /\ \A j \in 1 .. Len(w \o b) : Bytes(t)[j] = (w \o b)[j]
  <2>1. k \in 0 .. Len(t) /\ Len(t) \in k .. Len(t)
    BY <1>3
  <2>2. /\ v[Len(t)] \in Seq(Byte) /\ Len(v[Len(t)]) >= Len(v[k])
        /\ \A j \in 1 .. Len(v[k]) : v[Len(t)][j] = v[k][j]
    <3>1. Encodes(v, t, Len(t)) /\ k \in 0 .. Len(t)
      BY <1>2, <2>1
    <3>2. \A n \in k .. Len(t) :
             /\ v[n] \in Seq(Byte) /\ Len(v[n]) >= Len(v[k])
             /\ \A j \in 1 .. Len(v[k]) : v[n][j] = v[k][j]
      BY <3>1, BytesGoOn, ZenonT(60)
    <3> QED
      BY <2>1, <3>2, ZenonT(60)
  <2> QED
    BY <1>2, <1>9, <2>2
<1>14. /\ p \in 1 .. Len(a) /\ p \in 1 .. Len(b) /\ a[p] < b[p]
       /\ \A j \in 1 .. p - 1 : a[j] = b[j]
       /\ a[p] < 128 <=> s[k] < 128
       /\ b[p] < 128 <=> t[k] < 128
  BY <1>6 DEF Decided, Differ
<1> DEFINE q == Len(w) + p
           x == Bytes(s)
           y == Bytes(t)
<1> HIDE DEF x, y
<1>15. /\ Len(x) \in Nat /\ Len(x) >= Len(w) + Len(a)
       /\ \A j \in 1 .. Len(w) + Len(a) : x[j] = IF j <= Len(w) THEN w[j] ELSE a[j - Len(w)]
  BY <1>11, <1>12, Lengths DEF x
<1>16. /\ Len(y) \in Nat /\ Len(y) >= Len(w) + Len(b)
       /\ \A j \in 1 .. Len(w) + Len(b) : y[j] = IF j <= Len(w) THEN w[j] ELSE b[j - Len(w)]
  BY <1>11, <1>13, Lengths DEF y
<1>17. q \in Nat /\ q \in 1 .. Len(x) /\ q \in 1 .. Len(y)
  BY <1>11, <1>14, <1>15, <1>16
<1>18. x[q] = a[p] /\ y[q] = b[p]
  <2>1. q \in 1 .. Len(w) + Len(a) /\ q \in 1 .. Len(w) + Len(b) /\ ~(q <= Len(w))
        /\ q - Len(w) = p
    BY <1>11, <1>14
  <2> HIDE DEF q
  <2> QED
    BY <1>15, <1>16, <2>1
<1>19. ASSUME NEW j \in 1 .. q - 1 PROVE x[j] = y[j]
  <2>1. j \in 1 .. Len(w) + Len(a) /\ j \in 1 .. Len(w) + Len(b)
    BY <1>11, <1>14
  <2>2. CASE j <= Len(w)
    BY <1>15, <1>16, <2>1, <2>2
  <2>3. CASE j > Len(w)
    <3>1. j - Len(w) \in 1 .. p - 1 /\ ~(j <= Len(w))
      BY <1>11, <1>14, <2>3
    <3>2. x[j] = a[j - Len(w)] /\ y[j] = b[j - Len(w)]
      BY <1>15, <1>16, <2>1, <3>1
    <3> QED
      BY <1>14, <3>1, <3>2
  <2> QED
    BY <1>11, <2>2, <2>3
<1>20. a[p] \in Byte /\ b[p] \in Byte
  BY <1>10, <1>14
<1> HIDE DEF q
<1>21. Decided(x, y, s[k], t[k], q)
  <2>1. x[q] # y[q] /\ x[q] < y[q]
    <3>1. \A m, n \in Byte : m < n => m # n
      BY DEF Byte
    <3> QED
      BY <1>14, <1>18, <1>20, <3>1
  <2> QED
    BY <1>14, <1>17, <1>18, <1>19, <2>1 DEF Decided, Differ
<1> QED
  BY <1>17, <1>21 DEF x, y

\* What a cast does to a sequence of bytes.
LEMMA CastBytes ==
  ASSUME signed \in BOOLEAN, NEW x \in Seq(Byte)
  PROVE  /\ Map(AsCChar, x) \in Seq(Int) /\ Len(Map(AsCChar, x)) = Len(x)
         /\ \A i \in 1 .. Len(x) : Map(AsCChar, x)[i] = AsCChar(x[i])
<1>1. /\ Len(x) \in Nat /\ DOMAIN x = 1 .. Len(x)
      /\ \A i \in 1 .. Len(x) : x[i] \in Byte /\ x[i] \in Nat
  <2>1. \A n \in Byte : n \in Nat
    BY DEF Byte
  <2> QED
    BY <2>1
<1>2. \A i \in 1 .. Len(x) : AsCChar(x[i]) \in Int
  <2>1. \A n \in Nat : IsChar(AsCChar(n))
    BY CastBack
  <2>2. ASSUME NEW n, IsChar(n) PROVE n \in Int
    <3>1. CASE signed
      <4>1. n \in -128 .. 127
        BY <2>2, <3>1 DEF IsChar
      <4> QED
        BY <4>1
    <3>2. CASE ~signed
      <4>1. n \in 0 .. 255
        BY <2>2, <3>2 DEF IsChar
      <4> QED
        BY <4>1
    <3> QED
      BY <3>1, <3>2
  <2> QED
    BY <1>1, <2>1, <2>2
<1>3. Map(AsCChar, x) = [i \in 1 .. Len(x) |-> AsCChar(x[i])]
  BY <1>1 DEF Map
<1> QED
  BY <1>1, <1>2, <1>3

\* Of two texts, the smaller one has the smaller c_chars, unless char is signed and the
\* first difference is between ASCII and another character: then it has the larger ones.
LEMMA SmallerText ==
  ASSUME signed \in BOOLEAN, NEW s \in Seq(Scalar), NEW t \in Seq(Scalar), NEW k \in Nat,
         Differ(s, t, k), s[k] < t[k]
  PROVE  /\ Cmp(s, t) = "Less" /\ Cmp(t, s) = "Greater"
         /\ AsciiMeetsOther(s, t) <=> AsciiMeetsOther(t, s)
         /\ IF signed /\ AsciiMeetsOther(s, t)
            THEN Cmp(OfStr(s), OfStr(t)) = "Greater" /\ Cmp(OfStr(t), OfStr(s)) = "Less"
            ELSE Cmp(OfStr(s), OfStr(t)) = "Less" /\ Cmp(OfStr(t), OfStr(s)) = "Greater"
<1>1. /\ Len(s) \in Nat /\ Len(t) \in Nat /\ k \in 1 .. Len(s) /\ k \in 1 .. Len(t)
      /\ DOMAIN s = 1 .. Len(s) /\ DOMAIN t = 1 .. Len(t)
      /\ \A j \in 1 .. k - 1 : s[j] = t[j]
      /\ s[k] # t[k] /\ s[k] \in Nat /\ t[k] \in Nat
  BY Lengths, ScalarIsNat DEF Differ
<1>2. Cmp(s, t) = "Less" /\ Cmp(t, s) = "Greater"
  <2>1. Scalar \subseteq Int
    BY ScalarIsNat
  <2>2. s \in Seq(Int) /\ t \in Seq(Int)
    BY <2>1, SeqMonotonic
  <2> QED
    BY <2>2, DifferenceDecides
<1>3. AsciiMeetsOther(s, t) <=> (s[k] < 128) # (t[k] < 128)
  <2>1. ASSUME (s[k] < 128) # (t[k] < 128) PROVE AsciiMeetsOther(s, t)
    BY <1>1, <2>1 DEF AsciiMeetsOther
  <2>2. ASSUME AsciiMeetsOther(s, t) PROVE (s[k] < 128) # (t[k] < 128)
    <3>1. PICK i \in 1 .. Len(s) : /\ i \in 1 .. Len(t)
                                   /\ \A j \in 1 .. i - 1 : s[j] = t[j]
                                   /\ (s[i] < 128) # (t[i] < 128)
      BY <1>1, <2>2 DEF AsciiMeetsOther
    <3>2. s[i] # t[i]
      BY <3>1
    <3>3. ~(i < k)
      BY <1>1, <3>1, <3>2
    <3>4. ~(k < i)
      BY <1>1, <3>1
    <3>5. i = k
      BY <1>1, <3>1, <3>3, <3>4
    <3> QED
      BY <3>1, <3>5
  <2> QED
    BY <2>1, <2>2
<1>4. AsciiMeetsOther(t, s) <=> AsciiMeetsOther(s, t)
  BY <1>1 DEF AsciiMeetsOther
<1>5. PICK q \in Nat : Decided(Bytes(s), Bytes(t), s[k], t[k], q)
  BY BytesDiffer
<1>6. PICK x : x = Bytes(s)
  OBVIOUS
<1>7. PICK y : y = Bytes(t)
  OBVIOUS
<1>8. /\ x \in Seq(Byte) /\ y \in Seq(Byte)
      /\ q \in 1 .. Len(x) /\ q \in 1 .. Len(y)
      /\ \A j \in 1 .. q - 1 : x[j] = y[j]
      /\ x[q] < y[q] /\ (x[q] < 128 <=> s[k] < 128) /\ (y[q] < 128 <=> t[k] < 128)
  BY <1>5, <1>6, <1>7, BytesOfText DEF Decided, Differ
<1>9. /\ x[q] \in Byte /\ y[q] \in Byte /\ x[q] \in Nat /\ y[q] \in Nat
      /\ Len(x) \in Nat /\ Len(y) \in Nat
  <2>1. \A n \in Byte : n \in Nat
    BY DEF Byte
  <2>2. x[q] \in Byte /\ y[q] \in Byte
    BY <1>8, Lengths
  <2>3. Len(x) \in Nat /\ Len(y) \in Nat
    BY <1>8, Lengths
  <2> QED
    BY <2>1, <2>2, <2>3
<1>10. PICK a : a = OfStr(s)
  OBVIOUS
<1>11. PICK b : b = OfStr(t)
  OBVIOUS
<1>12. /\ a \in Seq(Int) /\ Len(a) = Len(x) /\ \A i \in 1 .. Len(x) : a[i] = AsCChar(x[i])
       /\ b \in Seq(Int) /\ Len(b) = Len(y) /\ \A i \in 1 .. Len(y) : b[i] = AsCChar(y[i])
  BY <1>6, <1>7, <1>8, <1>10, <1>11, CastBytes DEF OfStr
<1>13. \A j \in 1 .. q - 1 : a[j] = b[j]
  <2>1. \A j \in 1 .. q - 1 : j \in 1 .. Len(x) /\ j \in 1 .. Len(y)
    BY <1>8, <1>9
  <2> QED
    BY <1>8, <1>12, <2>1
<1>14. a[q] = AsCChar(x[q]) /\ b[q] = AsCChar(y[q]) /\ a[q] \in Int /\ b[q] \in Int
  BY <1>8, <1>12
<1>15. IF signed /\ x[q] < 128 /\ y[q] >= 128 THEN b[q] < a[q] ELSE a[q] < b[q]
  BY <1>8, <1>9, <1>14, CastOrder
<1>16. a[q] # b[q]
  BY <1>14, <1>15
<1>17. Differ(a, b, q) /\ Differ(b, a, q)
  BY <1>8, <1>12, <1>13, <1>16 DEF Differ
<1>18. signed /\ AsciiMeetsOther(s, t) <=> signed /\ x[q] < 128 /\ y[q] >= 128
  BY <1>1, <1>3, <1>8, <1>9
<1>19. CASE signed /\ AsciiMeetsOther(s, t)
  <2>1. b[q] < a[q]
    BY <1>15, <1>18, <1>19
  <2>2. Cmp(a, b) = "Greater" /\ Cmp(b, a) = "Less"
    BY <1>12, <1>17, <2>1, DifferenceDecides
  <2> QED
    BY <1>2, <1>4, <1>10, <1>11, <1>19, <2>2
<1>20. CASE ~(signed /\ AsciiMeetsOther(s, t))
  <2>1. a[q] < b[q]
    BY <1>15, <1>18, <1>20
  <2>2. Cmp(a, b) = "Less" /\ Cmp(b, a) = "Greater"
    BY <1>12, <1>17, <2>1, DifferenceDecides
  <2> QED
    BY <1>2, <1>4, <1>10, <1>11, <1>20, <2>2
<1> QED
  BY <1>19, <1>20

\* A text that goes on after another one has c_chars that do.
LEMMA LongerText ==
  ASSUME signed \in BOOLEAN, NEW s \in Seq(Scalar), NEW t \in Seq(Scalar), GoesOn(s, t)
  PROVE  /\ Cmp(s, t) = "Less" /\ Cmp(t, s) = "Greater"
         /\ ~AsciiMeetsOther(s, t) /\ ~AsciiMeetsOther(t, s)
         /\ Cmp(OfStr(s), OfStr(t)) = "Less" /\ Cmp(OfStr(t), OfStr(s)) = "Greater"
<1>1. /\ Len(s) \in Nat /\ Len(t) \in Nat /\ Len(s) < Len(t)
      /\ DOMAIN s = 1 .. Len(s) /\ DOMAIN t = 1 .. Len(t)
      /\ \A j \in 1 .. Len(s) : s[j] = t[j]
  BY Lengths DEF GoesOn
<1>2. Cmp(s, t) = "Less" /\ Cmp(t, s) = "Greater"
  <2>1. Scalar \subseteq Int
    BY ScalarIsNat
  <2>2. s \in Seq(Int) /\ t \in Seq(Int)
    BY <2>1, SeqMonotonic
  <2> QED
    BY <2>2, EndDecides
<1>3. ~AsciiMeetsOther(s, t) /\ ~AsciiMeetsOther(t, s)
  BY <1>1 DEF AsciiMeetsOther
<1>4. PICK u : Encodes(u, s, Len(s)) /\ Bytes(s) = u[Len(s)]
  BY BytesEncode
<1>5. PICK v : Encodes(v, t, Len(t)) /\ Bytes(t) = v[Len(t)]
  BY BytesEncode
<1>6. u[Len(s)] = v[Len(s)]
  BY <1>1, <1>4, <1>5, BytesAgree
<1>7. /\ Len(Bytes(t)) > Len(Bytes(s))
      /\ \A j \in 1 .. Len(Bytes(s)) : Bytes(t)[j] = Bytes(s)[j]
  <2>1. Len(s) \in 0 .. Len(t) /\ Len(t) \in Len(s) .. Len(t) /\ Len(t) > Len(s)
    BY <1>1
  <2>2. /\ Len(v[Len(t)]) > Len(v[Len(s)])
        /\ \A j \in 1 .. Len(v[Len(s)]) : v[Len(t)][j] = v[Len(s)][j]
    BY <1>5, <2>1, BytesGoOn
  <2> QED
    BY <1>4, <1>5, <1>6, <2>2
<1>8. Bytes(s) \in Seq(Byte) /\ Bytes(t) \in Seq(Byte)
  BY BytesOfText
<1>9. Len(Bytes(s)) \in Nat /\ Len(Bytes(t)) \in Nat
  BY <1>8
<1>10. /\ OfStr(s) \in Seq(Int) /\ Len(OfStr(s)) = Len(Bytes(s))
       /\ \A i \in 1 .. Len(Bytes(s)) : OfStr(s)[i] = AsCChar(Bytes(s)[i])
       /\ OfStr(t) \in Seq(Int) /\ Len(OfStr(t)) = Len(Bytes(t))
       /\ \A i \in 1 .. Len(Bytes(t)) : OfStr(t)[i] = AsCChar(Bytes(t)[i])
  BY <1>8, CastBytes DEF OfStr
<1>11. GoesOn(OfStr(s), OfStr(t))
  <2>1. \A i \in 1 .. Len(Bytes(s)) : i \in 1 .. Len(Bytes(t))
    BY <1>7, <1>9
  <2> QED
    BY <1>7, <1>10, <2>1 DEF GoesOn
<1>12. Cmp(OfStr(s), OfStr(t)) = "Less" /\ Cmp(OfStr(t), OfStr(s)) = "Greater"
  BY <1>10, <1>11, EndDecides
<1> QED
  BY <1>2, <1>3, <1>12

-----------------------------------------------------------------------------
(* The invariant: what there is was made of the text. *)

\* The numbers that became c_chars.
Source == IF from = "chars" THEN text ELSE Bytes(text)

CTypesInv ==
    /\ signed \in BOOLEAN
    /\ text \in Seq(Scalar)
    /\ from \in {"nothing", "chars", "str"}
    /\ from = "nothing" => data = <<>> /\ back = <<>>
    /\ from # "nothing" => data = Map(AsCChar, Source)
    /\ back # <<>> => back = Map(AsU8, data)
    /\ other \in Texts /\ order \in {"none", "Less", "Equal", "Greater"}
    /\ order # "none" => order = Cmp(OfStr(text), OfStr(other))

LEMMA TextsAreTexts == Texts \subseteq Seq(Scalar) /\ <<>> \in Texts
<1>1. Chars \subseteq Scalar
  BY CharsAssumption DEF Scalar
<1>2. ASSUME NEW t \in Texts PROVE t \in Seq(Scalar)
  <2>1. PICK n \in 0 .. MaxLength : t \in [1 .. n -> Chars]
    BY DEF Texts
  <2>2. n \in Nat
    BY MaxLengthAssumption
  <2>3. t \in Seq(Chars)
    BY <2>1, <2>2
  <2> QED
    BY <1>1, <2>3
<1>3. <<>> \in Texts
  <2>1. 0 \in 0 .. MaxLength
    BY MaxLengthAssumption
  <2>2. <<>> \in [1 .. 0 -> Chars]
    OBVIOUS
  <2> QED
    BY <2>1, <2>2 DEF Texts
<1> QED
  BY <1>2, <1>3

LEMMA ByteIsScalar == Seq(Byte) \subseteq Seq(Scalar)
<1>1. Byte \subseteq Scalar
  <2>1. CharMax \in Nat /\ CharMax >= 255
    BY SMT DEF CharMax
  <2> QED
    BY <2>1 DEF Byte, Scalar
<1> QED
  BY <1>1

\* The c_chars have the range of char; cast back, they are the low bytes they came from.
LEMMA Casts ==
  ASSUME CTypesInv
  PROVE  /\ from # "nothing" =>
               /\ Source \in Seq(Nat)
               /\ DOMAIN data = 1 .. Len(Source)
               /\ \A i \in 1 .. Len(Source) : AsU8(data[i]) = Source[i] % 256
               /\ Map(AsU8, data) = [i \in 1 .. Len(Source) |-> Source[i] % 256]
         /\ \A i \in DOMAIN data : IsChar(data[i]) /\ data[i] \in Int
<1>1. CASE from = "nothing"
  BY <1>1 DEF CTypesInv
<1>2. CASE from # "nothing"
  <2>1. Source \in Seq(Nat)
    <3>1. text \in Seq(Scalar) /\ Bytes(text) \in Seq(Byte)
      BY BytesOfText DEF CTypesInv
    <3>2. Scalar \subseteq Nat
      BY ScalarIsNat
    <3>3. text \in Seq(Nat) /\ Bytes(text) \in Seq(Nat)
      <4>1. Seq(Scalar) \subseteq Seq(Nat)
        BY <3>2, SeqMonotonic
      <4> QED
        BY <3>1, <4>1, ByteIsScalar
    <3> QED
      BY <3>3 DEF Source
  <2>2. data = [i \in DOMAIN Source |-> AsCChar(Source[i])] /\ signed \in BOOLEAN
    BY <1>2 DEF CTypesInv, Map
  <2>3. DOMAIN Source = 1 .. Len(Source) /\ \A i \in 1 .. Len(Source) : Source[i] \in Nat
    BY <2>1
  <2>4. ASSUME NEW i \in 1 .. Len(Source)
        PROVE  IsChar(data[i]) /\ data[i] \in Int /\ AsU8(data[i]) = Source[i] % 256
    <3>1. data[i] = AsCChar(Source[i]) /\ Source[i] \in Nat
      BY <2>2, <2>3
    <3>2. IsChar(data[i]) /\ AsU8(data[i]) = Source[i] % 256
      BY <2>2, <3>1, CastBack
    <3> QED
      BY <2>2, <3>2 DEF IsChar
  <2>5. DOMAIN data = 1 .. Len(Source)
    BY <2>2, <2>3
  <2>6. Map(AsU8, data) = [i \in 1 .. Len(Source) |-> Source[i] % 256]
    BY <2>4, <2>5 DEF Map
  <2> QED
    BY <2>1, <2>4, <2>5, <2>6
<1> QED
  BY <1>1, <1>2

\* What is read back is bytes.
LEMMA BackIsBytes ==
  ASSUME CTypesInv
  PROVE  /\ back \in Seq(Byte)
         /\ back # <<>> =>
               /\ from # "nothing" /\ Len(back) = Len(Source)
               /\ \A i \in 1 .. Len(Source) : back[i] = Source[i] % 256
<1>1. CASE back = <<>>
  BY <1>1, EmptySeq
<1>2. CASE back # <<>>
  <2>1. from # "nothing" /\ back = Map(AsU8, data)
    BY <1>2 DEF CTypesInv
  <2>2. /\ Source \in Seq(Nat)
        /\ back = [i \in 1 .. Len(Source) |-> Source[i] % 256]
    BY <2>1, Casts
  <2>3. \A i \in 1 .. Len(Source) : Source[i] % 256 \in Byte
    <3>1. \A i \in 1 .. Len(Source) : Source[i] \in Nat
      BY <2>2
    <3>2. \A n \in Nat : n % 256 \in Byte
      BY DEF Byte
    <3> QED
      BY <3>1, <3>2
  <2>4. Len(Source) \in Nat
    BY <2>2
  <2>5. back \in Seq(Byte) /\ Len(back) = Len(Source)
    BY <2>2, <2>3, <2>4
  <2> QED
    BY <2>1, <2>2, <2>5
<1> QED
  BY <1>1, <1>2

LEMMA CTypesInvInit == Init => CTypesInv
  BY TextsAreTexts DEF Init, CTypesInv

LEMMA CTypesInvStep == CTypesInv /\ [Next]_vars => CTypesInv'
<1> SUFFICES ASSUME CTypesInv, [Next]_vars PROVE CTypesInv'
  OBVIOUS
<1>1. CASE FromChars
  <2>1. /\ data' = Map(AsCChar, text) /\ from' = "chars" /\ signed' = signed /\ text' = text
        /\ back' = <<>> /\ other' = <<>> /\ order' = "none"
    BY <1>1 DEF FromChars
  <2>2. (data = Map(AsCChar, Source))'
    BY <2>1 DEF Map, AsCChar, Source
  <2> QED
    BY <2>1, <2>2, TextsAreTexts DEF CTypesInv
<1>2. CASE FromStr
  <2>1. /\ data' = Map(AsCChar, Bytes(text)) /\ from' = "str" /\ signed' = signed /\ text' = text
        /\ back' = <<>> /\ other' = <<>> /\ order' = "none"
    BY <1>2 DEF FromStr, OfStr
  <2>2. (data = Map(AsCChar, Source))'
    BY <2>1 DEF Map, AsCChar, Source
  <2> QED
    BY <2>1, <2>2, TextsAreTexts DEF CTypesInv
<1>3. CASE ReadBack
  <2>1. /\ from # "nothing" /\ from' = from /\ signed' = signed /\ text' = text /\ data' = data
        /\ back' = Map(AsU8, data) /\ other' = <<>> /\ order' = "none"
    BY <1>3 DEF ReadBack
  <2>2. (data = Map(AsCChar, Source))'
    BY <2>1 DEF CTypesInv, Map, AsCChar, Source
  <2>3. (back = Map(AsU8, data))'
    BY <2>1 DEF Map, AsU8
  <2> QED
    BY <2>1, <2>2, <2>3, TextsAreTexts DEF CTypesInv
<1>4. CASE Compare
  <2>1. PICK t \in Texts : other' = t /\ order' = Cmp(data, OfStr(t))
    BY <1>4 DEF Compare
  <2>2. /\ from = "str" /\ from' = from /\ signed' = signed /\ text' = text /\ data' = data
        /\ back' = back
    BY <1>4 DEF Compare
  <2>3. data = OfStr(text)
    BY <2>2 DEF CTypesInv, Source, OfStr
  <2>4. OfStr(text)' = OfStr(text) /\ OfStr(other)' = OfStr(t)
    BY <2>1, <2>2 DEF OfStr, Map, AsCChar
  <2>5. order' \in {"none", "Less", "Equal", "Greater"}
    BY <2>1 DEF Cmp
  <2>6. (data = Map(AsCChar, Source))' /\ (back # <<>> => back = Map(AsU8, data))'
    BY <2>2 DEF CTypesInv, Map, AsCChar, AsU8, Source
  <2> QED
    BY <2>1, <2>2, <2>3, <2>4, <2>5, <2>6 DEF CTypesInv
<1>5. CASE Reuse
  <2>1. /\ text' = back /\ data' = <<>> /\ from' = "nothing" /\ back' = <<>> /\ signed' = signed
        /\ other' = <<>> /\ order' = "none"
    BY <1>5 DEF Reuse
  <2>2. back \in Seq(Scalar)
    BY BackIsBytes, ByteIsScalar
  <2> QED
    BY <2>1, <2>2, TextsAreTexts DEF CTypesInv
<1>6. CASE UNCHANGED vars
  <2>1. /\ from' = from /\ signed' = signed /\ text' = text /\ data' = data /\ back' = back
        /\ other' = other /\ order' = order
    BY <1>6 DEF vars
  <2>2. OfStr(text)' = OfStr(text) /\ OfStr(other)' = OfStr(other)
    BY <2>1 DEF OfStr, Map, AsCChar
  <2>3. (data = Map(AsCChar, Source))' <=> data = Map(AsCChar, Source)
    BY <2>1 DEF Map, AsCChar, Source
  <2>4. (back = Map(AsU8, data))' <=> back = Map(AsU8, data)
    BY <2>1 DEF Map, AsU8
  <2> QED
    BY <2>1, <2>2, <2>3, <2>4 DEF CTypesInv
<1> QED
  BY <1>1, <1>2, <1>3, <1>4, <1>5, <1>6 DEF Next

LEMMA CTypesInductive == Spec => []CTypesInv
  BY CTypesInvInit, CTypesInvStep, PTL DEF Spec

-----------------------------------------------------------------------------
(* The theorems. *)

\* Type correctness: a c_char keeps the range of the target's char, and what is read out of
\* it is a byte.
THEOREM CTypesTypeCorrect == Spec => []CTypesTypeOK
<1>1. CTypesInv => CTypesTypeOK
  BY Casts, BackIsBytes DEF CTypesInv, CTypesTypeOK, Scalar, Byte
<1> QED
  BY <1>1, CTypesInductive, PTL

\* Characters come back as they went exactly if they are all Latin-1; a str read back
\* character by character exactly if it is ASCII; its bytes always do (ctypes.rs:44-71).
THEOREM SurvivesIffHolds == Spec => []SurvivesIff
<1>1. ASSUME CTypesInv, back # <<>> PROVE SurvivesIff
  <2>1. /\ back \in Seq(Byte) /\ Len(back) = Len(Source)
        /\ \A i \in 1 .. Len(Source) : back[i] = Source[i] % 256
    BY <1>1, BackIsBytes
  <2>2. text \in Seq(Scalar)
    BY <1>1 DEF CTypesInv
  <2>3. ASSUME from = "chars" PROVE back = text <=> AllBelow(256, text)
    <3>1. Source = text
      BY <2>3 DEF Source
    <3>2. /\ DOMAIN text = 1 .. Len(text)
          /\ \A i \in 1 .. Len(text) : text[i] \in Nat
      <4>1. /\ DOMAIN text = 1 .. Len(text)
            /\ \A i \in 1 .. Len(text) : text[i] \in Scalar
        BY <2>2
      <4> QED
        BY <4>1, ScalarIsNat
    <3>3. \A n \in Nat : n % 256 = n <=> n < 256
      OBVIOUS
    <3>4. AllBelow(256, text) => back = text
      <4> SUFFICES ASSUME AllBelow(256, text) PROVE back = text
        OBVIOUS
      <4>1. \A i \in 1 .. Len(text) : back[i] = text[i]
        BY <2>1, <3>1, <3>2, <3>3, ZenonT(60) DEF AllBelow
      <4> QED
        BY <2>1, <2>2, <3>1, <4>1, SeqEqual
    <3>5. back = text => AllBelow(256, text)
      BY <2>1, <3>1, <3>2, <3>3 DEF AllBelow
    <3> QED
      BY <3>4, <3>5
  <2>4. ASSUME from = "str"
        PROVE  back = Bytes(text) /\ (back = text <=> AllBelow(128, text))
    <3>1. Source = Bytes(text)
      BY <2>4 DEF Source
    <3>2. Bytes(text) \in Seq(Byte)
      BY <2>2, BytesOfText
    <3>3. \A i \in 1 .. Len(Bytes(text)) : Bytes(text)[i] % 256 = Bytes(text)[i]
      <4>1. \A n \in Byte : n % 256 = n
        BY DEF Byte
      <4> QED
        BY <3>2, <4>1
    <3>4. back = Bytes(text)
      BY <2>1, <3>1, <3>2, <3>3, SeqEqual
    <3>5. AllBelow(128, text) => Bytes(text) = text
      BY <2>2, BytesOfText
    <3>6. ~AllBelow(128, text) => Bytes(text) # text
      <4>1. Len(text) \in Nat /\ Len(Bytes(text)) \in Nat
        BY <2>2, <3>2
      <4>2. ~AllBelow(128, text) => Len(Bytes(text)) > Len(text)
        BY <2>2, BytesOfText
      <4> QED
        BY <4>1, <4>2
    <3> QED
      BY <3>4, <3>5, <3>6
  <2> QED
    BY <2>3, <2>4 DEF SurvivesIff
<1>2. CTypesInv => SurvivesIff
  BY <1>1 DEF SurvivesIff
<1> QED
  BY <1>2, CTypesInductive, PTL

\* Where char is unsigned, texts are sorted by their c_chars as by their characters; where
\* it is signed, exactly those pairs are not whose first difference is between an ASCII
\* character and another one (derive(Ord), ctypes.rs:2).
THEOREM OrderKeptIffHolds == Spec => []OrderKeptIff
<1>1. ASSUME CTypesInv, order # "none" PROVE OrderKeptIff
  <2>1. /\ signed \in BOOLEAN /\ text \in Seq(Scalar) /\ other \in Seq(Scalar)
        /\ order = Cmp(OfStr(text), OfStr(other))
    BY <1>1, TextsAreTexts DEF CTypesInv
  <2> SUFFICES Cmp(OfStr(text), OfStr(other)) = Cmp(text, other)
               <=> ~signed \/ ~AsciiMeetsOther(text, other)
    BY <2>1 DEF OrderKeptIff
  <2>2. CASE text = other
    <3>1. Cmp(text, other) = "Equal"
      <4>1. Scalar \subseteq Int
        BY ScalarIsNat
      <4>2. text \in Seq(Int)
        BY <2>1, <4>1, SeqMonotonic
      <4> QED
        BY <2>2, <4>2, EqualDecides
    <3>2. OfStr(text) \in Seq(Int)
      BY <2>1, BytesOfText, CastBytes DEF OfStr
    <3>3. Cmp(OfStr(text), OfStr(other)) = "Equal"
      BY <2>2, <3>2, EqualDecides
    <3>4. ~AsciiMeetsOther(text, other)
      BY <2>2 DEF AsciiMeetsOther
    <3> QED
      BY <3>1, <3>3, <3>4
  <2>3. CASE GoesOn(text, other)
    BY <2>1, <2>3, LongerText
  <2>4. CASE GoesOn(other, text)
    BY <2>1, <2>4, LongerText
  <2>5. ASSUME NEW p \in Nat, Differ(text, other, p)
        PROVE  Cmp(OfStr(text), OfStr(other)) = Cmp(text, other)
               <=> ~signed \/ ~AsciiMeetsOther(text, other)
    <3>1. text[p] \in Nat /\ other[p] \in Nat /\ text[p] # other[p]
      BY <2>1, <2>5, ScalarIsNat, Lengths DEF Differ
    <3>2. CASE text[p] < other[p]
      BY <2>1, <2>5, <3>2, SmallerText
    <3>3. CASE other[p] < text[p]
      <4>1. Differ(other, text, p)
        BY <2>5 DEF Differ
      <4> QED
        BY <2>1, <3>3, <4>1, SmallerText
    <3> QED
      BY <3>1, <3>2, <3>3
  <2> QED
    BY <2>1, <2>2, <2>3, <2>4, <2>5, ThreeWays
<1>2. CTypesInv => OrderKeptIff
  BY <1>1 DEF OrderKeptIff
<1> QED
  BY <1>2, CTypesInductive, PTL

=============================================================================
