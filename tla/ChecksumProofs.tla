--------------------------- MODULE ChecksumProofs ---------------------------
(***************************************************************************)
(* Proofs about the checksums: the Internet checksum is the one of RFC     *)
(* 1071, the CRC leaves its residue, and its digits are read back, for     *)
(* every sequence of bytes.                                                *)
(***************************************************************************)
EXTENDS Checksum, SequenceTheorems, TLAPS

Add == INSTANCE FoldTheorems WITH op <- Plus, base <- 0
Hex == INSTANCE FoldTheorems WITH op <- HexStep, base <- 0
Dec == INSTANCE FoldTheorems WITH op <- DecodeStep, base <- Zero32
Feed == INSTANCE FoldTheorems WITH op <- CrcUpdate, base <- crc

-----------------------------------------------------------------------------
(*                              Folding carries                             *)

\* The residue of RFC 1071 of a sum.
Residue(sum) == IF sum = 0 THEN 0 ELSE ((sum - 1) % 65535) + 1

\* The remainder of a number that is given by quotient and remainder.
LEMMA Remainder ==
    ASSUME NEW n \in Nat, NEW q \in Nat, NEW r \in Nat, r <= 65534, n = 65535 * q + r
    PROVE  n % 65535 = r
BY SMT

\* A number of 32 bits has two halves.
LEMMA Halves ==
    ASSUME NEW acc \in Nat, acc <= 4294967295
    PROVE  \E h \in Nat, l \in Nat :
              /\ h <= 65535 /\ l <= 65535 /\ acc = 65536 * h + l
              /\ h = acc \div 65536 /\ l = acc % 65536
<1>1. /\ acc \div 65536 \in Nat /\ acc \div 65536 <= 65535
      /\ acc % 65536 \in Nat /\ acc % 65536 <= 65535
      /\ acc = 65536 * (acc \div 65536) + (acc % 65536)
  BY SMT
<1> QED BY <1>1, SMT

\* Folding the carries of 32 bits twice leaves none, and the residue.
LEMMA FoldTwice ==
    ASSUME NEW acc \in Nat, acc <= 4294967295
    PROVE  \E r \in Nat : /\ r <= 65535 /\ r = Residue(acc)
                          /\ inet_fold(acc) = 65535 - r
<1>0. PICK h \in Nat, l \in Nat :
          /\ h <= 65535 /\ l <= 65535 /\ acc = 65536 * h + l
          /\ h = acc \div 65536 /\ l = acc % 65536
  BY Halves, SMT
<1>1. h <= 65535 /\ l <= 65535 /\ acc = 65536 * h + l
  BY <1>0, SMT
<1>2. PICK once \in Nat : once = h + l
  BY SMT
<1>3. inet_fold(acc) = 65535 - (((once \div 65536) + (once % 65536)) % 65536)
  <2>1. acc \div 65536 = h /\ acc % 65536 = l
    BY <1>0, SMT
  <2>2. inet_fold(acc) = 65535 - ((((h + l) \div 65536) + ((h + l) % 65536)) % 65536)
    BY ONLY <2>1, SMT DEF inet_fold
  <2> QED BY <1>2, <2>2, SMT
<1>4. CASE once = 0
  <2>1. acc = 0
    BY <1>1, <1>2, <1>4, SMT
  <2>2. ((once \div 65536) + (once % 65536)) % 65536 = 0
    BY <1>4, SMT
  <2>3. Residue(acc) = 0
    BY <2>1, SMT DEF Residue
  <2> QED BY <1>3, <2>2, <2>3, SMT
<1>5. CASE once # 0 /\ once <= 65535
  <2>1. ((once \div 65536) + (once % 65536)) % 65536 = once
    BY <1>5, SMT
  <2>2. PICK r \in Nat : once = r + 1
    BY <1>5, SMT
  <2>3. PICK m \in Nat : acc = m + 1 /\ m = 65535 * h + r
    BY <1>1, <1>2, <2>2, SMT
  <2>4. m % 65535 = r
    BY <1>5, <2>2, <2>3, Remainder, SMT
  <2>5. Residue(acc) = once
    BY <2>2, <2>3, <2>4, SMT DEF Residue
  <2> QED BY <1>3, <1>5, <2>1, <2>5, SMT
<1>6. CASE once > 65535
  <2>0. once <= 131070
    BY <1>1, <1>2, SMT
  <2>1. PICK r \in Nat : once = r + 65536 /\ r <= 65534
    BY <1>6, <2>0, SMT
  <2>2. ((once \div 65536) + (once % 65536)) % 65536 = r + 1
    BY <2>1, SMT
  <2>3. PICK m \in Nat, q \in Nat : acc = m + 1 /\ q = h + 1 /\ m = 65535 * q + r
    BY <1>1, <1>2, <2>1, SMT
  <2>4. m % 65535 = r
    BY <2>1, <2>3, Remainder, SMT
  <2>5. Residue(acc) = r + 1 /\ r + 1 \in Nat /\ r + 1 <= 65535
    BY <2>1, <2>3, <2>4, SMT DEF Residue
  <2> QED BY <1>3, <2>2, <2>5, SMT
<1> QED BY <1>4, <1>5, <1>6, SMT

-----------------------------------------------------------------------------
(*                            Hexadecimal digits                            *)

Nibble == {d \in Nat : d <= 15}

\* Four digits and the number they are of.
Spells(a, b, c, d, n) == n = 4096 * a + 256 * b + 16 * c + d

\* A hexadecimal digit is read back, and means nothing to the framing.
LEMMA HexRead ==
    ASSUME NEW d \in Nibble, NEW n \in Nat
    PROVE  /\ HexStep(n, HexDigit(d)) = 16 * n + d
           /\ HexDigit(d) \notin Reserved
           /\ HexDigit(d) = 48 <=> d = 0
BY SMT DEF HexStep, HexDigit, Reserved, Nibble

\* What four digits say.
LEMMA HexFour ==
    ASSUME NEW a \in Nibble, NEW b \in Nibble, NEW c \in Nibble, NEW d \in Nibble
    PROVE  Spells(a, b, c, d, HexNumber(<<HexDigit(a), HexDigit(b), HexDigit(c), HexDigit(d)>>))
<1>0. a \in Nat /\ b \in Nat /\ c \in Nat /\ d \in Nat
  BY DEF Nibble
<1>1. HexStep(0, HexDigit(a)) = a
  <2>1. HexStep(0, HexDigit(a)) = 16 * 0 + a
    BY HexRead, SMT
  <2> QED BY <1>0, <2>1, SMT
<1>2. PICK n2 \in Nat : n2 = 16 * a + b
  BY <1>0, SMT
<1>3. HexStep(a, HexDigit(b)) = n2
  BY <1>0, <1>2, HexRead, SMT
<1>4. PICK n3 \in Nat : n3 = 16 * n2 + c
  BY <1>0, SMT
<1>5. HexStep(n2, HexDigit(c)) = n3
  BY <1>4, HexRead, SMT
<1>6. PICK n4 \in Nat : n4 = 16 * n3 + d
  BY <1>0, SMT
<1>7. HexStep(n3, HexDigit(d)) = n4
  BY <1>6, HexRead, SMT
<1>8. HexNumber(<<HexDigit(a), HexDigit(b), HexDigit(c), HexDigit(d)>>) = n4
  <2>1. Hex!Fold(<<HexDigit(a), HexDigit(b), HexDigit(c), HexDigit(d)>>)
          = HexStep(HexStep(HexStep(HexStep(0, HexDigit(a)), HexDigit(b)), HexDigit(c)), HexDigit(d))
    BY Hex!FoldFour
  <2>2. Hex!Fold(<<HexDigit(a), HexDigit(b), HexDigit(c), HexDigit(d)>>) = n4
    BY <1>1, <1>3, <1>5, <1>7, <2>1, Zenon
  <2> QED BY <2>2, Zenon
          DEF HexNumber, Hex!Fold, Hex!FoldLeft, Hex!MapThenFoldSet, Hex!Max, FoldLeft,
              MapThenFoldSet, Max
<1> QED BY <1>0, <1>2, <1>4, <1>6, <1>8, SMT DEF Spells

\* The digits of a number that is put together from four of them.
LEMMA DigitsOfNumber ==
    ASSUME NEW a \in Nibble, NEW b \in Nibble, NEW c \in Nibble, NEW d \in Nibble,
           NEW n \in Nat, Spells(a, b, c, d, n)
    PROVE  /\ (n \div 4096) % 16 = a /\ (n \div 256) % 16 = b
           /\ (n \div 16) % 16 = c /\ n % 16 = d
<1>0. /\ a \in Nat /\ b \in Nat /\ c \in Nat /\ d \in Nat
      /\ a <= 15 /\ b <= 15 /\ c <= 15 /\ d <= 15
      /\ n = 4096 * a + 256 * b + 16 * c + d
  BY SMT DEF Nibble, Spells
<1>1. n \div 4096 = a
  BY <1>0, SMT
<1>2. n \div 256 = 16 * a + b
  BY <1>0, SMT
<1>3. n \div 16 = 256 * a + 16 * b + c
  BY <1>0, SMT
<1>4. n % 16 = d
  BY <1>0, SMT
<1>5. a % 16 = a
  BY <1>0, SMT
<1>6. (16 * a + b) % 16 = b
  BY <1>0, SMT
<1>7. (256 * a + 16 * b + c) % 16 = c
  BY <1>0, SMT
<1> QED BY <1>1, <1>2, <1>3, <1>4, <1>5, <1>6, <1>7, SMT

\* Division by 16.
LEMMA DivMod16 ==
    ASSUME NEW n \in Nat
    PROVE  \E q \in Nat, r \in Nibble : n = 16 * q + r
<1>1. n \div 16 \in Nat /\ n % 16 \in Nibble /\ n = 16 * (n \div 16) + (n % 16)
  BY SMT DEF Nibble
<1> QED BY <1>1, Zenon

\* A number of 16 bits has four digits.
LEMMA Nibbles ==
    ASSUME NEW n \in Nat, n <= 65535
    PROVE  \E a, b, c, d \in Nibble : Spells(a, b, c, d, n)
<1>1. PICK n3 \in Nat, d \in Nibble : n = 16 * n3 + d
  BY DivMod16, SMT
<1>2. PICK n2 \in Nat, c \in Nibble : n3 = 16 * n2 + c
  BY DivMod16, SMT
<1>3. PICK a \in Nat, b \in Nibble : n2 = 16 * a + b
  BY DivMod16, SMT
<1>4. Spells(a, b, c, d, n) /\ a \in Nibble
  BY <1>1, <1>2, <1>3, SMT DEF Spells, Nibble
<1> QED BY <1>4, SMT

\* What InetFinalize writes says what inet_fold computed, none of its digits
\* means anything to the framing, and they are all zero only for 0.
LEMMA InetWire ==
    ASSUME NEW i, NEW n \in Nat, n <= 65535, inet_fold(i.acc) = n
    PROVE  /\ HexNumber(InetFinalize(i)) = n
           /\ is_ignore_sentinel(InetFinalize(i)) <=> n = 0
           /\ \A j \in DOMAIN InetFinalize(i) : InetFinalize(i)[j] \notin Reserved
<1>1. PICK a, b, c, d \in Nibble : Spells(a, b, c, d, n)
  BY Nibbles, SMT
<1>2. /\ (n \div 4096) % 16 = a /\ (n \div 256) % 16 = b
      /\ (n \div 16) % 16 = c /\ n % 16 = d
  BY <1>1, DigitsOfNumber, SMT
<1>3. InetFinalize(i) = <<HexDigit(a), HexDigit(b), HexDigit(c), HexDigit(d)>>
  BY <1>2, SMT DEF InetFinalize
<1>4. PICK A, B, C, D : A = HexDigit(a) /\ B = HexDigit(b) /\ C = HexDigit(c) /\ D = HexDigit(d)
  BY SMT
<1> DEFINE w == <<A, B, C, D>>
<1>5. w = <<A, B, C, D>>
  BY SMT
<1> HIDE DEF w
<1>6. InetFinalize(i) = w
  BY <1>3, <1>4, <1>5, SMT
<1>7. HexNumber(w) = n
  <2>1. Spells(a, b, c, d, HexNumber(w))
    BY <1>4, <1>5, HexFour, SMT
  <2> QED BY <1>1, <2>1, SMT DEF Spells
<1>8. /\ A \notin Reserved /\ B \notin Reserved /\ C \notin Reserved /\ D \notin Reserved
      /\ A = 48 <=> a = 0
      /\ B = 48 <=> b = 0
      /\ C = 48 <=> c = 0
      /\ D = 48 <=> d = 0
  <2>1. 0 \in Nat
    BY SMT
  <2> QED BY <1>4, <2>1, HexRead, SMT
<1>9. is_ignore_sentinel(w) <=> n = 0
  <2>1. is_ignore_sentinel(w) <=> (A = 48 /\ B = 48 /\ C = 48 /\ D = 48)
    BY <1>5, SMT DEF is_ignore_sentinel
  <2>2. n = 0 <=> a = 0 /\ b = 0 /\ c = 0 /\ d = 0
    BY <1>1, SMT DEF Spells, Nibble
  <2> QED BY <1>8, <2>1, <2>2, SMT
<1>10. \A j \in DOMAIN w : w[j] \notin Reserved
  BY <1>5, <1>8, SMT
<1> QED BY <1>6, <1>7, <1>9, <1>10, SMT

-----------------------------------------------------------------------------
(*                          The words of the bytes                          *)

WordSum(bytes) == FoldLeft(Plus, 0, Words(bytes))

\* s has k words.
HasWords(s, k) ==
    /\ Words(s) \in Seq(Nat) /\ Len(Words(s)) = k
    /\ \A i \in 1 .. k : Words(s)[i] =
         256 * s[2 * i - 1] + (IF 2 * i <= Len(s) THEN s[2 * i] ELSE 0)

\* There are half as many words as bytes.
LEMMA WordsType ==
    ASSUME NEW s \in Seq(Nat), NEW k \in Nat, Len(s) = 2 * k \/ Len(s) = 2 * k - 1
    PROVE  HasWords(s, k)
<1>1. (Len(s) + 1) \div 2 = k
  BY SMT
<1>2. \A i \in 1 .. k : /\ 2 * i - 1 \in 1 .. Len(s) /\ s[2 * i - 1] \in Nat
                        /\ 2 * i <= Len(s) => s[2 * i] \in Nat
  BY SMT
<1>3. Words(s) = [i \in 1 .. k |->
          256 * s[2 * i - 1] + (IF 2 * i <= Len(s) THEN s[2 * i] ELSE 0)]
  BY <1>1, Zenon DEF Words
<1>4. ASSUME NEW i \in 1 .. k
      PROVE  256 * s[2 * i - 1] + (IF 2 * i <= Len(s) THEN s[2 * i] ELSE 0) \in Nat
  <2>1. PICK x \in Nat : x = s[2 * i - 1]
    BY <1>2, SMT
  <2>2. PICK y \in Nat : y = IF 2 * i <= Len(s) THEN s[2 * i] ELSE 0
    BY <1>2, SMT
  <2>3. 256 * x + y \in Nat
    BY SMT
  <2> QED BY <2>1, <2>2, <2>3, Zenon
<1> QED BY <1>3, <1>4, SMT DEF HasWords

\* Nothing sums to nothing.
LEMMA WordSumEmpty == WordSum(<<>>) = 0
<1>1. Words(<<>>) = <<>>
  <2>1. <<>> \in Seq(Nat) /\ Len(<<>>) = 2 * 0
    BY SMT
  <2>2. HasWords(<<>>, 0)
    BY <2>1, 0 \in Nat, WordsType, Zenon
  <2>3. Words(<<>>) \in Seq(Nat) /\ Len(Words(<<>>)) = 0
    BY <2>2, Zenon DEF HasWords
  <2> QED BY <2>3, EmptySeq, Zenon
<1>2. FoldLeft(Plus, 0, <<>>) = 0
  BY Add!FoldEmpty, Zenon
  DEF Add!Fold, Add!FoldLeft, Add!MapThenFoldSet, Add!Max, FoldLeft,
      MapThenFoldSet, Max
<1> QED BY <1>1, <1>2, Zenon DEF WordSum

\* One more word is one more term.
LEMMA AddWord ==
    ASSUME NEW w \in Seq(Nat), NEW x \in Nat
    PROVE  FoldLeft(Plus, 0, Append(w, x)) = FoldLeft(Plus, 0, w) + x
<1>1. Add!Fold(Append(w, x)) = Plus(Add!Fold(w), x)
  BY Add!FoldAppend
<1> QED BY <1>1, Zenon
        DEF Plus, Add!Fold, Add!FoldLeft, Add!MapThenFoldSet, Add!Max, FoldLeft,
            MapThenFoldSet, Max

\* Sums of words are numbers.
LEMMA AddType ==
    ASSUME NEW w \in Seq(Nat)
    PROVE  FoldLeft(Plus, 0, w) \in Nat
<1>1. 0 \in Nat /\ \A v \in Nat : \A x \in Nat : Plus(v, x) \in Nat
  BY SMT DEF Plus
<1>2. Add!Fold(w) \in Nat
  BY <1>1, Add!FoldType
<1> QED BY <1>2, Zenon
        DEF Add!Fold, Add!FoldLeft, Add!MapThenFoldSet, Add!Max, FoldLeft,
            MapThenFoldSet, Max

\* A byte at an even position, counted from 0, is the high half of a new word.
LEMMA EvenByte ==
    ASSUME NEW s \in Seq(Nat), NEW b \in Nat, NEW k \in Nat, Len(s) = 2 * k
    PROVE  WordSum(Append(s, b)) = WordSum(s) + 256 * b
<1> DEFINE t == Append(s, b)
<1>1. t \in Seq(Nat) /\ Len(t) = 2 * k + 1 /\ t[2 * k + 1] = b
      /\ \A j \in 1 .. 2 * k : t[j] = s[j]
  BY SMT
<1> HIDE DEF t
<1>2. HasWords(s, k)
  BY WordsType
<1>3. HasWords(t, k + 1)
  <2>1. k + 1 \in Nat /\ Len(t) = 2 * (k + 1) - 1
    BY <1>1, SMT
  <2> QED BY <1>1, <2>1, WordsType, Zenon
<1>4. \A i \in 1 .. k : Words(t)[i] = Words(s)[i]
  BY <1>1, <1>2, <1>3, SMT DEF HasWords
<1>5. Words(t)[k + 1] = 256 * b /\ 256 * b \in Nat
  BY <1>1, <1>3, SMT DEF HasWords
<1>6. PICK w, v \in Seq(Nat), x \in Nat : w = Words(s) /\ v = Words(t) /\ x = 256 * b
  BY <1>2, <1>3, <1>5, SMT DEF HasWords
<1>7. v = Append(w, x)
  <2>1. /\ Len(w) = k /\ Len(v) = k + 1 /\ v[k + 1] = x
        /\ \A i \in 1 .. k : v[i] = w[i]
    BY <1>2, <1>3, <1>4, <1>5, <1>6, SMT DEF HasWords
  <2> QED BY ONLY <2>1, k \in Nat, w \in Seq(Nat), v \in Seq(Nat), x \in Nat, SMT
<1>8. FoldLeft(Plus, 0, Append(w, x)) = FoldLeft(Plus, 0, w) + x
  BY AddWord
<1> QED BY <1>6, <1>7, <1>8, Zenon DEF WordSum, t

\* A byte at an odd position is the low half of the last word.
LEMMA OddByte ==
    ASSUME NEW s \in Seq(Nat), NEW b \in Nat, NEW k \in Nat, Len(s) = 2 * k + 1
    PROVE  WordSum(Append(s, b)) = WordSum(s) + b
<1> DEFINE t == Append(s, b)
<1>1. t \in Seq(Nat) /\ Len(t) = 2 * k + 2 /\ t[2 * k + 2] = b
      /\ \A j \in 1 .. 2 * k + 1 : t[j] = s[j]
  BY SMT
<1> HIDE DEF t
<1>2. HasWords(s, k + 1)
  <2>1. k + 1 \in Nat /\ Len(s) = 2 * (k + 1) - 1
    BY SMT
  <2> QED BY <2>1, WordsType, Zenon
<1>3. HasWords(t, k + 1)
  <2>1. k + 1 \in Nat /\ Len(t) = 2 * (k + 1)
    BY <1>1, SMT
  <2> QED BY <1>1, <2>1, WordsType, Zenon
<1>4. \A i \in 1 .. k : Words(t)[i] = Words(s)[i]
  BY <1>1, <1>2, <1>3, SMT DEF HasWords
<1>5. Words(t)[k + 1] = Words(s)[k + 1] + b /\ Words(s)[k + 1] \in Nat
  <2>1. Words(s)[k + 1] = 256 * s[2 * k + 1] + 0 /\ s[2 * k + 1] \in Nat
    BY <1>2, SMT DEF HasWords
  <2>2. Words(t)[k + 1] = 256 * t[2 * k + 1] + t[2 * k + 2]
    BY <1>1, <1>3, SMT DEF HasWords
  <2>3. t[2 * k + 1] = s[2 * k + 1] /\ t[2 * k + 2] = b
    BY <1>1, SMT
  <2> QED BY <2>1, <2>2, <2>3, SMT
<1>6. PICK w, v \in Seq(Nat), x, y \in Nat :
          w = Words(s) /\ v = Words(t) /\ x = Words(s)[k + 1] /\ y = x + b
  BY <1>2, <1>3, <1>5, SMT DEF HasWords
<1>7. PICK u \in Seq(Nat) : w = Append(u, x) /\ v = Append(u, y)
  <2>1. /\ Len(w) = k + 1 /\ Len(v) = k + 1 /\ w[k + 1] = x /\ v[k + 1] = y
        /\ \A i \in 1 .. k : v[i] = w[i]
    BY <1>2, <1>3, <1>4, <1>5, <1>6, SMT DEF HasWords
  <2>2. PICK u \in Seq(Nat) : Len(u) = k /\ \A i \in 1 .. k : u[i] = w[i]
    <3> DEFINE f == [i \in 1 .. k |-> w[i]]
    <3>1. f \in Seq(Nat) /\ Len(f) = k /\ \A i \in 1 .. k : f[i] = w[i]
      BY <2>1, SMT
    <3> HIDE DEF f
    <3> QED BY <3>1
  <2>3. w = Append(u, x) /\ v = Append(u, y)
    BY ONLY <2>1, <2>2, k \in Nat, u \in Seq(Nat), w \in Seq(Nat), v \in Seq(Nat),
            x \in Nat, y \in Nat, SMT
  <2> QED BY <2>3, Zenon
<1>8. /\ FoldLeft(Plus, 0, Append(u, x)) = FoldLeft(Plus, 0, u) + x
      /\ FoldLeft(Plus, 0, Append(u, y)) = FoldLeft(Plus, 0, u) + y
  BY AddWord
<1>9. PICK n \in Nat : n = FoldLeft(Plus, 0, u)
  BY AddType, SMT
<1>10. n + y = (n + x) + b
  <2>1. y = x + b
    BY <1>6
  <2> QED BY <2>1, SMT
<1>11. WordSum(s) = n + x /\ WordSum(t) = n + y
  BY <1>6, <1>7, <1>8, <1>9, Zenon DEF WordSum
<1> QED BY <1>10, <1>11, SMT DEF t

-----------------------------------------------------------------------------
(*                           The Internet checksum                          *)

\* How far the sum has come with an even and with an odd number of bytes.
Summed(n, pos, acc) ==
    \E k \in Nat :
        \/ n = 2 * k /\ pos % 2 = 0 /\ acc <= 65535 * k
        \/ n = 2 * k + 1 /\ pos % 2 = 1 /\ acc <= 65535 * k + 65280

\* The inductive invariant: acc is the sum of the words of all bytes fed, and
\* pos is even exactly between two words.
InetInv ==
    /\ fed \in Seq(Nat) /\ Len(fed) <= MaxFed
    /\ inet.acc \in Nat /\ inet.pos \in Nat
    /\ inet.acc = WordSum(fed)
    /\ Summed(Len(fed), inet.pos, inet.acc)

\* One byte more, on numbers alone.
LEMMA SummedStep ==
    ASSUME NEW n \in Nat, NEW pos \in Nat, NEW acc \in Nat, NEW b \in Nat, b <= 255,
           Summed(n, pos, acc)
    PROVE  Summed(n + 1, (pos + 1) % 65536, acc + (IF pos % 2 # 0 THEN b ELSE b * 256))
<1>1. PICK k \in Nat :
        \/ n = 2 * k /\ pos % 2 = 0 /\ acc <= 65535 * k
        \/ n = 2 * k + 1 /\ pos % 2 = 1 /\ acc <= 65535 * k + 65280
  BY SMT DEF Summed
<1>2. CASE n = 2 * k /\ pos % 2 = 0 /\ acc <= 65535 * k
  <2>1. ((pos + 1) % 65536) % 2 = 1
    BY <1>2, SMT
  <2>2. n + 1 = 2 * k + 1 /\ acc + b * 256 <= 65535 * k + 65280
    BY <1>2, SMT
  <2>3. (IF pos % 2 # 0 THEN b ELSE b * 256) = b * 256
    BY <1>2, SMT
  <2> QED BY <2>1, <2>2, <2>3, SMT DEF Summed
<1>3. CASE n = 2 * k + 1 /\ pos % 2 = 1 /\ acc <= 65535 * k + 65280
  <2>1. ((pos + 1) % 65536) % 2 = 0
    BY <1>3, SMT
  <2>2. PICK m \in Nat : m = k + 1
    BY SMT
  <2>3. n + 1 = 2 * m /\ acc + b <= 65535 * m
    BY <1>3, <2>2, SMT
  <2>4. (IF pos % 2 # 0 THEN b ELSE b * 256) = b
    BY <1>3, SMT
  <2> QED BY <2>1, <2>3, <2>4, SMT DEF Summed
<1> QED BY <1>1, <1>2, <1>3, SMT

\* Where the accumulator ends for the longest input.
LEMMA SummedBound ==
    ASSUME NEW n \in Nat, NEW pos, NEW acc \in Nat, n <= 131072, Summed(n, pos, acc)
    PROVE  acc <= 4294967295
<1>1. PICK k \in Nat :
        \/ n = 2 * k /\ acc <= 65535 * k
        \/ n = 2 * k + 1 /\ acc <= 65535 * k + 65280
  BY SMT DEF Summed
<1> QED BY <1>1, SMT

\* InetUpdate adds a byte to the sum of the words.
LEMMA WordSumStep ==
    ASSUME NEW s \in Seq(Nat), NEW b \in Nat, NEW pos, NEW acc,
           Summed(Len(s), pos, acc), acc = WordSum(s)
    PROVE  WordSum(Append(s, b)) = acc + (IF pos % 2 # 0 THEN b ELSE b * 256)
<1>1. PICK k \in Nat :
        \/ Len(s) = 2 * k /\ pos % 2 = 0
        \/ Len(s) = 2 * k + 1 /\ pos % 2 = 1
  BY SMT DEF Summed
<1>2. CASE Len(s) = 2 * k /\ pos % 2 = 0
  <2>1. WordSum(Append(s, b)) = WordSum(s) + 256 * b
    BY <1>2, EvenByte
  <2>2. 256 * b = b * 256
    BY SMT
  <2> QED BY <1>2, <2>1, <2>2, SMT
<1>3. CASE Len(s) = 2 * k + 1 /\ pos % 2 = 1
  <2>1. WordSum(Append(s, b)) = WordSum(s) + b
    BY <1>3, OddByte
  <2> QED BY <1>3, <2>1, SMT
<1> QED BY <1>1, <1>2, <1>3

\* The bytes fed.
LEMMA SumByteRange == \A byte \in SumByte : byte \in Nat /\ byte <= 255
BY SumByteAssumption, SMT

\* The sum of the words so far is in acc, whatever is fed.
THEOREM InetInvariant == ChecksumSpec => []InetInv
<1>1. ChecksumInit => InetInv
  <2> SUFFICES ASSUME ChecksumInit PROVE InetInv
    OBVIOUS
  <2>1. fed = <<>> /\ inet.acc = 0 /\ inet.pos = 0
    BY DEF ChecksumInit, InetNew
  <2>2. Len(fed) = 0 /\ fed \in Seq(Nat) /\ 0 <= MaxFed
    BY <2>1, MaxFedAssumption, SMT
  <2>3. Summed(0, 0, 0)
    <3>1. 0 = 2 * 0 /\ 0 % 2 = 0 /\ 0 <= 65535 * 0 /\ 0 \in Nat
      BY SMT
    <3> QED BY <3>1, SMT DEF Summed
  <2>4. WordSum(fed) = 0
    BY <2>1, WordSumEmpty
  <2> HIDE DEF Summed
  <2> QED BY <2>1, <2>2, <2>3, <2>4, SMT DEF InetInv
<1>2. InetInv /\ [ChecksumNext]_sumVars => InetInv'
  <2> SUFFICES ASSUME InetInv, [ChecksumNext]_sumVars PROVE InetInv'
    OBVIOUS
  <2>1. CASE UNCHANGED sumVars
    BY <2>1, SMT DEF InetInv, sumVars, Summed, WordSum
  <2>2. CASE ChecksumNext
    <3>1. PICK byte \in SumByte : update(byte)
      BY <2>2 DEF ChecksumNext
    <3>2. byte \in Nat /\ byte <= 255 /\ MaxFed \in Nat
      BY SumByteRange, MaxFedAssumption, SMT
    <3>3. PICK s \in Seq(Nat), n, pos, acc \in Nat :
              s = fed /\ n = Len(fed) /\ pos = inet.pos /\ acc = inet.acc
      BY SMT DEF InetInv
    <3>4. Summed(n, pos, acc) /\ acc = WordSum(s) /\ n = Len(s)
      BY <3>3, Zenon DEF InetInv
    <3>5. fed' = Append(s, byte) /\ n < MaxFed
      BY <3>1, <3>3, Zenon DEF update
    <3>6. /\ inet'.acc = acc + (IF pos % 2 # 0 THEN byte ELSE byte * 256)
          /\ inet'.pos = (pos + 1) % 65536
      BY <3>1, <3>3, SMT DEF update, InetUpdate
    <3>7. fed' \in Seq(Nat) /\ Len(fed') = n + 1 /\ n + 1 <= MaxFed
      BY <3>2, <3>4, <3>5, SMT
    <3>8. inet'.acc \in Nat /\ inet'.pos \in Nat
      BY <3>2, <3>6, SMT
    <3>9. Summed(n + 1, inet'.pos, inet'.acc)
      BY <3>2, <3>4, <3>6, SummedStep, SMT
    <3>10. WordSum(fed') = inet'.acc
      BY <3>2, <3>4, <3>5, <3>6, WordSumStep, SMT
    <3>11. WordSum(fed)' = WordSum(fed')
      BY Zenon DEF WordSum
    <3> QED BY <3>7, <3>8, <3>9, <3>10, <3>11, SMT DEF InetInv
  <2> QED BY <2>1, <2>2
<1> QED BY <1>1, <1>2, PTL DEF ChecksumSpec

\* The Internet checksum is the one of RFC 1071, for every sequence of bytes
\* that leaves the u32 in range.
THEOREM InternetChecksum == ChecksumSpec => []InetIsRfc1071
<1>1. InetInv => InetIsRfc1071
  <2> SUFFICES ASSUME InetInv PROVE InetIsRfc1071
    OBVIOUS
  <2>1. PICK n, acc \in Nat : n = Len(fed) /\ acc = inet.acc
    BY SMT DEF InetInv
  <2>2. Summed(n, inet.pos, acc) /\ n <= MaxFed /\ acc = WordSum(fed)
    BY <2>1, Zenon DEF InetInv
  <2>3. acc <= 4294967295
    <3>1. n <= 131072
      BY <2>2, MaxFedAssumption, SMT
    <3> QED BY <2>2, <3>1, SummedBound, SMT
  <2>4. PICK r \in Nat : /\ r <= 65535 /\ r = Residue(acc)
                         /\ inet_fold(acc) = 65535 - r
    BY <2>3, FoldTwice, SMT
  <2>5. Rfc1071Sum(fed) = r
    BY <2>2, <2>4, SMT DEF Rfc1071Sum, Residue, WordSum
  <2>6. PICK m \in Nat : m = 65535 - r /\ m <= 65535
    BY <2>4, SMT
  <2>7. inet_fold(inet.acc) = m
    BY <2>1, <2>4, <2>6, SMT
  <2>8. /\ HexNumber(InetFinalize(inet)) = m
        /\ is_ignore_sentinel(InetFinalize(inet)) <=> m = 0
        /\ \A j \in DOMAIN InetFinalize(inet) : InetFinalize(inet)[j] \notin Reserved
    BY <2>6, <2>7, InetWire, SMT
  <2>9. m = 0 <=> r = 65535
    BY <2>6, SMT
  <2> QED BY <2>5, <2>6, <2>8, <2>9, SMT DEF InetIsRfc1071
<1> QED BY <1>1, InetInvariant, PTL

-----------------------------------------------------------------------------
(*                               Bits and words                             *)

\* The bits of a word are 0 and 1.
LEMMA BitOf ==
    ASSUME NEW x \in Word32, NEW i \in BitNo
    PROVE  x[i] \in Nat /\ x[i] <= 1
BY SMT DEF Word32

\* A word is given by its bits.
LEMMA SameBits ==
    ASSUME NEW x \in Word32, NEW y \in Word32, \A i \in BitNo : x[i] = y[i]
    PROVE  x = y
BY DEF Word32

\* Exclusive or of words, bit by bit.
LEMMA XorBits ==
    ASSUME NEW x \in Word32, NEW y \in Word32
    PROVE  /\ Xor32(x, y) \in Word32
           /\ \A i \in BitNo : Xor32(x, y)[i] = (x[i] + y[i]) % 2
<1>1. ASSUME NEW i \in BitNo PROVE (x[i] + y[i]) % 2 \in {0, 1}
  <2>1. PICK a, b \in Nat : a = x[i] /\ b = y[i]
    BY BitOf
  <2>2. (a + b) % 2 \in {0, 1}
    BY SMT
  <2> QED BY <2>1, <2>2
<1> QED BY <1>1 DEF Xor32, Word32

\* A shift to the right, bit by bit.
LEMMA ShrBits ==
    ASSUME NEW x \in Word32, NEW n \in Nat
    PROVE  /\ Shr(x, n) \in Word32
           /\ \A i \in BitNo : Shr(x, n)[i] = IF i + n \in BitNo THEN x[i + n] ELSE 0
<1>1. \A i \in BitNo : (IF i + n \in BitNo THEN x[i + n] ELSE 0) \in {0, 1}
  BY Zenon DEF Word32
<1> QED BY <1>1 DEF Shr, Word32

\* The words that are all zeros, all ones, and the polynomial.
LEMMA GivenWords ==
    /\ Zero32 \in Word32 /\ \A i \in BitNo : Zero32[i] = 0
    /\ Ones32 \in Word32 /\ \A i \in BitNo : Ones32[i] = 1
    /\ Poly \in Word32
BY DEF Zero32, Ones32, Poly, Word32

\* A step of build_crc32_table makes a word of a word.
LEMMA TableStepType ==
    ASSUME NEW c \in Word32
    PROVE  TableStep(c) \in Word32
<1>1. Shr(c, 1) \in Word32
  BY ShrBits
<1>2. Xor32(Poly, Shr(c, 1)) \in Word32
  BY <1>1, GivenWords, XorBits
<1> QED BY <1>1, <1>2, Zenon DEF TableStep

Octet == [0 .. 7 -> {0, 1}]

\* The word build_crc32_table starts an entry with.
Low(o) == [i \in BitNo |-> IF i < 8 THEN o[i] ELSE 0]

\* It is a word.
LEMMA LowType ==
    ASSUME NEW o \in Octet
    PROVE  Low(o) \in Word32
<1>1. \A i \in BitNo : (IF i < 8 THEN o[i] ELSE 0) \in {0, 1}
  BY SMT DEF BitNo, Octet
<1> QED BY <1>1 DEF Low, Word32

\* The entries of CRC32_TABLE are words.
LEMMA TableType ==
    ASSUME NEW o \in Octet
    PROVE  CRC32_TABLE[o] = TableEntry(o) /\ TableEntry(o) \in Word32
<1>1. CRC32_TABLE[o] = TableEntry(o)
  BY DEF CRC32_TABLE, Octet
<1>2. TableEntry(o) \in Word32
  BY LowType, TableStepType, Zenon DEF TableEntry, Low
<1> QED BY <1>1, <1>2

\* A number that is put together from eight bits.
MadeOf(d, b0, b1, b2, b3, b4, b5, b6, b7) ==
    /\ b0 \in Nat /\ b1 \in Nat /\ b2 \in Nat /\ b3 \in Nat
    /\ b4 \in Nat /\ b5 \in Nat /\ b6 \in Nat /\ b7 \in Nat
    /\ b0 <= 1 /\ b1 <= 1 /\ b2 <= 1 /\ b3 <= 1
    /\ b4 <= 1 /\ b5 <= 1 /\ b6 <= 1 /\ b7 <= 1
    /\ d = b0 + 2 * b1 + 4 * b2 + 8 * b3 + 16 * b4 + 32 * b5 + 64 * b6 + 128 * b7

\* The bits it is put together from are its bits.
LEMMA EightBits ==
    ASSUME NEW b0, NEW b1, NEW b2, NEW b3, NEW b4, NEW b5, NEW b6, NEW b7,
           NEW d \in Nat, MadeOf(d, b0, b1, b2, b3, b4, b5, b6, b7)
    PROVE  /\ Bit(d, 0) = b0 /\ Bit(d, 1) = b1 /\ Bit(d, 2) = b2 /\ Bit(d, 3) = b3
           /\ Bit(d, 4) = b4 /\ Bit(d, 5) = b5 /\ Bit(d, 6) = b6 /\ Bit(d, 7) = b7
<1>1. /\ b0 \in Nat /\ b1 \in Nat /\ b2 \in Nat /\ b3 \in Nat
       /\ b4 \in Nat /\ b5 \in Nat /\ b6 \in Nat /\ b7 \in Nat
       /\ b0 <= 1 /\ b1 <= 1 /\ b2 <= 1 /\ b3 <= 1
       /\ b4 <= 1 /\ b5 <= 1 /\ b6 <= 1 /\ b7 <= 1
       /\ d = b0 + 2 * b1 + 4 * b2 + 8 * b3 + 16 * b4 + 32 * b5 + 64 * b6 + 128 * b7
  BY Zenon DEF MadeOf
<1>2. /\ Bit(d, 0) = (d \div 1) % 2 /\ Bit(d, 1) = (d \div 2) % 2
      /\ Bit(d, 2) = (d \div 4) % 2 /\ Bit(d, 3) = (d \div 8) % 2
      /\ Bit(d, 4) = (d \div 16) % 2 /\ Bit(d, 5) = (d \div 32) % 2
      /\ Bit(d, 6) = (d \div 64) % 2 /\ Bit(d, 7) = (d \div 128) % 2
  BY SMT DEF Bit
<1>3. d \div 1 = 2 * (b1 + 2 * b2 + 4 * b3 + 8 * b4 + 16 * b5 + 32 * b6 + 64 * b7) + b0
  BY <1>1, SMT
<1>4. d \div 2 = 2 * (b2 + 2 * b3 + 4 * b4 + 8 * b5 + 16 * b6 + 32 * b7) + b1
  BY <1>1, SMT
<1>5. d \div 4 = 2 * (b3 + 2 * b4 + 4 * b5 + 8 * b6 + 16 * b7) + b2
  BY <1>1, SMT
<1>6. d \div 8 = 2 * (b4 + 2 * b5 + 4 * b6 + 8 * b7) + b3
  BY <1>1, SMT
<1>7. d \div 16 = 2 * (b5 + 2 * b6 + 4 * b7) + b4
  BY <1>1, SMT
<1>8. d \div 32 = 2 * (b6 + 2 * b7) + b5
  BY <1>1, SMT
<1>9. d \div 64 = 2 * b7 + b6
  BY <1>1, SMT
<1>10. d \div 128 = b7
  BY <1>1, SMT
<1>11. /\ (d \div 1) % 2 = b0 /\ (d \div 2) % 2 = b1 /\ (d \div 4) % 2 = b2
      /\ (d \div 8) % 2 = b3 /\ (d \div 16) % 2 = b4 /\ (d \div 32) % 2 = b5
      /\ (d \div 64) % 2 = b6 /\ (d \div 128) % 2 = b7
  BY <1>1, <1>3, <1>4, <1>5, <1>6, <1>7, <1>8, <1>9, <1>10, SMT
<1> QED BY <1>2, <1>11, SMT

\* The bits of a byte are 0 and 1.
LEMMA BitType ==
    ASSUME NEW b \in Nat, NEW i \in 0 .. 7
    PROVE  Bit(b, i) \in Nat /\ Bit(b, i) <= 1
<1>1. PICK m \in Nat : m = b \div <<1, 2, 4, 8, 16, 32, 64, 128>>[i + 1]
  BY SMT
<1>2. m % 2 \in Nat /\ m % 2 <= 1
  BY SMT
<1> QED BY <1>1, <1>2, Zenon DEF Bit

\* The index into CRC32_TABLE.
Index(c, b) == [i \in 0 .. 7 |-> (c[i] + Bit(b, i)) % 2]

\* It is one.
LEMMA IndexType ==
    ASSUME NEW c \in Word32, NEW b \in Nat
    PROVE  Index(c, b) \in Octet
<1>1. ASSUME NEW i \in 0 .. 7 PROVE (c[i] + Bit(b, i)) % 2 \in {0, 1}
  <2>1. PICK m \in Nat : m = c[i]
    <3>1. i \in BitNo
      BY SMT DEF BitNo
    <3> QED BY <3>1, BitOf
  <2>2. PICK n \in Nat : n = Bit(b, i)
    BY BitType
  <2>3. (m + n) % 2 \in {0, 1}
    BY SMT
  <2> QED BY <2>1, <2>2, <2>3
<1> QED BY <1>1 DEF Index, Octet

\* CrcUpdate on words.
LEMMA CrcStep ==
    ASSUME NEW c \in Word32, NEW b \in Nat
    PROVE  /\ CrcUpdate(c, b) = Xor32(Shr(c, 8), TableEntry(Index(c, b)))
           /\ CrcUpdate(c, b) \in Word32
<1>1. CrcUpdate(c, b) = Xor32(Shr(c, 8), TableEntry(Index(c, b)))
  BY IndexType, TableType, Zenon DEF CrcUpdate, Index
<1>2. Shr(c, 8) \in Word32 /\ TableEntry(Index(c, b)) \in Word32
  BY IndexType, TableType, ShrBits
<1> QED BY <1>1, <1>2, XorBits

\* The CRC is a word of 32 bits.
THEOREM CrcInvariant == ChecksumSpec => [](crc \in Word32)
<1>1. ChecksumInit => crc \in Word32
  BY GivenWords DEF ChecksumInit, CrcNew
<1>2. crc \in Word32 /\ [ChecksumNext]_sumVars => (crc \in Word32)'
  <2> SUFFICES ASSUME crc \in Word32, [ChecksumNext]_sumVars PROVE crc' \in Word32
    OBVIOUS
  <2>1. CASE UNCHANGED sumVars
    BY <2>1 DEF sumVars
  <2>2. CASE ChecksumNext
    <3>1. PICK byte \in SumByte : update(byte)
      BY <2>2 DEF ChecksumNext
    <3>2. byte \in Nat
      BY SumByteRange
    <3>3. crc' = CrcUpdate(crc, byte)
      BY <3>1 DEF update
    <3> QED BY <3>2, <3>3, CrcStep, Zenon
  <2> QED BY <2>1, <2>2
<1> QED BY <1>1, <1>2, PTL DEF ChecksumSpec

-----------------------------------------------------------------------------
(*                            Digits to base 128                            *)

\* Where the digits lie.
LEMMA EncodedDigit ==
    ASSUME NEW d \in Nat, d <= 127
    PROVE  /\ d + 1 \in 1 .. 128
           /\ BASE128_ENCODE[d + 1] \notin Reserved
           /\ \A e \in 1 .. 128 : BASE128_ENCODE[e] = BASE128_ENCODE[d + 1] => e = d + 1
<1>1. ASSUME NEW e \in Nat, e >= 1, e <= 128
      PROVE  /\ e <= 11 => BASE128_ENCODE[e] = 46 + e
             /\ e > 11 /\ e <= 39 => BASE128_ENCODE[e] = 51 + e
             /\ e > 39 /\ e <= 65 => BASE128_ENCODE[e] = 57 + e
             /\ e > 65 => BASE128_ENCODE[e] = 125 + e
  BY <1>1, SMT DEF BASE128_ENCODE
<1>2. d + 1 \in 1 .. 128
  BY SMT
<1>3. BASE128_ENCODE[d + 1] \notin Reserved
  BY <1>1, <1>2, SMT DEF Reserved
<1>4. ASSUME NEW e \in 1 .. 128, BASE128_ENCODE[e] = BASE128_ENCODE[d + 1]
      PROVE  e = d + 1
  <2>1. e \in Nat /\ e >= 1 /\ e <= 128 /\ d + 1 \in Nat /\ d + 1 >= 1 /\ d + 1 <= 128
    BY SMT
  <2> QED BY <1>1, <1>4, <2>1, SMT
<1> QED BY <1>2, <1>3, <1>4

\* base128_decode_digit undoes the table.
LEMMA DecodedDigit ==
    ASSUME NEW d \in Nat, d <= 127
    PROVE  base128_decode_digit(BASE128_ENCODE[d + 1]) = d
<1> DEFINE e == CHOOSE e \in 1 .. 128 : BASE128_ENCODE[e] = BASE128_ENCODE[d + 1]
<1>1. e \in 1 .. 128 /\ BASE128_ENCODE[e] = BASE128_ENCODE[d + 1]
  BY EncodedDigit, Zenon
<1>2. base128_decode_digit(BASE128_ENCODE[d + 1]) = e - 1
  BY Zenon DEF base128_decode_digit
<1> HIDE DEF e
<1>3. e = d + 1
  BY <1>1, EncodedDigit, Zenon
<1> QED BY <1>2, <1>3, SMT

\* The bit with number n, and none beyond the word.
BitAt(x, n) == IF n \in BitNo THEN x[n] ELSE 0

\* The seven bits of a digit.
LEMMA DigitBits ==
    ASSUME NEW x \in Word32, NEW n \in Nat
    PROVE  /\ Digit128(x, n) \in Nat /\ Digit128(x, n) <= 127
           /\ \A i \in 0 .. 6 : Bit(Digit128(x, n), i) = BitAt(x, n + i)
<1>1. \A m \in Nat : BitAt(x, m) \in Nat /\ BitAt(x, m) <= 1
  BY BitOf, SMT DEF BitAt
<1>2. /\ n + 0 \in Nat /\ n + 1 \in Nat /\ n + 2 \in Nat /\ n + 3 \in Nat
      /\ n + 4 \in Nat /\ n + 5 \in Nat /\ n + 6 \in Nat
  BY SMT
<1> DEFINE b0 == BitAt(x, n + 0)
           b1 == BitAt(x, n + 1)
           b2 == BitAt(x, n + 2)
           b3 == BitAt(x, n + 3)
           b4 == BitAt(x, n + 4)
           b5 == BitAt(x, n + 5)
           b6 == BitAt(x, n + 6)
<1>3. /\ b0 \in Nat /\ b1 \in Nat /\ b2 \in Nat /\ b3 \in Nat /\ b4 \in Nat /\ b5 \in Nat /\ b6 \in Nat
      /\ b0 <= 1 /\ b1 <= 1 /\ b2 <= 1 /\ b3 <= 1 /\ b4 <= 1 /\ b5 <= 1 /\ b6 <= 1
  BY <1>1, <1>2, Zenon
<1>4. Digit128(x, n) = b0 + 2 * b1 + 4 * b2 + 8 * b3 + 16 * b4 + 32 * b5 + 64 * b6
  BY Zenon DEF Digit128, BitAt
<1> HIDE DEF b0, b1, b2, b3, b4, b5, b6
<1>5. PICK d \in Nat : /\ d = b0 + 2 * b1 + 4 * b2 + 8 * b3 + 16 * b4 + 32 * b5 + 64 * b6 + 128 * 0
                       /\ d = Digit128(x, n) /\ d <= 127
  BY <1>3, <1>4, SMT
<1>6. /\ Bit(d, 0) = b0 /\ Bit(d, 1) = b1 /\ Bit(d, 2) = b2 /\ Bit(d, 3) = b3
      /\ Bit(d, 4) = b4 /\ Bit(d, 5) = b5 /\ Bit(d, 6) = b6
  <2>1. PICK b7 \in Nat : b7 = 0 /\ b7 <= 1
    BY SMT
  <2>2. d = b0 + 2 * b1 + 4 * b2 + 8 * b3 + 16 * b4 + 32 * b5 + 64 * b6 + 128 * b7
    BY <1>5, <2>1, Zenon
  <2>3. MadeOf(d, b0, b1, b2, b3, b4, b5, b6, b7)
    BY <1>3, <2>1, <2>2, Zenon DEF MadeOf
  <2> QED BY <2>3, EightBits, SMT
<1>7. \A i \in 0 .. 6 : Bit(d, i) = BitAt(x, n + i)
  <2>1. \A i \in 0 .. 6 : i = 0 \/ i = 1 \/ i = 2 \/ i = 3 \/ i = 4 \/ i = 5 \/ i = 6
    BY SMT
  <2> QED BY <1>6, <2>1, Zenon DEF b0, b1, b2, b3, b4, b5, b6
<1> QED BY <1>5, <1>7, Zenon

\* The byte of the digit from bit n on.
DigitByte(x, n) == BASE128_ENCODE[Digit128(x, n) + 1]

\* A step of base128_decode shifts the word and fills in the digit.
LEMMA DecodeBits ==
    ASSUME NEW x \in Word32, NEW n \in Nat, NEW y \in Word32
    PROVE  /\ DecodeStep(y, DigitByte(x, n)) \in Word32
           /\ \A i \in BitNo : DecodeStep(y, DigitByte(x, n))[i]
                = IF i < 7 THEN BitAt(x, n + i) ELSE y[i - 7]
<1>1. base128_decode_digit(DigitByte(x, n)) = Digit128(x, n)
  BY DigitBits, DecodedDigit, Zenon DEF DigitByte
<1>2. \A i \in BitNo : i < 7 => i \in 0 .. 6
  BY SMT DEF BitNo
<1>3. \A i \in BitNo : DecodeStep(y, DigitByte(x, n))[i]
                = IF i < 7 THEN BitAt(x, n + i) ELSE y[i - 7]
  <2>1. DecodeStep(y, DigitByte(x, n)) =
          [i \in BitNo |-> IF i < 7 THEN Bit(Digit128(x, n), i) ELSE y[i - 7]]
    BY <1>1, Zenon DEF DecodeStep
  <2>2. \A i \in 0 .. 6 : Bit(Digit128(x, n), i) = BitAt(x, n + i)
    BY DigitBits, Zenon
  <2>3. \A i \in BitNo : DecodeStep(y, DigitByte(x, n))[i]
          = IF i < 7 THEN Bit(Digit128(x, n), i) ELSE y[i - 7]
    BY <2>1
  <2> QED BY <1>2, <2>2, <2>3, Zenon
<1>4. \A i \in BitNo : (IF i < 7 THEN BitAt(x, n + i) ELSE y[i - 7]) \in {0, 1}
  <2>1. \A m \in Nat : BitAt(x, m) \in {0, 1}
    BY DEF BitAt, Word32
  <2>2. \A i \in BitNo : n + i \in Nat /\ (~(i < 7) => i - 7 \in BitNo)
    BY SMT DEF BitNo
  <2> QED BY <2>1, <2>2 DEF Word32
<1>5. DecodeStep(y, DigitByte(x, n)) = [i \in BitNo |-> DecodeStep(y, DigitByte(x, n))[i]]
  BY DEF DecodeStep
<1>6. DecodeStep(y, DigitByte(x, n)) \in Word32
  BY <1>3, <1>4, <1>5 DEF Word32
<1> QED BY <1>3, <1>6

\* base128_decode undoes base128_encode.
LEMMA Decodes ==
    ASSUME NEW x \in Word32
    PROVE  base128_decode(base128_encode(x)) = x
<1> DEFINE x1 == DecodeStep(Zero32, DigitByte(x, 28))
           x2 == DecodeStep(x1, DigitByte(x, 21))
           x3 == DecodeStep(x2, DigitByte(x, 14))
           x4 == DecodeStep(x3, DigitByte(x, 7))
           x5 == DecodeStep(x4, DigitByte(x, 0))
<1>1. base128_decode(base128_encode(x)) = x5
  <2>1. base128_encode(x) = <<DigitByte(x, 28), DigitByte(x, 21), DigitByte(x, 14),
                              DigitByte(x, 7), DigitByte(x, 0)>>
    BY Zenon DEF base128_encode, DigitByte
  <2>2. Dec!Fold(<<DigitByte(x, 28), DigitByte(x, 21), DigitByte(x, 14),
                   DigitByte(x, 7), DigitByte(x, 0)>>) = x5
    BY Dec!FoldFive
  <2>3. Dec!Fold(base128_encode(x)) = x5
    BY <2>1, <2>2, Zenon
  <2> HIDE DEF x5
  <2> QED BY <2>3, Zenon
          DEF base128_decode, Dec!Fold, Dec!FoldLeft, Dec!MapThenFoldSet, Dec!Max, FoldLeft,
              MapThenFoldSet, Max
<1>2. x1 \in Word32 /\ \A i \in BitNo : x1[i] = IF i < 7 THEN BitAt(x, 28 + i) ELSE Zero32[i - 7]
  BY GivenWords, DecodeBits
<1> HIDE DEF x1
<1>3. x2 \in Word32 /\ \A i \in BitNo : x2[i] = IF i < 7 THEN BitAt(x, 21 + i) ELSE x1[i - 7]
  BY <1>2, DecodeBits
<1> HIDE DEF x2
<1>4. x3 \in Word32 /\ \A i \in BitNo : x3[i] = IF i < 7 THEN BitAt(x, 14 + i) ELSE x2[i - 7]
  BY <1>3, DecodeBits
<1> HIDE DEF x3
<1>5. x4 \in Word32 /\ \A i \in BitNo : x4[i] = IF i < 7 THEN BitAt(x, 7 + i) ELSE x3[i - 7]
  BY <1>4, DecodeBits
<1> HIDE DEF x4
<1>6. x5 \in Word32 /\ \A i \in BitNo : x5[i] = IF i < 7 THEN BitAt(x, 0 + i) ELSE x4[i - 7]
  BY <1>5, DecodeBits
<1> HIDE DEF x5
<1>7. ASSUME NEW i \in BitNo PROVE x5[i] = x[i]
  <2>1. CASE i < 7
    <3>1. 0 + i = i
      BY SMT DEF BitNo
    <3>2. x5[i] = BitAt(x, 0 + i)
      BY <1>6, <2>1, Zenon
    <3>3. BitAt(x, i) = x[i]
      BY DEF BitAt
    <3> QED BY <3>1, <3>2, <3>3, Zenon
  <2>2. CASE i >= 7 /\ i < 14
    <3>1. PICK j \in BitNo : j = i - 7 /\ j < 7 /\ 7 + j = i /\ ~(i < 7)
      BY <2>2, SMT DEF BitNo
    <3>2. x4[j] = BitAt(x, i)
      BY <1>5, <3>1, Zenon
    <3> QED BY <1>6, <3>1, <3>2, Zenon DEF BitAt
  <2>3. CASE i >= 14 /\ i < 21
    <3>1. PICK j, k \in BitNo : /\ k = i - 7 /\ j = k - 7 /\ j < 7 /\ 14 + j = i
                                /\ ~(i < 7) /\ ~(k < 7)
      BY <2>3, SMT DEF BitNo
    <3>2. x3[j] = BitAt(x, i)
      BY <1>4, <3>1, Zenon
    <3>3. x4[k] = BitAt(x, i)
      BY <1>5, <3>1, <3>2, Zenon
    <3> QED BY <1>6, <3>1, <3>3, Zenon DEF BitAt
  <2>4. CASE i >= 21 /\ i < 28
    <3>1. PICK j, k, l \in BitNo : /\ l = i - 7 /\ k = l - 7 /\ j = k - 7 /\ j < 7
                                   /\ 21 + j = i /\ ~(i < 7) /\ ~(k < 7) /\ ~(l < 7)
      BY <2>4, SMT DEF BitNo
    <3>2. x2[j] = BitAt(x, i)
      BY <1>3, <3>1, Zenon
    <3>3. x3[k] = BitAt(x, i)
      BY <1>4, <3>1, <3>2, Zenon
    <3>4. x4[l] = BitAt(x, i)
      BY <1>5, <3>1, <3>3, Zenon
    <3> QED BY <1>6, <3>1, <3>4, Zenon DEF BitAt
  <2>5. CASE i >= 28
    <3>1. PICK j, k, l, m \in BitNo :
              /\ m = i - 7 /\ l = m - 7 /\ k = l - 7 /\ j = k - 7 /\ j < 7
              /\ 28 + j = i /\ ~(i < 7) /\ ~(k < 7) /\ ~(l < 7) /\ ~(m < 7)
      BY <2>5, SMT DEF BitNo
    <3>2. x1[j] = BitAt(x, i)
      BY <1>2, <3>1, Zenon
    <3>3. x2[k] = BitAt(x, i)
      BY <1>3, <3>1, <3>2, Zenon
    <3>4. x3[l] = BitAt(x, i)
      BY <1>4, <3>1, <3>3, Zenon
    <3>5. x4[m] = BitAt(x, i)
      BY <1>5, <3>1, <3>4, Zenon
    <3> QED BY <1>6, <3>1, <3>5, Zenon DEF BitAt
  <2> QED BY <2>1, <2>2, <2>3, <2>4, <2>5, SMT DEF BitNo
<1>8. x5 = x
  BY <1>6, <1>7, SameBits
<1> QED BY <1>1, <1>8

\* The digits of every CRC are read back and mean nothing to the framing.
THEOREM CrcDigits == ChecksumSpec => []DigitsDecode
<1>1. crc \in Word32 => DigitsDecode
  <2> SUFFICES ASSUME crc \in Word32 PROVE DigitsDecode
    OBVIOUS
  <2> DEFINE x == Xor32(crc, Ones32)
  <2>1. x \in Word32
    BY GivenWords, XorBits
  <2> HIDE DEF x
  <2>2. base128_decode(base128_encode(x)) = x
    BY <2>1, Decodes
  <2>3. \A n \in Nat : DigitByte(x, n) \notin Reserved
    BY <2>1, DigitBits, EncodedDigit, Zenon DEF DigitByte
  <2>4. \A i \in 1 .. 5 : base128_encode(x)[i] \notin Reserved
    <3>1. base128_encode(x) = <<DigitByte(x, 28), DigitByte(x, 21), DigitByte(x, 14),
                                DigitByte(x, 7), DigitByte(x, 0)>>
      BY Zenon DEF base128_encode, DigitByte
    <3> QED BY <2>3, <3>1, SMT
  <2>5. CrcFinalize(crc) = base128_encode(x)
    BY DEF CrcFinalize, x
  <2> QED BY <2>2, <2>4, <2>5 DEF DigitsDecode, x
<1> QED BY <1>1, CrcInvariant, PTL

-----------------------------------------------------------------------------
(*                           The residue of the CRC                         *)

\* A word by the numbers of the bits that are set in it.
WordOf(A) == [i \in BitNo |-> IF i \in A THEN 1 ELSE 0]

PolyBits == {31, 30, 29, 27, 26, 24, 23, 21, 20, 19, 15, 9, 8, 5}

\* The bits after a step of build_crc32_table, and after all eight of them.
Stepped(A) == {i \in BitNo : ~(i + 1 \in A <=> (0 \in A /\ i \in PolyBits))}
EntryBits(A) == Stepped(Stepped(Stepped(Stepped(Stepped(Stepped(Stepped(Stepped(A))))))))

\* Such a word, bit by bit.
LEMMA WordOfBits ==
    ASSUME NEW A
    PROVE  /\ WordOf(A) \in Word32
           /\ \A i \in BitNo : WordOf(A)[i] = IF i \in A THEN 1 ELSE 0
BY DEF WordOf, Word32

\* A step, on the bits that are set.
LEMMA StepBits ==
    ASSUME NEW A \in SUBSET BitNo
    PROVE  TableStep(WordOf(A)) = WordOf(Stepped(A)) /\ Stepped(A) \in SUBSET BitNo
<1> DEFINE c == WordOf(A)
           e == WordOf(Stepped(A))
<1>1. /\ c \in Word32 /\ e \in Word32 /\ TableStep(c) \in Word32 /\ Shr(c, 1) \in Word32
      /\ \A i \in BitNo : c[i] = IF i \in A THEN 1 ELSE 0
      /\ \A i \in BitNo : e[i] = IF i \in Stepped(A) THEN 1 ELSE 0
      /\ \A i \in BitNo : Shr(c, 1)[i] = IF i + 1 \in BitNo THEN c[i + 1] ELSE 0
  BY WordOfBits, TableStepType, ShrBits
<1> HIDE DEF c, e
<1>2. \A i \in BitNo : Shr(c, 1)[i] = IF i + 1 \in A THEN 1 ELSE 0
  BY <1>1
<1>3. c[0] = 1 <=> 0 \in A
  <2>1. 0 \in BitNo
    BY SMT DEF BitNo
  <2> QED BY <1>1, <2>1, SMT
<1>4. \A i \in BitNo : Poly[i] = IF i \in PolyBits THEN 1 ELSE 0
  BY DEF Poly, PolyBits
<1>5. ASSUME NEW i \in BitNo PROVE TableStep(c)[i] = e[i]
  <2>1. CASE 0 \in A
    <3>1. TableStep(c) = Xor32(Poly, Shr(c, 1))
      BY <1>3, <2>1 DEF TableStep
    <3>2. TableStep(c)[i] = (Poly[i] + Shr(c, 1)[i]) % 2
      <4>1. Poly \in Word32 /\ Shr(c, 1) \in Word32
        BY <1>1, GivenWords
      <4>2. Xor32(Poly, Shr(c, 1))[i] = (Poly[i] + Shr(c, 1)[i]) % 2
        BY <4>1, XorBits
      <4> QED BY <3>1, <4>2, Zenon
    <3>3. i \in Stepped(A) <=> ~(i + 1 \in A <=> i \in PolyBits)
      BY <2>1 DEF Stepped
    <3>4. (1 + 1) % 2 = 0 /\ (1 + 0) % 2 = 1 /\ (0 + 1) % 2 = 1 /\ (0 + 0) % 2 = 0
      BY SMT
    <3>5. e[i] = IF i \in Stepped(A) THEN 1 ELSE 0
      BY <1>1
    <3>6. Poly[i] = IF i \in PolyBits THEN 1 ELSE 0
      BY <1>4
    <3>7. Shr(c, 1)[i] = IF i + 1 \in A THEN 1 ELSE 0
      BY <1>2
    <3>8. CASE i \in PolyBits /\ i + 1 \in A
      BY <3>2, <3>3, <3>4, <3>5, <3>6, <3>7, <3>8, Zenon
    <3>9. CASE i \in PolyBits /\ i + 1 \notin A
      BY <3>2, <3>3, <3>4, <3>5, <3>6, <3>7, <3>9, Zenon
    <3>10. CASE i \notin PolyBits /\ i + 1 \in A
      BY <3>2, <3>3, <3>4, <3>5, <3>6, <3>7, <3>10, Zenon
    <3>11. CASE i \notin PolyBits /\ i + 1 \notin A
      BY <3>2, <3>3, <3>4, <3>5, <3>6, <3>7, <3>11, Zenon
    <3> QED BY <3>8, <3>9, <3>10, <3>11, Zenon
  <2>2. CASE 0 \notin A
    <3>1. TableStep(c) = Shr(c, 1)
      BY <1>3, <2>2 DEF TableStep
    <3>2. i \in Stepped(A) <=> i + 1 \in A
      BY <2>2 DEF Stepped
    <3> QED BY <1>1, <1>2, <3>1, <3>2
  <2> QED BY <2>1, <2>2
<1>6. TableStep(c) = e
  BY <1>1, <1>5, SameBits
<1> QED BY <1>6, Zenon DEF c, e, Stepped

\* An entry of the table, on the bits that are set.
LEMMA EntryOfBits ==
    ASSUME NEW o \in Octet, NEW A \in SUBSET (0 .. 7), \A i \in 0 .. 7 : o[i] = IF i \in A THEN 1 ELSE 0
    PROVE  TableEntry(o) = WordOf(EntryBits(A))
<1>1. A \in SUBSET BitNo
  BY SMT DEF BitNo
<1>2. Low(o) = WordOf(A)
  <2>1. \A i \in BitNo : (i < 8 => i \in 0 .. 7) /\ (i \in A => i < 8)
    BY SMT DEF BitNo
  <2>2. \A i \in BitNo : (IF i < 8 THEN o[i] ELSE 0) = (IF i \in A THEN 1 ELSE 0)
    BY <2>1
  <2> QED BY <2>2, Zenon DEF Low, WordOf
<1>3. TableEntry(o) = TableStep(TableStep(TableStep(TableStep(TableStep(TableStep(TableStep(
                        TableStep(Low(o)))))))))
  BY Zenon DEF TableEntry, Low
<1> DEFINE A2 == Stepped(Stepped(A))
           A4 == Stepped(Stepped(A2))
           A6 == Stepped(Stepped(A4))
<1>4. TableStep(TableStep(WordOf(A))) = WordOf(A2) /\ A2 \in SUBSET BitNo
  BY <1>1, StepBits, Zenon
<1> HIDE DEF A2
<1>5. TableStep(TableStep(WordOf(A2))) = WordOf(A4) /\ A4 \in SUBSET BitNo
  BY <1>4, StepBits, Zenon
<1> HIDE DEF A4
<1>6. TableStep(TableStep(WordOf(A4))) = WordOf(A6) /\ A6 \in SUBSET BitNo
  BY <1>5, StepBits, Zenon
<1> HIDE DEF A6
<1>7. TableStep(TableStep(WordOf(A6))) = WordOf(Stepped(Stepped(A6)))
  BY <1>6, StepBits, Zenon
<1>8. EntryBits(A) = Stepped(Stepped(A6))
  BY Zenon DEF EntryBits, A6, A4, A2
<1> QED BY <1>2, <1>3, <1>4, <1>5, <1>6, <1>7, <1>8, Zenon

\* The byte of x that starts at bit n.
OwnByte(x, n) == Digit128(x, n) + 128 * x[n + 7]

\* Its bits.
LEMMA OwnBits ==
    ASSUME NEW x \in Word32, NEW n \in Nat, n <= 24
    PROVE  /\ OwnByte(x, n) \in Nat
           /\ \A i \in 0 .. 7 : Bit(OwnByte(x, n), i) = x[n + i]
<1>1. \A i \in 0 .. 7 : n + i \in BitNo
  BY SMT DEF BitNo
<1>2. \A i \in 0 .. 7 : x[n + i] \in Nat /\ x[n + i] <= 1
  BY <1>1, BitOf
<1> DEFINE b0 == x[n + 0]
           b1 == x[n + 1]
           b2 == x[n + 2]
           b3 == x[n + 3]
           b4 == x[n + 4]
           b5 == x[n + 5]
           b6 == x[n + 6]
           b7 == x[n + 7]
<1>3. /\ 0 \in 0 .. 7 /\ 1 \in 0 .. 7 /\ 2 \in 0 .. 7 /\ 3 \in 0 .. 7
      /\ 4 \in 0 .. 7 /\ 5 \in 0 .. 7 /\ 6 \in 0 .. 7 /\ 7 \in 0 .. 7
  BY SMT
<1>4. /\ b0 \in Nat /\ b1 \in Nat /\ b2 \in Nat /\ b3 \in Nat
      /\ b4 \in Nat /\ b5 \in Nat /\ b6 \in Nat /\ b7 \in Nat
      /\ b0 <= 1 /\ b1 <= 1 /\ b2 <= 1 /\ b3 <= 1 /\ b4 <= 1 /\ b5 <= 1 /\ b6 <= 1 /\ b7 <= 1
  BY <1>2, <1>3, Zenon
<1>5. Digit128(x, n) = b0 + 2 * b1 + 4 * b2 + 8 * b3 + 16 * b4 + 32 * b5 + 64 * b6
  <2>1. /\ n + 0 \in BitNo /\ n + 1 \in BitNo /\ n + 2 \in BitNo /\ n + 3 \in BitNo
        /\ n + 4 \in BitNo /\ n + 5 \in BitNo /\ n + 6 \in BitNo
    BY <1>1, <1>3, Zenon
  <2> QED BY <2>1, SMT DEF Digit128
<1> DEFINE own == Digit128(x, n) + 128 * x[n + 7]
<1>6. /\ own \in Nat
      /\ own = b0 + 2 * b1 + 4 * b2 + 8 * b3 + 16 * b4 + 32 * b5 + 64 * b6 + 128 * b7
  <2>1. own = Digit128(x, n) + 128 * b7
    BY Zenon
  <2> HIDE DEF own, b0, b1, b2, b3, b4, b5, b6, b7
  <2> QED BY <1>4, <1>5, <2>1, SMT
<1> HIDE DEF own, b0, b1, b2, b3, b4, b5, b6, b7
<1>7. MadeOf(own, b0, b1, b2, b3, b4, b5, b6, b7)
  BY <1>4, <1>6, Zenon DEF MadeOf
<1>8. /\ Bit(own, 0) = b0 /\ Bit(own, 1) = b1 /\ Bit(own, 2) = b2 /\ Bit(own, 3) = b3
      /\ Bit(own, 4) = b4 /\ Bit(own, 5) = b5 /\ Bit(own, 6) = b6 /\ Bit(own, 7) = b7
  BY <1>6, <1>7, EightBits, SMT
<1>9. \A i \in 0 .. 7 : Bit(own, i) = x[n + i]
  <2>1. \A i \in 0 .. 7 : \/ i = 0 \/ i = 1 \/ i = 2 \/ i = 3
                          \/ i = 4 \/ i = 5 \/ i = 6 \/ i = 7
    BY SMT
  <2> QED BY <1>8, <2>1, Zenon DEF b0, b1, b2, b3, b4, b5, b6, b7
<1> QED BY <1>6, <1>9, Zenon DEF own, OwnByte

\* What feeding a CRC its own next byte makes of the bits that do not depend on it.
FedBits(K) == {i \in BitNo : ~(i + 8 \in K <=> i \in EntryBits({j \in 0 .. 7 : j \notin K}))}

\* Feeding the byte from bit n on of the complement of c shifts c out by eight
\* bits: what is left of it is in no index into the table.
LEMMA OwnByteStep ==
    ASSUME NEW c \in Word32, NEW n \in Nat, n <= 24, NEW K \in SUBSET BitNo,
           NEW b \in Nat, \A i \in 0 .. 7 : Bit(b, i) = 1 - c[n + i]
    PROVE  CrcUpdate(Xor32(Shr(c, n), WordOf(K)), b) = Xor32(Shr(c, n + 8), WordOf(FedBits(K)))
<1> DEFINE s == Xor32(Shr(c, n), WordOf(K))
           o == Index(s, b)
           A == {j \in 0 .. 7 : j \notin K}
           E == EntryBits(A)
           F == FedBits(K)
<1>1. /\ Shr(c, n) \in Word32 /\ WordOf(K) \in Word32
      /\ \A i \in BitNo : Shr(c, n)[i] = IF i + n \in BitNo THEN c[i + n] ELSE 0
      /\ \A i \in BitNo : WordOf(K)[i] = IF i \in K THEN 1 ELSE 0
  BY ShrBits, WordOfBits
<1>2. s \in Word32 /\ \A i \in BitNo : s[i] = (Shr(c, n)[i] + WordOf(K)[i]) % 2
  BY <1>1, XorBits
<1> HIDE DEF s
<1>3. o \in Octet
  BY <1>2, IndexType
<1>4. ASSUME NEW i \in 0 .. 7 PROVE o[i] = IF i \in A THEN 1 ELSE 0
  <2>1. i \in BitNo /\ i + n \in BitNo /\ i + n = n + i
    BY SMT DEF BitNo
  <2>2. PICK m \in Nat : m = c[n + i] /\ m <= 1
    BY <2>1, BitOf
  <2>3. PICK k \in Nat : k = WordOf(K)[i] /\ k = IF i \in K THEN 1 ELSE 0
    BY <1>1, <2>1
  <2>4. s[i] = (m + k) % 2
    BY <1>1, <1>2, <2>1, <2>2, <2>3, Zenon
  <2>5. Bit(b, i) = 1 - m
    BY <2>2
  <2>6. o[i] = (s[i] + Bit(b, i)) % 2
    BY DEF Index
  <2>7. (((m + k) % 2) + (1 - m)) % 2 = IF k = 1 THEN 0 ELSE 1
    <3>1. k = 0 \/ k = 1
      BY <2>3, SMT
    <3> QED BY <2>2, <3>1, SMT
  <2>8. i \in A <=> i \notin K
    OBVIOUS
  <2> HIDE DEF A, o
  <2> QED BY <2>3, <2>4, <2>5, <2>6, <2>7, <2>8, SMT
<1>5. TableEntry(o) = WordOf(E)
  <2>1. A \in SUBSET (0 .. 7)
    OBVIOUS
  <2> HIDE DEF A, o
  <2> QED BY <1>3, <1>4, <2>1, EntryOfBits
<1> HIDE DEF E
<1>6. CrcUpdate(s, b) = Xor32(Shr(s, 8), WordOf(E)) /\ CrcUpdate(s, b) \in Word32
  BY <1>2, <1>5, CrcStep
<1>7. /\ Shr(s, 8) \in Word32 /\ WordOf(E) \in Word32
      /\ \A i \in BitNo : Shr(s, 8)[i] = IF i + 8 \in BitNo THEN s[i + 8] ELSE 0
      /\ \A i \in BitNo : WordOf(E)[i] = IF i \in E THEN 1 ELSE 0
  <2>1. /\ Shr(s, 8) \in Word32
        /\ \A i \in BitNo : Shr(s, 8)[i] = IF i + 8 \in BitNo THEN s[i + 8] ELSE 0
    BY <1>2, 8 \in Nat, ShrBits, Zenon
  <2>2. WordOf(E) \in Word32 /\ \A i \in BitNo : WordOf(E)[i] = IF i \in E THEN 1 ELSE 0
    BY WordOfBits, Zenon
  <2> QED BY <2>1, <2>2, Zenon
<1>8. /\ Shr(c, n + 8) \in Word32 /\ WordOf(F) \in Word32
      /\ \A i \in BitNo : Shr(c, n + 8)[i] = IF i + (n + 8) \in BitNo THEN c[i + (n + 8)] ELSE 0
      /\ \A i \in BitNo : WordOf(F)[i] = IF i \in F THEN 1 ELSE 0
  <2>1. n + 8 \in Nat
    BY SMT
  <2>2. /\ Shr(c, n + 8) \in Word32
        /\ \A i \in BitNo : Shr(c, n + 8)[i] = IF i + (n + 8) \in BitNo THEN c[i + (n + 8)] ELSE 0
    BY <2>1, ShrBits, Zenon
  <2>3. WordOf(F) \in Word32 /\ \A i \in BitNo : WordOf(F)[i] = IF i \in F THEN 1 ELSE 0
    BY WordOfBits, Zenon
  <2> QED BY <2>2, <2>3, Zenon
<1>9. \A i \in BitNo : i \in F <=> ~(i + 8 \in K <=> i \in E)
  BY DEF F, FedBits, E
<1> HIDE DEF F
<1> DEFINE r == Xor32(Shr(c, n + 8), WordOf(F))
<1>10. r \in Word32 /\ \A i \in BitNo : r[i] = (Shr(c, n + 8)[i] + WordOf(F)[i]) % 2
  BY <1>8, XorBits
<1>11. \A i \in BitNo : CrcUpdate(s, b)[i] = (Shr(s, 8)[i] + WordOf(E)[i]) % 2
  BY <1>6, <1>7, XorBits
<1> HIDE DEF r
<1>12. ASSUME NEW i \in BitNo PROVE CrcUpdate(s, b)[i] = r[i]
  <2>1. PICK m \in Nat : /\ m <= 1 /\ m = Shr(c, n + 8)[i]
                         /\ Shr(s, 8)[i] = (m + (IF i + 8 \in K THEN 1 ELSE 0)) % 2
    <3>1. PICK m \in Nat : m = Shr(c, n + 8)[i] /\ m <= 1
      BY <1>8, BitOf
    <3>2. CASE i + 8 \in BitNo
      <4>1. i + (n + 8) = (i + 8) + n
        BY SMT DEF BitNo
      <4>2. m = Shr(c, n)[i + 8]
        BY <1>1, <1>8, <3>1, <3>2, <4>1, Zenon
      <4>3. WordOf(K)[i + 8] = IF i + 8 \in K THEN 1 ELSE 0
        BY <1>1, <3>2
      <4>4. Shr(s, 8)[i] = s[i + 8]
        BY <1>7, <3>2
      <4>5. s[i + 8] = (Shr(c, n)[i + 8] + WordOf(K)[i + 8]) % 2
        BY <1>2, <3>2
      <4> QED BY <3>1, <4>2, <4>3, <4>4, <4>5, Zenon
    <3>3. CASE i + 8 \notin BitNo
      <4>1. i + (n + 8) \notin BitNo
        BY <3>3, SMT DEF BitNo
      <4>2. m = 0
        BY <1>8, <3>1, <4>1, Zenon
      <4>3. Shr(s, 8)[i] = 0 /\ i + 8 \notin K
        BY <1>7, <3>3, Zenon
      <4>4. (0 + 0) % 2 = 0
        BY SMT
      <4> QED BY <3>1, <4>2, <4>3, <4>4, Zenon
    <3> QED BY <3>2, <3>3
  <2>2. CrcUpdate(s, b)[i] = (((m + (IF i + 8 \in K THEN 1 ELSE 0)) % 2)
                               + (IF i \in E THEN 1 ELSE 0)) % 2
    BY <1>7, <1>11, <2>1, Zenon
  <2>3. r[i] = (m + (IF i \in F THEN 1 ELSE 0)) % 2
    BY <1>8, <1>10, <2>1, Zenon
  <2>4. i \in F <=> ~(i + 8 \in K <=> i \in E)
    BY <1>9
  <2>5. (((m + 1) % 2) + 1) % 2 = m % 2 /\ (((m + 1) % 2) + 0) % 2 = (m + 1) % 2
        /\ (((m + 0) % 2) + 1) % 2 = (m + 1) % 2 /\ (((m + 0) % 2) + 0) % 2 = m % 2
        /\ (m + 0) % 2 = m % 2
    BY <2>1, SMT
  <2> QED BY <2>2, <2>3, <2>4, <2>5, SMT
<1>13. CrcUpdate(s, b) = r
  BY <1>6, <1>10, <1>12, SameBits
<1> QED BY <1>13, Zenon DEF s, r, F

\* The entry of build_crc32_table for the index with all bits set.
LEMMA Entry1 ==
    EntryBits({0, 1, 2, 3, 4, 5, 6, 7}) =
        {0, 2, 3, 7, 8, 9, 10, 11, 13, 14, 15, 17, 24, 26, 27, 29}
<1> DEFINE A0 == {0, 1, 2, 3, 4, 5, 6, 7}
           A1 == {0, 1, 2, 3, 4, 6, 8, 9, 15, 19, 20, 21, 23, 24, 26, 27, 29, 30, 31}
           A2 == {0, 1, 2, 3, 7, 9, 14, 15, 18, 21, 22, 24, 25, 27, 28, 31}
           A3 == {0, 1, 2, 5, 6, 9, 13, 14, 15, 17, 19, 29, 31}
           A4 == {0, 1, 4, 9, 12, 13, 14, 15, 16, 18, 19, 20, 21, 23, 24, 26, 27, 28, 29, 31}
           A5 == {0, 3, 5, 9, 11, 12, 13, 14, 17, 18, 21, 22, 24, 25, 28, 29, 31}
           A6 == {2, 4, 5, 9, 10, 11, 12, 13, 15, 16, 17, 19, 26, 28, 29, 31}
           A7 == {1, 3, 4, 8, 9, 10, 11, 12, 14, 15, 16, 18, 25, 27, 28, 30}
           A8 == {0, 2, 3, 7, 8, 9, 10, 11, 13, 14, 15, 17, 24, 26, 27, 29}
<1>1. Stepped(A0) = A1
  BY SMT DEF Stepped, PolyBits, BitNo
<1>2. Stepped(A1) = A2
  BY SMT DEF Stepped, PolyBits, BitNo
<1>3. Stepped(A2) = A3
  BY SMT DEF Stepped, PolyBits, BitNo
<1>4. Stepped(A3) = A4
  BY SMT DEF Stepped, PolyBits, BitNo
<1>5. Stepped(A4) = A5
  BY SMT DEF Stepped, PolyBits, BitNo
<1>6. Stepped(A5) = A6
  BY SMT DEF Stepped, PolyBits, BitNo
<1>7. Stepped(A6) = A7
  BY SMT DEF Stepped, PolyBits, BitNo
<1>8. Stepped(A7) = A8
  BY SMT DEF Stepped, PolyBits, BitNo
<1> HIDE DEF A0, A1, A2, A3, A4, A5, A6, A7, A8
<1>9. EntryBits(A0) = A8
  BY <1>1, <1>2, <1>3, <1>4, <1>5, <1>6, <1>7, <1>8, Zenon DEF EntryBits
<1> QED BY <1>9, Zenon DEF A0, A8

\* The entry for the index of the second byte.
LEMMA Entry2 ==
    EntryBits({1, 4, 5, 6}) =
        {4, 12, 16, 17, 19, 25, 26, 27, 28, 29, 31}
<1> DEFINE A0 == {1, 4, 5, 6}
           A1 == {0, 3, 4, 5}
           A2 == {2, 3, 4, 5, 8, 9, 15, 19, 20, 21, 23, 24, 26, 27, 29, 30, 31}
           A3 == {1, 2, 3, 4, 7, 8, 14, 18, 19, 20, 22, 23, 25, 26, 28, 29, 30}
           A4 == {0, 1, 2, 3, 6, 7, 13, 17, 18, 19, 21, 22, 24, 25, 27, 28, 29}
           A5 == {0, 1, 2, 6, 8, 9, 12, 15, 16, 17, 18, 19, 28, 29, 30, 31}
           A6 == {0, 1, 7, 9, 11, 14, 16, 17, 18, 19, 20, 21, 23, 24, 26, 28, 31}
           A7 == {0, 5, 6, 9, 10, 13, 16, 17, 18, 21, 22, 24, 25, 26, 29, 31}
           A8 == {4, 12, 16, 17, 19, 25, 26, 27, 28, 29, 31}
<1>1. Stepped(A0) = A1
  BY SMT DEF Stepped, PolyBits, BitNo
<1>2. Stepped(A1) = A2
  BY SMT DEF Stepped, PolyBits, BitNo
<1>3. Stepped(A2) = A3
  BY SMT DEF Stepped, PolyBits, BitNo
<1>4. Stepped(A3) = A4
  BY SMT DEF Stepped, PolyBits, BitNo
<1>5. Stepped(A4) = A5
  BY SMT DEF Stepped, PolyBits, BitNo
<1>6. Stepped(A5) = A6
  BY SMT DEF Stepped, PolyBits, BitNo
<1>7. Stepped(A6) = A7
  BY SMT DEF Stepped, PolyBits, BitNo
<1>8. Stepped(A7) = A8
  BY SMT DEF Stepped, PolyBits, BitNo
<1> HIDE DEF A0, A1, A2, A3, A4, A5, A6, A7, A8
<1>9. EntryBits(A0) = A8
  BY <1>1, <1>2, <1>3, <1>4, <1>5, <1>6, <1>7, <1>8, Zenon DEF EntryBits
<1> QED BY <1>9, Zenon DEF A0, A8

\* The entry for the index of the third byte: all zeros.
LEMMA Entry3 ==
    EntryBits({}) =
        {}
<1>1. Stepped({}) = {}
  BY SMT DEF Stepped, BitNo
<1> QED BY <1>1, Zenon DEF EntryBits

\* The entry for the index of the fourth byte.
LEMMA Entry4 ==
    EntryBits({0, 2, 3, 5, 6, 7}) =
        {0, 2, 6, 7, 9, 10, 11, 12, 15, 16, 17, 19, 20, 21, 23, 25, 26, 27, 28, 30, 31}
<1> DEFINE A0 == {0, 2, 3, 5, 6, 7}
           A1 == {1, 2, 4, 6, 8, 9, 15, 19, 20, 21, 23, 24, 26, 27, 29, 30, 31}
           A2 == {0, 1, 3, 5, 7, 8, 14, 18, 19, 20, 22, 23, 25, 26, 28, 29, 30}
           A3 == {0, 2, 4, 5, 6, 7, 8, 9, 13, 15, 17, 18, 20, 22, 23, 25, 26, 28, 30, 31}
           A4 == {1, 3, 4, 6, 7, 9, 12, 14, 15, 16, 17, 20, 22, 23, 25, 26, 31}
           A5 == {0, 2, 3, 5, 6, 8, 11, 13, 14, 15, 16, 19, 21, 22, 24, 25, 30}
           A6 == {1, 2, 4, 7, 8, 9, 10, 12, 13, 14, 18, 19, 26, 27, 30, 31}
           A7 == {0, 1, 3, 6, 7, 8, 9, 11, 12, 13, 17, 18, 25, 26, 29, 30}
           A8 == {0, 2, 6, 7, 9, 10, 11, 12, 15, 16, 17, 19, 20, 21, 23, 25, 26, 27, 28, 30, 31}
<1>1. Stepped(A0) = A1
  BY SMT DEF Stepped, PolyBits, BitNo
<1>2. Stepped(A1) = A2
  BY SMT DEF Stepped, PolyBits, BitNo
<1>3. Stepped(A2) = A3
  BY SMT DEF Stepped, PolyBits, BitNo
<1>4. Stepped(A3) = A4
  BY SMT DEF Stepped, PolyBits, BitNo
<1>5. Stepped(A4) = A5
  BY SMT DEF Stepped, PolyBits, BitNo
<1>6. Stepped(A5) = A6
  BY SMT DEF Stepped, PolyBits, BitNo
<1>7. Stepped(A6) = A7
  BY SMT DEF Stepped, PolyBits, BitNo
<1>8. Stepped(A7) = A8
  BY SMT DEF Stepped, PolyBits, BitNo
<1> HIDE DEF A0, A1, A2, A3, A4, A5, A6, A7, A8
<1>9. EntryBits(A0) = A8
  BY <1>1, <1>2, <1>3, <1>4, <1>5, <1>6, <1>7, <1>8, Zenon DEF EntryBits
<1> QED BY <1>9, Zenon DEF A0, A8

\* What the four bytes leave, one after the other.
LEMMA FedFour ==
    /\ FedBits({}) =
         {0, 2, 3, 7, 8, 9, 10, 11, 13, 14, 15, 17, 24, 26, 27, 29}
    /\ FedBits({0, 2, 3, 7, 8, 9, 10, 11, 13, 14, 15, 17, 24, 26, 27, 29}) =
         {0, 1, 2, 3, 4, 5, 6, 7, 9, 12, 17, 18, 21, 25, 26, 27, 28, 29, 31}
    /\ FedBits({0, 1, 2, 3, 4, 5, 6, 7, 9, 12, 17, 18, 21, 25, 26, 27, 28, 29, 31}) =
         {1, 4, 9, 10, 13, 17, 18, 19, 20, 21, 23}
    /\ FedBits({1, 4, 9, 10, 13, 17, 18, 19, 20, 21, 23}) =
         {0, 1, 5, 6, 7, 13, 16, 17, 19, 20, 21, 23, 25, 26, 27, 28, 30, 31}
<1>1. FedBits({}) =
        {0, 2, 3, 7, 8, 9, 10, 11, 13, 14, 15, 17, 24, 26, 27, 29}
  <2>1. {j \in 0 .. 7 : j \notin {}} = {0, 1, 2, 3, 4, 5, 6, 7}
    BY SMT
  <2>2. {i \in BitNo : ~(i + 8 \in {} <=> i \in {0, 2, 3, 7, 8, 9, 10, 11, 13, 14, 15, 17, 24, 26, 27, 29})} =
        {0, 2, 3, 7, 8, 9, 10, 11, 13, 14, 15, 17, 24, 26, 27, 29}
    BY SMT DEF BitNo
  <2> QED BY <2>1, <2>2, Entry1, Zenon DEF FedBits
<1>2. FedBits({0, 2, 3, 7, 8, 9, 10, 11, 13, 14, 15, 17, 24, 26, 27, 29}) =
        {0, 1, 2, 3, 4, 5, 6, 7, 9, 12, 17, 18, 21, 25, 26, 27, 28, 29, 31}
  <2>1. {j \in 0 .. 7 : j \notin {0, 2, 3, 7, 8, 9, 10, 11, 13, 14, 15, 17, 24, 26, 27, 29}} = {1, 4, 5, 6}
    BY SMT
  <2>2. {i \in BitNo : ~(i + 8 \in {0, 2, 3, 7, 8, 9, 10, 11, 13, 14, 15, 17, 24, 26, 27, 29} <=> i \in {4, 12, 16, 17, 19, 25, 26, 27, 28, 29, 31})} =
        {0, 1, 2, 3, 4, 5, 6, 7, 9, 12, 17, 18, 21, 25, 26, 27, 28, 29, 31}
    BY SMT DEF BitNo
  <2> QED BY <2>1, <2>2, Entry2, Zenon DEF FedBits
<1>3. FedBits({0, 1, 2, 3, 4, 5, 6, 7, 9, 12, 17, 18, 21, 25, 26, 27, 28, 29, 31}) =
        {1, 4, 9, 10, 13, 17, 18, 19, 20, 21, 23}
  <2>1. {j \in 0 .. 7 : j \notin {0, 1, 2, 3, 4, 5, 6, 7, 9, 12, 17, 18, 21, 25, 26, 27, 28, 29, 31}} = {}
    BY SMT
  <2>2. {i \in BitNo : ~(i + 8 \in {0, 1, 2, 3, 4, 5, 6, 7, 9, 12, 17, 18, 21, 25, 26, 27, 28, 29, 31} <=> i \in {})} =
        {1, 4, 9, 10, 13, 17, 18, 19, 20, 21, 23}
    BY SMT DEF BitNo
  <2> QED BY <2>1, <2>2, Entry3, Zenon DEF FedBits
<1>4. FedBits({1, 4, 9, 10, 13, 17, 18, 19, 20, 21, 23}) =
        {0, 1, 5, 6, 7, 13, 16, 17, 19, 20, 21, 23, 25, 26, 27, 28, 30, 31}
  <2>1. {j \in 0 .. 7 : j \notin {1, 4, 9, 10, 13, 17, 18, 19, 20, 21, 23}} = {0, 2, 3, 5, 6, 7}
    BY SMT
  <2>2. {i \in BitNo : ~(i + 8 \in {1, 4, 9, 10, 13, 17, 18, 19, 20, 21, 23} <=> i \in {0, 2, 6, 7, 9, 10, 11, 12, 15, 16, 17, 19, 20, 21, 23, 25, 26, 27, 28, 30, 31})} =
        {0, 1, 5, 6, 7, 13, 16, 17, 19, 20, 21, 23, 25, 26, 27, 28, 30, 31}
    BY SMT DEF BitNo
  <2> QED BY <2>1, <2>2, Entry4, Zenon DEF FedBits
<1> QED BY <1>1, <1>2, <1>3, <1>4

\* Feeding the CRC its own four bytes leaves the residue.
LEMMA OwnBytes ==
    ASSUME NEW c \in Word32, NEW x, x = Xor32(c, Ones32)
    PROVE  CrcUpdate(CrcUpdate(CrcUpdate(CrcUpdate(c, OwnByte(x, 0)), OwnByte(x, 8)),
             OwnByte(x, 16)), OwnByte(x, 24)) =
             WordOf({0, 1, 5, 6, 7, 13, 16, 17, 19, 20, 21, 23, 25, 26, 27, 28, 30, 31})
<1> DEFINE K0 == {}
           K1 == {0, 2, 3, 7, 8, 9, 10, 11, 13, 14, 15, 17, 24, 26, 27, 29}
           K2 == {0, 1, 2, 3, 4, 5, 6, 7, 9, 12, 17, 18, 21, 25, 26, 27, 28, 29, 31}
           K3 == {1, 4, 9, 10, 13, 17, 18, 19, 20, 21, 23}
           K4 == {0, 1, 5, 6, 7, 13, 16, 17, 19, 20, 21, 23, 25, 26, 27, 28, 30, 31}
<1>1. FedBits(K0) = K1 /\ FedBits(K1) = K2 /\ FedBits(K2) = K3 /\ FedBits(K3) = K4
  BY FedFour, Zenon
<1>2. /\ K0 \in SUBSET BitNo /\ K1 \in SUBSET BitNo /\ K2 \in SUBSET BitNo
      /\ K3 \in SUBSET BitNo /\ K4 \in SUBSET BitNo
  BY SMT DEF BitNo
<1>3. 0 \in Nat /\ 8 \in Nat /\ 16 \in Nat /\ 24 \in Nat /\ 32 \in Nat
      /\ 0 <= 24 /\ 8 <= 24 /\ 16 <= 24 /\ 24 <= 24
      /\ 0 + 8 = 8 /\ 8 + 8 = 16 /\ 16 + 8 = 24 /\ 24 + 8 = 32
  BY SMT
<1> HIDE DEF K0, K1, K2, K3
<1>4. x \in Word32 /\ \A i \in BitNo : x[i] = (c[i] + Ones32[i]) % 2
  BY GivenWords, XorBits
<1>5. ASSUME NEW i \in BitNo PROVE x[i] = 1 - c[i]
  <2>1. PICK m \in Nat : m = c[i] /\ m <= 1
    BY BitOf
  <2>2. Ones32[i] = 1
    BY GivenWords
  <2>3. (m + 1) % 2 = 1 - m
    BY <2>1, SMT
  <2> QED BY <1>4, <2>1, <2>2, <2>3, Zenon
<1>6. ASSUME NEW n \in Nat, n <= 24
      PROVE  /\ OwnByte(x, n) \in Nat
             /\ \A i \in 0 .. 7 : Bit(OwnByte(x, n), i) = 1 - c[n + i]
  <2>1. OwnByte(x, n) \in Nat /\ \A i \in 0 .. 7 : Bit(OwnByte(x, n), i) = x[n + i]
    BY <1>4, <1>6, OwnBits
  <2>2. \A i \in 0 .. 7 : n + i \in BitNo
    BY <1>6, SMT DEF BitNo
  <2> QED BY <1>5, <2>1, <2>2, Zenon
<1>7. ASSUME NEW n \in Nat, n <= 24, NEW K \in SUBSET BitNo
      PROVE  CrcUpdate(Xor32(Shr(c, n), WordOf(K)), OwnByte(x, n)) =
               Xor32(Shr(c, n + 8), WordOf(FedBits(K)))
  BY <1>6, <1>7, OwnByteStep
<1>8. c = Xor32(Shr(c, 0), WordOf(K0))
  <2>1. Shr(c, 0) \in Word32 /\ WordOf(K0) \in Word32
    BY <1>3, ShrBits, WordOfBits
  <2>2. Xor32(Shr(c, 0), WordOf(K0)) \in Word32
        /\ \A i \in BitNo : Xor32(Shr(c, 0), WordOf(K0))[i] = (Shr(c, 0)[i] + WordOf(K0)[i]) % 2
    BY <2>1, XorBits
  <2>3. ASSUME NEW i \in BitNo PROVE Xor32(Shr(c, 0), WordOf(K0))[i] = c[i]
    <3>1. i + 0 = i
      BY SMT DEF BitNo
    <3>2. Shr(c, 0)[i] = c[i]
      <4>1. \A j \in BitNo : Shr(c, 0)[j] = IF j + 0 \in BitNo THEN c[j + 0] ELSE 0
        BY <1>3, ShrBits, Zenon
      <4>2. Shr(c, 0)[i] = IF i + 0 \in BitNo THEN c[i + 0] ELSE 0
        BY <4>1, Zenon
      <4> QED BY <3>1, <4>2, Zenon
    <3>3. WordOf(K0)[i] = 0
      BY WordOfBits DEF K0
    <3>4. PICK m \in Nat : m = c[i] /\ m <= 1
      BY BitOf
    <3>5. (m + 0) % 2 = m
      BY <3>4, SMT
    <3> QED BY <2>2, <3>2, <3>3, <3>4, <3>5, Zenon
  <2> QED BY <2>2, <2>3, SameBits
<1> HIDE DEF K4
<1>9. CrcUpdate(Xor32(Shr(c, 0), WordOf(K0)), OwnByte(x, 0)) = Xor32(Shr(c, 8), WordOf(K1))
  <2>1. CrcUpdate(Xor32(Shr(c, 0), WordOf(K0)), OwnByte(x, 0)) = Xor32(Shr(c, 0 + 8), WordOf(FedBits(K0)))
    BY <1>2, <1>3, <1>7, Zenon
  <2> QED BY <1>1, <1>3, <2>1, Zenon
<1>10. CrcUpdate(Xor32(Shr(c, 8), WordOf(K1)), OwnByte(x, 8)) = Xor32(Shr(c, 16), WordOf(K2))
  <2>1. CrcUpdate(Xor32(Shr(c, 8), WordOf(K1)), OwnByte(x, 8)) = Xor32(Shr(c, 8 + 8), WordOf(FedBits(K1)))
    BY <1>2, <1>3, <1>7, Zenon
  <2> QED BY <1>1, <1>3, <2>1, Zenon
<1>11. CrcUpdate(Xor32(Shr(c, 16), WordOf(K2)), OwnByte(x, 16)) = Xor32(Shr(c, 24), WordOf(K3))
  <2>1. CrcUpdate(Xor32(Shr(c, 16), WordOf(K2)), OwnByte(x, 16)) = Xor32(Shr(c, 16 + 8), WordOf(FedBits(K2)))
    BY <1>2, <1>3, <1>7, Zenon
  <2> QED BY <1>1, <1>3, <2>1, Zenon
<1>12. CrcUpdate(Xor32(Shr(c, 24), WordOf(K3)), OwnByte(x, 24)) = Xor32(Shr(c, 32), WordOf(K4))
  <2>1. CrcUpdate(Xor32(Shr(c, 24), WordOf(K3)), OwnByte(x, 24)) = Xor32(Shr(c, 24 + 8), WordOf(FedBits(K3)))
    BY <1>2, <1>3, <1>7, Zenon
  <2> QED BY <1>1, <1>3, <2>1, Zenon
<1>13. Xor32(Shr(c, 32), WordOf(K4)) = WordOf(K4)
  <2>1. Shr(c, 32) \in Word32 /\ WordOf(K4) \in Word32
    BY <1>3, ShrBits, WordOfBits
  <2>2. Xor32(Shr(c, 32), WordOf(K4)) \in Word32
        /\ \A i \in BitNo : Xor32(Shr(c, 32), WordOf(K4))[i] = (Shr(c, 32)[i] + WordOf(K4)[i]) % 2
    BY <2>1, XorBits
  <2>3. ASSUME NEW i \in BitNo PROVE Xor32(Shr(c, 32), WordOf(K4))[i] = WordOf(K4)[i]
    <3>1. i + 32 \notin BitNo
      BY SMT DEF BitNo
    <3>2. Shr(c, 32)[i] = 0
      BY <1>3, <3>1, ShrBits
    <3>3. PICK m \in Nat : m = WordOf(K4)[i] /\ m <= 1
      BY <2>1, BitOf
    <3>4. (0 + m) % 2 = m
      BY <3>3, SMT
    <3> QED BY <2>2, <3>2, <3>3, <3>4, Zenon
  <2> QED BY <2>1, <2>2, <2>3, SameBits
<1> QED BY <1>8, <1>9, <1>10, <1>11, <1>12, <1>13, Zenon DEF K4

\* The residue is CRC-32's, whatever was fed.
THEOREM CrcLeavesResidue == ChecksumSpec => []CrcResidue
<1>1. crc \in Word32 => CrcResidue
  <2> SUFFICES ASSUME crc \in Word32 PROVE CrcResidue
    OBVIOUS
  <2> DEFINE final == Xor32(crc, Ones32)
             Own(k) == Digit128(final, 8 * k) + 128 * final[8 * k + 7]
             rest == FoldLeft(CrcUpdate, crc, <<Own(0), Own(1), Own(2), Own(3)>>)
             R == {0, 1, 5, 6, 7, 13, 16, 17, 19, 20, 21, 23, 25, 26, 27, 28, 30, 31}
  <2>1. rest = CrcUpdate(CrcUpdate(CrcUpdate(CrcUpdate(crc, Own(0)), Own(1)), Own(2)), Own(3))
    <3>1. Feed!Fold(<<Own(0), Own(1), Own(2), Own(3)>>) =
            CrcUpdate(CrcUpdate(CrcUpdate(CrcUpdate(crc, Own(0)), Own(1)), Own(2)), Own(3))
      BY Feed!FoldFour
    <3> HIDE DEF Own
    <3> QED BY <3>1, Zenon
            DEF Feed!Fold, Feed!FoldLeft, Feed!MapThenFoldSet, Feed!Max, FoldLeft,
                MapThenFoldSet, Max
  <2>2. rest = WordOf(R)
    <3>1. 8 * 0 = 0 /\ 8 * 1 = 8 /\ 8 * 2 = 16 /\ 8 * 3 = 24
      BY SMT
    <3>2. /\ Own(0) = OwnByte(final, 0) /\ Own(1) = OwnByte(final, 8)
          /\ Own(2) = OwnByte(final, 16) /\ Own(3) = OwnByte(final, 24)
      BY <3>1, Zenon DEF OwnByte
    <3> HIDE DEF Own, rest
    <3>3. CrcUpdate(CrcUpdate(CrcUpdate(CrcUpdate(crc, OwnByte(final, 0)), OwnByte(final, 8)),
            OwnByte(final, 16)), OwnByte(final, 24)) = WordOf(R)
      BY OwnBytes, Zenon
    <3> QED BY <2>1, <3>2, <3>3, Zenon
  <2> HIDE DEF rest
  <2>3. \A i \in BitNo : rest[i] = 1 <=> i \in R
    BY <2>2, WordOfBits
  <2>4. R \subseteq BitNo
    BY SMT DEF BitNo
  <2>5. {i \in BitNo : rest[i] = 1} = R
    <3> HIDE DEF R
    <3> QED BY <2>3, <2>4, Zenon
  <2>6. R = {31, 30, 28, 27, 26, 25, 23, 21, 20, 19, 17, 16, 13, 7, 6, 5, 1, 0}
    BY SMT
  <2> HIDE DEF R
  <2> QED BY <2>5, <2>6, Zenon DEF CrcResidue, rest
<1> QED BY <1>1, CrcInvariant, PTL
=============================================================================
