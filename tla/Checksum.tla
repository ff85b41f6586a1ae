------------------------------ MODULE Checksum ------------------------------
(***************************************************************************)
(* MUP1 checksums (mup1/src/checksum.rs): the two running checksums, fed   *)
(* the same bytes, and what they look like on the wire.                    *)
(*                                                                         *)
(* The CRC is the function from its bit numbers to its bits, so that its   *)
(* shifts and exclusive ors are what they are on bits.                     *)
(***************************************************************************)
EXTENDS Integers, Sequences, SequencesExt

CONSTANTS
    SumByte,    \* the bytes fed
    MaxFed      \* bound: their number

ASSUME SumByteAssumption == SumByte \subseteq 0 .. 255

\* The Internet accumulator is a u32, which no frame comes near: up to here it
\* does not overflow.
ASSUME MaxFedAssumption == MaxFed \in Nat /\ MaxFed <= 131072

-----------------------------------------------------------------------------
(* CRC-32, reflected.                                                      *)

BitNo == 0 .. 31
Word32 == [BitNo -> {0, 1}]

Zero32 == [i \in BitNo |-> 0]
Ones32 == [i \in BitNo |-> 1]
Poly == [i \in BitNo |-> IF i \in {31, 30, 29, 27, 26, 24, 23, 21, 20, 19, 15, 9, 8, 5}
                         THEN 1 ELSE 0] \* 0xEDB8_8320

\* Bit i of a byte.
Bit(byte, i) == (byte \div <<1, 2, 4, 8, 16, 32, 64, 128>>[i + 1]) % 2

Xor32(x, y) == [i \in BitNo |-> (x[i] + y[i]) % 2]

Shr(x, n) == [i \in BitNo |-> IF i + n \in BitNo THEN x[i + n] ELSE 0]

TableStep(c) == IF c[0] = 1 THEN Xor32(Poly, Shr(c, 1)) ELSE Shr(c, 1)

TableEntry(low) ==
    TableStep(TableStep(TableStep(TableStep(TableStep(TableStep(TableStep(TableStep(
        [i \in BitNo |-> IF i < 8 THEN low[i] ELSE 0]))))))))

\* By the bits of the index.
CRC32_TABLE == [low \in [0 .. 7 -> {0, 1}] |-> TableEntry(low)]

\* Mutant: the table is indexed with the byte alone.
CrcUpdate_NoFeedback(crc, byte) ==
    Xor32(Shr(crc, 8), CRC32_TABLE[[i \in 0 .. 7 |-> Bit(byte, i)]])

CrcUpdate(crc, byte) ==
    Xor32(Shr(crc, 8), CRC32_TABLE[[i \in 0 .. 7 |-> (crc[i] + Bit(byte, i)) % 2]])

-----------------------------------------------------------------------------
(* Base-128 digits.                                                        *)

BASE128_ENCODE ==
    [d \in 1 .. 128 |->
        CASE d \in 1 .. 11 -> 47 - 1 + d       \* 0x2F ..
          [] d \in 12 .. 39 -> 63 - 12 + d     \* 0x3F ..
          [] d \in 40 .. 65 -> 97 - 40 + d     \* 0x61 ..
          [] d \in 66 .. 128 -> 191 - 66 + d]  \* 0xBF ..

\* The seven bits from bit number n on, as a number.
Digit128(x, n) ==
    LET B(i) == IF n + i \in BitNo THEN x[n + i] ELSE 0
    IN  B(0) + 2 * B(1) + 4 * B(2) + 8 * B(3) + 16 * B(4) + 32 * B(5) + 64 * B(6)

base128_encode(x) ==
    <<BASE128_ENCODE[Digit128(x, 28) + 1], BASE128_ENCODE[Digit128(x, 21) + 1],
      BASE128_ENCODE[Digit128(x, 14) + 1], BASE128_ENCODE[Digit128(x, 7) + 1],
      BASE128_ENCODE[Digit128(x, 0) + 1]>>

base128_decode_digit(b) == (CHOOSE d \in 1 .. 128 : BASE128_ENCODE[d] = b) - 1

\* x << 7, and the digit in the place of the zeros.
DecodeStep(x, b) ==
    [i \in BitNo |-> IF i < 7 THEN Bit(base128_decode_digit(b), i) ELSE x[i - 7]]

\* Mutant: the shift comes after the last digit, too.
base128_decode_Shift(encoded) ==
    LET x == FoldLeft(DecodeStep, Zero32, encoded)
    IN  [i \in BitNo |-> IF i < 7 THEN 0 ELSE x[i - 7]]

base128_decode(encoded) == FoldLeft(DecodeStep, Zero32, encoded)

CrcFinalize(crc) == base128_encode(Xor32(crc, Ones32))

-----------------------------------------------------------------------------
(* The Internet checksum.                                                  *)

InetUpdate(inet, byte) ==
    [acc |-> inet.acc + (IF inet.pos % 2 # 0 THEN byte ELSE byte * 256),
     pos |-> (inet.pos + 1) % 65536]

\* Mutant: the carry of the first fold is lost.
inet_fold_Once(acc) ==
    65535 - (((acc \div 65536) + (acc % 65536)) % 65536)

inet_fold(acc) ==
    LET once == (acc \div 65536) + (acc % 65536)
        twice == (once \div 65536) + (once % 65536)
    IN  65535 - (twice % 65536)

HexDigit(n) == IF n < 10 THEN 48 + n ELSE 97 + n - 10

InetFinalize(inet) ==
    LET sum == inet_fold(inet.acc)
    IN  <<HexDigit((sum \div 4096) % 16), HexDigit((sum \div 256) % 16),
          HexDigit((sum \div 16) % 16), HexDigit(sum % 16)>>

is_ignore_sentinel(wire) == \A i \in DOMAIN wire : wire[i] = 48

-----------------------------------------------------------------------------
VARIABLES
    fed,    \* the bytes fed so far
    inet,   \* Running::Internet
    crc     \* Running::Crc32

sumVars == <<fed, inet, crc>>

InetNew == [acc |-> 0, pos |-> 0]
CrcNew == Ones32

ChecksumInit == fed = <<>> /\ inet = InetNew /\ crc = CrcNew

update(byte) ==
    /\ Len(fed) < MaxFed
    /\ fed' = Append(fed, byte)
    /\ inet' = InetUpdate(inet, byte)
    /\ crc' = CrcUpdate(crc, byte)

ChecksumNext == \E byte \in SumByte : update(byte)

ChecksumSpec == ChecksumInit /\ [][ChecksumNext]_sumVars

-----------------------------------------------------------------------------
(* Properties.                                                             *)

\* The bytes that mean something to the framing, and those the digits avoid, too.
Reserved == {0, 60, 62, 92, 255}

\* Bytes as words of 16 bits, the last one filled up, and the sum of RFC 1071:
\* one of residues modulo 2^16 - 1 in which only no bits at all give 0.
Words(bytes) ==
    [i \in 1 .. (Len(bytes) + 1) \div 2 |->
        256 * bytes[2 * i - 1] + (IF 2 * i <= Len(bytes) THEN bytes[2 * i] ELSE 0)]

Plus(m, n) == m + n

Rfc1071Sum(bytes) ==
    LET sum == FoldLeft(Plus, 0, Words(bytes))
    IN  IF sum = 0 THEN 0 ELSE ((sum - 1) % 65535) + 1

\* What hexadecimal digits say.
HexStep(n, c) == 16 * n + (IF c < 58 THEN c - 48 ELSE c - 87)
HexNumber(wire) == FoldLeft(HexStep, 0, wire)

\* The Internet checksum is the one of RFC 1071: folding twice is enough, and
\* "0000", which the decoder takes for "do not check", is sent exactly for a
\* sum of all ones.  None of its digits means anything to the framing.
InetIsRfc1071 ==
    LET wire == InetFinalize(inet)
    IN  /\ HexNumber(wire) = 65535 - Rfc1071Sum(fed)
        /\ is_ignore_sentinel(wire) <=> Rfc1071Sum(fed) = 65535
        /\ \A i \in DOMAIN wire : wire[i] \notin Reserved

\* Whatever was fed, feeding the CRC's own four bytes after it leaves CRC-32's
\* residue, 0xDEBB_20E3, the mark of a right table and right feedback.
CrcResidue ==
    LET final == Xor32(crc, Ones32)
        Own(k) == Digit128(final, 8 * k) + 128 * final[8 * k + 7]
        rest == FoldLeft(CrcUpdate, crc, <<Own(0), Own(1), Own(2), Own(3)>>)
    IN  {i \in BitNo : rest[i] = 1} =
          {31, 30, 28, 27, 26, 25, 23, 21, 20, 19, 17, 16, 13, 7, 6, 5, 1, 0}

\* The base-128 digits of every CRC are five bytes that mean nothing to the
\* framing and from which base128_decode gets the CRC back.
DigitsDecode ==
    LET wire == CrcFinalize(crc)
    IN  /\ base128_decode(wire) = Xor32(crc, Ones32)
        /\ \A i \in 1 .. 5 : wire[i] \notin Reserved
=============================================================================
