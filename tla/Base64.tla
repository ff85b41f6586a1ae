------------------------------- MODULE Base64 -------------------------------
(***************************************************************************)
(* base64_encode and base64_decode of yang/src/codec.rs.  A character of   *)
(* B64_ALPHABET is its index there; PAD is "=", SPACE any white space, and *)
(* every other number a character outside the alphabet.                    *)
(***************************************************************************)
EXTENDS Integers, Sequences, SequencesExt

PAD == 64
SPACE == 65
NotBase64 == <<-1>> \* holds what is no byte

Chunks(s, n) ==
    [i \in 1 .. (Len(s) + n - 1) \div n |->
        SubSeq(s, n * (i - 1) + 1, IF n * i < Len(s) THEN n * i ELSE Len(s))]

\* The characters of a chunk of one to three bytes.
EncodeChunk(chunk) ==
    LET Byte(i) == IF i <= Len(chunk) THEN chunk[i] ELSE 0
        n == 65536 * Byte(1) + 256 * Byte(2) + Byte(3)
    IN  [i \in 1 .. 4 |-> IF i > Len(chunk) + 1 THEN PAD
                          ELSE (n \div 64 ^ (4 - i)) % 64]

base64_encode(data) ==
    LET chunks == Chunks(data, 3)
    IN  FlattenSeq([i \in DOMAIN chunks |-> EncodeChunk(chunks[i])])

\* The bytes of a chunk of one to four characters.  Mutant: a chunk of two
\* gives two.
DecodeChunk_Long(chunk) ==
    LET n == FoldLeft(LAMBDA acc, i : acc + chunk[i] * 64 ^ (4 - i), 0,
                      [i \in DOMAIN chunk |-> i])
        bytes == <<n \div 65536, (n \div 256) % 256, n % 256>>
    IN  SubSeq(bytes, 1, IF Len(chunk) > 3 THEN 3 ELSE 2)

DecodeChunk(chunk) ==
    LET n == FoldLeft(LAMBDA acc, i : acc + chunk[i] * 64 ^ (4 - i), 0,
                      [i \in DOMAIN chunk |-> i])
        bytes == <<n \div 65536, (n \div 256) % 256, n % 256>>
    IN  SubSeq(bytes, 1, IF Len(chunk) > 3 THEN 3 ELSE IF Len(chunk) > 2 THEN 2 ELSE 1)

base64_decode(s) ==
    LET clean == SelectSeq(s, LAMBDA c : c \notin {PAD, SPACE})
        chunks == Chunks(clean, 4)
    IN  IF \E i \in DOMAIN clean : clean[i] > 63 THEN NotBase64
        ELSE FlattenSeq([i \in DOMAIN chunks |-> DecodeChunk(chunks[i])])
=============================================================================
