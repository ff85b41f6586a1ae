-------------------------------- MODULE Cbor --------------------------------
(***************************************************************************)
(* The CBOR codec (cbor/src): to_vec, from_slice, and the loop over a      *)
(* sequence of items (cbor_seq_from_bytes and normalize_cbor_seq of        *)
(* yang/src/codec.rs).                                                     *)
(*                                                                         *)
(* A Value is a tuple tagged with the name of its variant.  A 64-bit       *)
(* argument is the sequence of its bytes, most significant first and       *)
(* without leading zeros, so the whole range of u64 is represented.        *)
(* Positions count from 0 as in the code: bytes[pos] is bytes[pos + 1].    *)
(***************************************************************************)
EXTENDS Integers, Sequences, SequencesExt

CONSTANTS
    CborInputs  \* [values, bytes]: encoded values and what is read of them,
                \* or no values and arbitrary bytes

INDEFINITE == -1
BREAK == 255

\* Digits of a small number, and back.
RECURSIVE Digits(_)
Digits(n) == IF n = 0 THEN <<>> ELSE Append(Digits(n \div 256), n % 256)

Strip(digits) ==
    LET zeros == {i \in 0 .. Len(digits) : \A j \in 1 .. i : digits[j] = 0}
    IN  SubSeq(digits, (CHOOSE i \in zeros : \A j \in zeros : j <= i) + 1, Len(digits))

Number(digits) == FoldLeft(LAMBDA n, d : 256 * n + d, 0, digits)

Integer(n) == IF n >= 0 THEN <<"Integer", FALSE, Digits(n)>>
                        ELSE <<"Integer", TRUE, Digits(-1 - n)>>

Null == <<"Null">>
Bool(b) == <<"Bool", b>>
Bytes(b) == <<"Bytes", b>>
Text(s) == <<"Text", s>>
Array(items) == <<"Array", items>>
MapV(entries) == <<"Map", entries>>
Tag(t, inner) == <<"Tag", Digits(t), inner>>

-----------------------------------------------------------------------------
(* Encoding.                                                               *)

Pad(digits, n) == [i \in 1 .. n - Len(digits) |-> 0] \o digits

\* Mutant: 24 is written like the numbers below it.
encode_head_Late(major, arg) ==
    LET top == 32 * major
    IN  IF Len(arg) < 2 /\ Number(arg) <= 24 THEN <<top + Number(arg)>>
        ELSE IF Len(arg) <= 1 THEN <<top + 24>> \o Pad(arg, 1)
        ELSE IF Len(arg) <= 2 THEN <<top + 25>> \o Pad(arg, 2)
        ELSE IF Len(arg) <= 4 THEN <<top + 26>> \o Pad(arg, 4)
        ELSE <<top + 27>> \o Pad(arg, 8)

\* The narrowest of the five widths that holds the argument.
encode_head(major, arg) ==
    LET top == 32 * major
    IN  IF arg = <<>> THEN <<top>>
        ELSE IF Len(arg) = 1 /\ arg[1] < 24 THEN <<top + arg[1]>>
        ELSE IF Len(arg) <= 1 THEN <<top + 24>> \o Pad(arg, 1)
        ELSE IF Len(arg) <= 2 THEN <<top + 25>> \o Pad(arg, 2)
        ELSE IF Len(arg) <= 4 THEN <<top + 26>> \o Pad(arg, 4)
        ELSE <<top + 27>> \o Pad(arg, 8)

RECURSIVE to_vec(_)
to_vec(v) ==
    CASE v[1] = "Integer" -> encode_head(IF v[2] THEN 1 ELSE 0, v[3])
      [] v[1] = "Bytes" -> encode_head(2, Digits(Len(v[2]))) \o v[2]
      [] v[1] = "Text" -> encode_head(3, Digits(Len(v[2]))) \o v[2]
      [] v[1] = "Array" ->
           encode_head(4, Digits(Len(v[2])))
             \o FlattenSeq([i \in DOMAIN v[2] |-> to_vec(v[2][i])])
      [] v[1] = "Map" ->
           encode_head(5, Digits(Len(v[2])))
             \o FlattenSeq([i \in DOMAIN v[2] |->
                              to_vec(v[2][i][1]) \o to_vec(v[2][i][2])])
      [] v[1] = "Tag" -> encode_head(6, v[2]) \o to_vec(v[3])
      [] v[1] = "Bool" -> <<IF v[2] THEN 245 ELSE 244>>
      [] v[1] = "Null" -> <<246>>

-----------------------------------------------------------------------------
(* Decoding.  A reader returns what it read and the position after it, or  *)
(* Failed.                                                                 *)

Failed == <<>>

\* The ? operator: go on with what was read and the position after it.
Reading(r, F(_, _)) == IF r = Failed THEN Failed ELSE F(r[1], r[2])

\* String::from_utf8, on inputs in which no byte from 194 on is part of a text:
\* a byte with the top bit is then never part of a valid encoding.
from_utf8(raw) == \A i \in DOMAIN raw : raw[i] < 128

read_raw(b, pos, len) ==
    IF Len(len) > 3 \/ pos + Number(len) > Len(b) THEN Failed
    ELSE <<SubSeq(b, pos + 1, pos + Number(len)), pos + Number(len)>>

read_arg(b, pos, info) ==
    IF info <= 23 THEN <<Strip(<<info>>), pos>>
    ELSE IF info > 27 THEN Failed
    ELSE Reading(read_raw(b, pos, Digits(2 ^ (info - 24))), LAMBDA raw, next : <<Strip(raw), next>>)

read_string(b, pos, info) ==
    Reading(read_arg(b, pos, info), LAMBDA len, next : read_raw(b, next, len))

\* The chunks of an indefinite-length string: definite ones of the same major
\* type, up to the break byte.
RECURSIVE read_chunks(_, _, _)
read_chunks(b, pos, major) ==
    IF pos >= Len(b) THEN Failed
    ELSE IF b[pos + 1] = BREAK THEN <<<<>>, pos + 1>>
    ELSE IF b[pos + 1] \div 32 # major \/ b[pos + 1] % 32 = 31 THEN Failed
    ELSE Reading(read_string(b, pos + 1, b[pos + 1] % 32), LAMBDA chunk, next :
           Reading(read_chunks(b, next, major), LAMBDA rest, end : <<chunk \o rest, end>>))

read_string_bytes(b, pos, info, major) ==
    IF info # 31 THEN read_string(b, pos, info) ELSE read_chunks(b, pos, major)

read_simple(info, pos) ==
    CASE info = 20 -> <<Bool(FALSE), pos>>
      [] info = 21 -> <<Bool(TRUE), pos>>
      [] info \in {22, 23} -> <<Null, pos>>
      [] OTHER -> Failed

RECURSIVE from_slice(_, _), read_entries(_, _, _, _)

\* Mutant: an indefinite-length map may also end between a key and its value.
read_entries_HalfPair(b, pos, n, pairs) ==
    IF n = 0 THEN <<<<>>, pos>>
    ELSE IF n = INDEFINITE /\ pos >= Len(b) THEN Failed
    ELSE IF n = INDEFINITE /\ b[pos + 1] = BREAK THEN <<<<>>, pos + 1>>
    ELSE Reading(from_slice(b, pos), LAMBDA k, p :
           Reading(IF ~pairs THEN <<k, p>>
                   ELSE IF p < Len(b) /\ b[p + 1] = BREAK THEN <<Null, p>> ELSE from_slice(b, p), LAMBDA v, q :
             Reading(read_entries(b, q, IF n > 0 THEN n - 1 ELSE n, pairs), LAMBDA rest, end :
               << <<IF pairs THEN <<k, v>> ELSE v>> \o rest, end >>)))

\* n items, or pairs of items, or INDEFINITE: those up to the break byte, which
\* is looked for only where an entry begins.
read_entries(b, pos, n, pairs) ==
    IF n = 0 THEN <<<<>>, pos>>
    ELSE IF n = INDEFINITE /\ pos >= Len(b) THEN Failed
    ELSE IF n = INDEFINITE /\ b[pos + 1] = BREAK THEN <<<<>>, pos + 1>>
    ELSE Reading(from_slice(b, pos), LAMBDA k, p :
           Reading(IF pairs THEN from_slice(b, p) ELSE <<k, p>>, LAMBDA v, q :
             Reading(read_entries(b, q, IF n > 0 THEN n - 1 ELSE n, pairs), LAMBDA rest, end :
               << <<IF pairs THEN <<k, v>> ELSE v>> \o rest, end >>)))

\* An array or a map; a count beyond the bytes there are runs into their end.
read_items(b, pos, info, pairs) ==
    IF info = 31 THEN read_entries(b, pos, INDEFINITE, pairs)
    ELSE Reading(read_arg(b, pos, info), LAMBDA count, next :
           read_entries(b, next, IF Len(count) > 3 THEN Len(b) + 1 ELSE Number(count), pairs))

from_slice(b, pos) ==
    IF pos >= Len(b) THEN Failed
    ELSE LET major == b[pos + 1] \div 32
             info == b[pos + 1] % 32
         IN  CASE major \in {0, 1} ->
                    Reading(read_arg(b, pos + 1, info), LAMBDA arg, end : <<<<"Integer", major = 1, arg>>, end>>)
               [] major = 2 ->
                    Reading(read_string_bytes(b, pos + 1, info, 2), LAMBDA raw, end : <<Bytes(raw), end>>)
               [] major = 3 ->
                    Reading(read_string_bytes(b, pos + 1, info, 3), LAMBDA raw, end :
                      IF from_utf8(raw) THEN <<Text(raw), end>> ELSE Failed)
               [] major = 4 ->
                    Reading(read_items(b, pos + 1, info, FALSE), LAMBDA list, end : <<Array(list), end>>)
               [] major = 5 ->
                    Reading(read_items(b, pos + 1, info, TRUE), LAMBDA list, end : <<MapV(list), end>>)
               [] major = 6 ->
                    Reading(read_arg(b, pos + 1, info), LAMBDA tag, next :
                      Reading(from_slice(b, next), LAMBDA inner, end : <<<<"Tag", tag, inner>>, end>>))
               [] major = 7 -> read_simple(info, pos + 1)

-----------------------------------------------------------------------------
(* A sequence of items.                                                    *)

VARIABLES
    sent,        \* the values that were encoded, if the bytes come from some
    cborBytes,   \* the bytes to decode
    cborPos,     \* how far they are read
    items,       \* the items so far
    cborResult   \* "reading", "done" or "failed"

cborVars == <<sent, cborBytes, cborPos, items, cborResult>>

CborInit ==
    /\ \E i \in CborInputs : sent = i.values /\ cborBytes = i.bytes
    /\ cborPos = 0
    /\ items = <<>>
    /\ cborResult = "reading"

TakeItem ==
    /\ cborResult = "reading" /\ cborPos < Len(cborBytes)
    /\ LET r == from_slice(cborBytes, cborPos)
       IN  /\ r # Failed
           /\ items' = Append(items, r[1])
           /\ cborPos' = r[2]
    /\ UNCHANGED <<sent, cborBytes, cborResult>>

BadItem ==
    /\ cborResult = "reading" /\ cborPos < Len(cborBytes)
    /\ from_slice(cborBytes, cborPos) = Failed
    /\ cborResult' = "failed"
    /\ UNCHANGED <<sent, cborBytes, cborPos, items>>

SequenceEnds ==
    /\ cborResult = "reading" /\ cborPos = Len(cborBytes)
    /\ cborResult' = "done"
    /\ UNCHANGED <<sent, cborBytes, cborPos, items>>

cbor_seq_from_bytes == TakeItem \/ BadItem \/ SequenceEnds

normalize_cbor_seq(values) == FlattenSeq([i \in DOMAIN values |-> to_vec(values[i])])

-----------------------------------------------------------------------------
(* Properties.                                                             *)

\* from_slice undoes to_vec: whatever values were encoded, a reader that gets
\* all their bytes gets the values back, and one that gets fewer gets the
\* values before the cut and, unless the cut is between two values, an error.
CborRoundTrip ==
    sent # <<>> /\ cborResult # "reading" =>
      /\ IsPrefix(items, sent)
      /\ cborResult = "done" <=> cborBytes = normalize_cbor_seq(items)
      /\ cborBytes = normalize_cbor_seq(sent) => items = sent

\* normalize_cbor_seq of any accepted bytes is never longer than they are, and
\* decodes in one piece to the same items (so normalizing again changes
\* nothing).
NormalForm ==
    cborResult = "done" =>
      LET normal == normalize_cbor_seq(items)
          again == read_entries(normal, 0, Len(items), FALSE)
      IN  Len(normal) <= Len(cborBytes) /\ again = <<items, Len(normal)>>
=============================================================================
