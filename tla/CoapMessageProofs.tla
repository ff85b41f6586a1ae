-------------------------- MODULE CoapMessageProofs --------------------------
(***************************************************************************)
(* Proofs about the CoAP message format: parse stays within its message    *)
(* and accepts only whole ones, whatever bytes it is given, and what       *)
(* encode_request writes, it reads back, for every request.                *)
(*                                                                         *)
(* For the latter, FlattenLayout says where each option lies in the bytes  *)
(* written, and the inductive invariant RoundInv says how far parse has    *)
(* come: the options it is past are the ones it has decoded.               *)
(***************************************************************************)
EXTENDS CoapMessage, SequenceTheorems, TLAPS

U32 == {n \in Nat : n <= 4294967295}

ParsedMessage ==
    [msg_type : {"Con", "Non", "Ack", "Rst"}, code : Byte, msg_id : U16,
     content_format : U16 \cup {None}, block1 : Block \cup {None},
     block2 : Block \cup {None}, payload : Seq(Byte)]

\* The inductive invariant: nothing counts as payload before the marker.
ParseInv ==
    /\ msg \in Seq(Byte)
    /\ pc \in {"header", "options", "ok", "error"}
    /\ pos \in 0 .. Len(msg)
    /\ prev_opt_num \in U16
    /\ parsed \in ParsedMessage
    /\ pc \in {"header", "options"} => parsed.payload = <<>>
    /\ AcceptsWholeMessages

\* Bytes of the message.
LEMMA AtType ==
    ASSUME msg \in Seq(Byte), NEW i \in Nat, i < Len(msg)
    PROVE  At(i) \in Byte
BY DEF At

\* A byte as a number.
LEMMA ByteNat == \A b \in Byte : b \in Nat /\ b <= 255
BY SMT DEF Byte

\* The empty message has the type of a parsed one.
LEMMA EmptyType == Empty \in ParsedMessage
<1>1. 0 \in U16 /\ 0 \in Byte /\ <<>> \in Seq(Byte)
  BY SMT DEF U16, Byte
<1>2. QED
  BY <1>1 DEF Empty, ParsedMessage

\* The type bits stand for one of the four types.
LEMMA FromBitsType == \A b \in Nat : from_bits(b) \in {"Con", "Non", "Ack", "Rst"}
<1>1. \A b \in Nat : (b % 4) + 1 \in {1, 2, 3, 4}
  BY SMT
<1>2. QED
  BY <1>1 DEF from_bits

\* An option's value is a number of at most 32 bits, ...
LEMMA UintType ==
    ASSUME NEW val \in Seq(Byte)
    PROVE  opt_uint_decode(val) \in U32
<1>1. \A i \in 1 .. Len(val) : val[i] \in Nat /\ val[i] <= 255
  BY ByteNat
<1>2. CASE Len(val) = 1
  BY <1>1, <1>2, SMT DEF opt_uint_decode, U32
<1>3. CASE Len(val) = 2
  BY <1>1, <1>3, SMT DEF opt_uint_decode, U32
<1>4. CASE Len(val) = 3
  BY <1>1, <1>4, SMT DEF opt_uint_decode, U32
<1>5. CASE Len(val) = 4
  <2> DEFINE a == val[1]
             b == val[2]
             c == val[3]
             d == val[4]
  <2>1. opt_uint_decode(val) = 16777216 * a + 65536 * b + 256 * c + d
    BY <1>5, SMT DEF opt_uint_decode
  <2>2. /\ a \in Nat /\ b \in Nat /\ c \in Nat /\ d \in Nat
        /\ a <= 255 /\ b <= 255 /\ c <= 255 /\ d <= 255
    BY <1>1, <1>5
  <2> HIDE DEF a, b, c, d
  <2>3. QED
    BY <2>1, <2>2, SMT DEF U32
<1>6. CASE Len(val) \notin {1, 2, 3, 4}
  BY <1>6, SMT DEF opt_uint_decode, U32
<1>7. QED
  BY <1>2, <1>3, <1>4, <1>5, <1>6

\* ... which a block is decoded from.
LEMMA BlockType ==
    ASSUME NEW n \in U32
    PROVE  decode_value(n) \in Block
<1>1. n \div 16 \in BlockNum /\ n % 8 \in 0 .. 7
  BY SMT DEF U32, BlockNum
<1>2. ((n \div 8) % 2 = 1) \in BOOLEAN
  OBVIOUS
<1>3. QED
  BY <1>1, <1>2 DEF decode_value, Block

\* Every option leaves a parsed message, and its payload as it is.
LEMMA WithOptionType ==
    ASSUME parsed \in ParsedMessage, NEW num, NEW val \in Seq(Byte)
    PROVE  WithOption(num, val) \in ParsedMessage
           /\ WithOption(num, val).payload = parsed.payload
<1>1. u16(opt_uint_decode(val)) \in U16
  BY UintType, SMT DEF u16, U16, U32
<1>2. decode_value(opt_uint_decode(val)) \in Block
  BY UintType, BlockType
<1>3. ASSUME NEW f \in U16, NEW b \in Block
      PROVE  /\ [parsed EXCEPT !.content_format = f] \in ParsedMessage
             /\ [parsed EXCEPT !.block1 = b] \in ParsedMessage
             /\ [parsed EXCEPT !.block2 = b] \in ParsedMessage
             /\ [parsed EXCEPT !.content_format = f].payload = parsed.payload
             /\ [parsed EXCEPT !.block1 = b].payload = parsed.payload
             /\ [parsed EXCEPT !.block2 = b].payload = parsed.payload
  BY DEF ParsedMessage
<1>4. QED
  BY <1>1, <1>2, <1>3 DEF WithOption

\* A nibble's value is found inside the message, and what follows it too.
LEMMA ExtendedType ==
    ASSUME msg \in Seq(Byte), NEW n \in 0 .. 15, NEW i \in 0 .. Len(msg),
           Extended(n, i).ok
    PROVE  /\ Extended(n, i).val \in U16
           /\ Extended(n, i).next \in i .. Len(msg)
<1>1. Len(msg) \in Nat
  OBVIOUS
<1>2. CASE n < 13
  <2>1. Extended(n, i) = [ok |-> TRUE, val |-> n, next |-> i]
    BY <1>2 DEF Extended
  <2>2. QED
    BY <1>1, <1>2, <2>1, SMT DEF U16
<1>3. CASE n = 13 /\ i < Len(msg)
  <2>1. Extended(n, i) = [ok |-> TRUE, val |-> At(i) + 13, next |-> i + 1]
    BY <1>3 DEF Extended
  <2>2. At(i) \in Nat /\ At(i) <= 255
    BY <1>3, AtType, ByteNat
  <2>3. QED
    BY <1>1, <1>3, <2>1, <2>2, SMT DEF U16
<1>4. CASE n = 14 /\ i + 1 < Len(msg)
  <2>1. Extended(n, i) = [ok |-> TRUE, val |-> u16(256 * At(i) + At(i + 1) + 269),
                          next |-> i + 2]
    BY <1>4 DEF Extended
  <2>2. At(i) \in Nat /\ At(i + 1) \in Nat
    BY <1>1, <1>4, AtType, ByteNat
  <2>3. u16(256 * At(i) + At(i + 1) + 269) \in U16
    BY <2>2, SMT DEF u16, U16
  <2>4. QED
    BY <1>1, <1>4, <2>1, <2>3
<1>5. CASE ~(n < 13) /\ ~(n = 13 /\ i < Len(msg)) /\ ~(n = 14 /\ i + 1 < Len(msg))
  <2>1. Extended(n, i) = [ok |-> FALSE, val |-> 0, next |-> i]
    BY <1>5 DEF Extended
  <2>2. QED
    BY <2>1
<1>6. QED
  BY <1>2, <1>3, <1>4, <1>5

-----------------------------------------------------------------------------
(* The steps of parse.                                                     *)

\* The message's first bytes are a parsed message without a payload.
LEMMA HeaderStep ==
    ASSUME ParseInv, ParseHeader
    PROVE  ParseInv'
<1>1. CASE ~HeaderOK
  <2>1. pc' = "error" /\ UNCHANGED <<input, pos, prev_opt_num, parsed>>
    BY <1>1 DEF ParseHeader, Fails
  <2>2. QED
    BY <2>1 DEF ParseInv, AcceptsWholeMessages, msg, At
<1>2. CASE HeaderOK
  <2>1. /\ pc' = "options" /\ pos' = 4 + tkl
        /\ parsed' = [Empty EXCEPT !.msg_type = from_bits(At(0) \div 16),
                                   !.code = At(1), !.msg_id = 256 * At(2) + At(3)]
        /\ input' = input /\ prev_opt_num' = prev_opt_num
    BY <1>2 DEF ParseHeader
  <2>2. At(0) \in Byte /\ At(1) \in Byte /\ At(2) \in Byte /\ At(3) \in Byte
    BY <1>2, AtType DEF HeaderOK, ParseInv
  <2>3. /\ At(0) \in Nat /\ At(2) \in Nat /\ At(2) <= 255
        /\ At(3) \in Nat /\ At(3) <= 255
    BY <2>2, ByteNat
  <2>4. At(0) \div 16 \in Nat /\ 256 * At(2) + At(3) \in U16
    BY <2>3, SMT DEF U16
  <2>5. parsed' \in ParsedMessage /\ parsed'.payload = <<>>
    <3> DEFINE t == from_bits(At(0) \div 16)
               m == 256 * At(2) + At(3)
               c == At(1)
    <3>1. t \in {"Con", "Non", "Ack", "Rst"} /\ c \in Byte /\ m \in U16
      BY <2>2, <2>4, FromBitsType
    <3>2. parsed' = [Empty EXCEPT !.msg_type = t, !.code = c, !.msg_id = m]
      BY <2>1, Zenon
    <3> HIDE DEF t, c, m
    <3>3. QED
      BY <3>1, <3>2, EmptyType DEF ParsedMessage, Empty
  <2>6. pos' \in 0 .. Len(msg)
    BY <1>2, <2>1, <2>3 DEF HeaderOK, ParseInv, tkl
  <2>7. QED
    BY <2>1, <2>5, <2>6 DEF ParseInv, AcceptsWholeMessages, msg
<1>3. QED
  BY <1>1, <1>2

\* What follows the marker is the payload, to the last byte.
LEMMA PayloadStep ==
    ASSUME ParseInv, ParsePayload
    PROVE  ParseInv'
<1>1. CASE pos + 1 >= Len(msg)
  <2>1. pc' = "error" /\ UNCHANGED <<input, pos, prev_opt_num, parsed>>
    BY <1>1 DEF ParsePayload, Fails
  <2>2. QED
    BY <2>1 DEF ParseInv, AcceptsWholeMessages, msg, At
<1>2. CASE ~(pos + 1 >= Len(msg))
  <2> DEFINE rest == SubSeq(msg, pos + 2, Len(msg))
  <2>1. /\ pc' = "ok" /\ pos' = pos + 1 /\ input' = input
        /\ parsed' = [parsed EXCEPT !.payload = rest] /\ prev_opt_num' = prev_opt_num
    BY <1>2 DEF ParsePayload
  <2>2. pos \in Nat /\ Len(msg) \in Nat /\ pos + 1 < Len(msg) /\ At(pos) = PAYLOAD_MARKER
    BY <1>2 DEF ParseInv, ParsePayload
  <2>3. rest \in Seq(Byte) /\ Len(rest) = Len(msg) - (pos + 1)
    BY <2>2 DEF ParseInv
  <2> HIDE DEF rest
  <2>4. parsed' \in ParsedMessage /\ parsed'.payload = rest
    BY <2>1, <2>3 DEF ParseInv, ParsedMessage
  <2>5. AcceptsWholeMessages'
    <3>1. msg' = msg /\ rest # <<>> /\ At(pos + 1 - 1) = At(pos)
      BY <2>1, <2>2, <2>3 DEF msg
    <3>2. pos' + Len(rest) = Len(msg) /\ (At(pos - 1))' = At(pos)
      BY <2>1, <2>2, <2>3, <3>1 DEF At
    <3>3. QED
      BY <2>2, <2>4, <3>1, <3>2 DEF AcceptsWholeMessages, PAYLOAD_MARKER
  <2>6. QED
    BY <2>1, <2>2, <2>4, <2>5 DEF ParseInv, msg
<1>3. QED
  BY <1>1, <1>2

\* An option ends inside the message, or there is none.
LEMMA OptionStep ==
    ASSUME ParseInv, ParseOption
    PROVE  ParseInv'
<1> DEFINE delta == Extended(At(pos) \div 16, pos + 1)
           len == Extended(At(pos) % 16, delta.next)
           Fits == delta.ok /\ len.ok /\ len.next + len.val <= Len(msg)
<1>1. CASE ~Fits
  <2>1. pc' = "error" /\ UNCHANGED <<input, pos, prev_opt_num, parsed>>
    BY <1>1 DEF ParseOption, Fails
  <2>2. QED
    BY <2>1 DEF ParseInv, AcceptsWholeMessages, msg, At
<1>2. CASE Fits
  <2> DEFINE num == u16(prev_opt_num + delta.val)
             val == SubSeq(msg, len.next + 1, len.next + len.val)
  <2>1. /\ parsed' = WithOption(num, val) /\ pos' = len.next + len.val
        /\ prev_opt_num' = num /\ input' = input /\ pc' = pc /\ pc = "options"
    BY <1>2 DEF ParseOption, TakeOption
  <2>2. pos \in Nat /\ Len(msg) \in Nat /\ pos < Len(msg) /\ At(pos) \in Byte
    BY AtType DEF ParseInv, ParseOption
  <2>3. At(pos) \div 16 \in 0 .. 15 /\ At(pos) % 16 \in 0 .. 15
    <3>1. At(pos) \in Nat /\ At(pos) <= 255
      BY <2>2, ByteNat
    <3>2. QED
      BY <3>1, SMT
  <2>4. delta.val \in U16 /\ delta.next \in pos + 1 .. Len(msg)
    BY <1>2, <2>2, <2>3, ExtendedType, SMTT(30) DEF ParseInv
  <2>5. len.val \in U16 /\ len.next \in delta.next .. Len(msg)
    <3>1. delta.next \in 0 .. Len(msg)
      BY <2>2, <2>4
    <3> HIDE DEF delta
    <3>2. QED
      BY <1>2, <2>2, <2>3, <3>1, ExtendedType DEF ParseInv
  <2> HIDE DEF delta, len
  <2>6. num \in U16
    BY <2>4, SMT DEF u16, U16, ParseInv
  <2>7. val \in Seq(Byte) /\ pos' \in 0 .. Len(msg)
    BY <1>2, <2>1, <2>2, <2>4, <2>5, SMTT(30) DEF ParseInv, U16
  <2> HIDE DEF num, val
  <2>8. parsed' \in ParsedMessage /\ parsed'.payload = <<>>
    BY <2>1, <2>7, WithOptionType DEF ParseInv
  <2>9. QED
    BY <2>1, <2>6, <2>7, <2>8 DEF ParseInv, AcceptsWholeMessages, msg
<1>3. QED
  BY <1>1, <1>2

\* At the end of the message there is nothing left.
LEMMA EndStep ==
    ASSUME ParseInv, ParseEnd
    PROVE  ParseInv'
<1>1. pc = "options" /\ pc' = "ok" /\ UNCHANGED <<input, pos, prev_opt_num, parsed>>
  BY DEF ParseEnd
<1>2. pos' = Len(msg)'
  BY <1>1 DEF ParseInv, ParseEnd, msg
<1>3. QED
  BY <1>1, <1>2 DEF ParseInv, AcceptsWholeMessages, msg

\* Whatever the message, every state of parse satisfies the invariant.
THEOREM ParseInvariant == Spec => []ParseInv
<1>1. Init => ParseInv
  <2>1. SUFFICES ASSUME Init PROVE ParseInv
    OBVIOUS
  <2>2. msg \in Seq(Byte)
    BY <2>1, MessagesAssumption DEF Init, msg
  <2>3. 0 \in U16 /\ 0 \in 0 .. Len(msg)
    BY <2>2, SMT DEF U16
  <2>4. QED
    BY <2>1, <2>2, <2>3, EmptyType DEF Init, ParseInv, AcceptsWholeMessages, Empty
<1>2. ParseInv /\ [parse]_vars => ParseInv'
  <2>1. SUFFICES ASSUME ParseInv, [parse]_vars PROVE ParseInv'
    OBVIOUS
  <2>2. CASE parse
    BY <2>1, <2>2, HeaderStep, PayloadStep, OptionStep, EndStep DEF parse
  <2>3. CASE UNCHANGED vars
    BY <2>1, <2>3 DEF vars, ParseInv, AcceptsWholeMessages, msg, At
  <2>4. QED
    BY <2>1, <2>2, <2>3
<1>3. QED
  BY <1>1, <1>2, PTL DEF Spec

\* parse decodes into the widths of the fields of ParsedMessage and never stands
\* behind the end of its message, for every string of bytes.
THEOREM ParseTypes == Spec => []TypeOK
<1>1. ParseInv => TypeOK
  BY DEF ParseInv, TypeOK, ParsedMessage, Block, BlockNum
<1>2. QED
  BY <1>1, ParseInvariant, PTL

\* What parse accepts is covered exactly by header, options and payload, for
\* every string of bytes (message.rs: no option cut off, no byte left out).
THEOREM ParseIsSafe == Spec => []AcceptsWholeMessages
<1>1. ParseInv => AcceptsWholeMessages
  BY DEF ParseInv
<1>2. QED
  BY <1>1, ParseInvariant, PTL

-------------------------------------------------------------------------------
(*                              Numbers as bytes                             *)

\* A number of 16 bits is put together from its two bytes.
LEMMA Be16Bytes ==
    ASSUME NEW n \in Nat
    PROVE  /\ be16(n) \in Seq(Byte) /\ Len(be16(n)) = 2
           /\ be16(n)[1] = (n \div 256) % 256 /\ be16(n)[2] = n % 256
<1>1. (n \div 256) % 256 \in 0 .. 255 /\ n % 256 \in 0 .. 255
  BY SMT
<1>2. QED
  BY <1>1 DEF be16, Byte

\* Two bytes are a number of 16 bits.
LEMMA TwoBytes ==
    ASSUME NEW n \in Nat, n <= 65535
    PROVE  256 * ((n \div 256) % 256) + (n % 256) = n
BY SMT

\* The elements of two sequences, one after the other.
LEMMA CatSeqs ==
    ASSUME NEW S, NEW a \in Seq(S), NEW b \in Seq(S)
    PROVE  /\ a \o b \in Seq(S) /\ Len(a \o b) = Len(a) + Len(b)
           /\ \A i \in 1 .. Len(a) : (a \o b)[i] = a[i]
           /\ \A i \in 1 .. Len(b) : (a \o b)[Len(a) + i] = b[i]
OBVIOUS

\* Byte, U16 and U24 are the numbers of so many bits.
LEMMA Widths ==
    ASSUME NEW v \in Nat
    PROVE  /\ v \in Byte <=> v <= 255
           /\ v \in U16 <=> v <= 65535
           /\ v \in U24 <=> v <= 16777215
           /\ v \in U32 <=> v <= 4294967295
<1>1. v \in Byte <=> v <= 255
  BY SMT DEF Byte
<1>2. v \in U16 <=> v <= 65535
  BY SMT DEF U16
<1>3. v \in U24 <=> v <= 16777215
  BY SMT DEF U24
<1>4. v \in U32 <=> v <= 4294967295
  BY SMT DEF U32
<1>5. QED
  BY <1>1, <1>2, <1>3, <1>4, SMT

\* What opt_uint_decode makes of an encoded number of at most 32 bits.
LEMMA UintRoundTrip ==
    ASSUME NEW v \in U32
    PROVE  /\ opt_uint_encode(v) \in Seq(Byte) /\ Len(opt_uint_encode(v)) <= 4
           /\ opt_uint_decode(opt_uint_encode(v)) = v
<1> DEFINE e == opt_uint_encode(v)
<1>0. v \in Nat /\ v <= 4294967295
  BY SMT DEF U32
<1>a. /\ v \in Byte <=> v <= 255
      /\ v \in U16 <=> v <= 65535
      /\ v \in U24 <=> v <= 16777215
  BY <1>0, Widths, SMT
<1>b. (v = 0 => v \in Byte) /\ (v \in Byte => v \in U16) /\ (v \in U16 => v \in U24)
  BY <1>0, <1>a, SMT
<1>1. CASE v = 0
  <2>1. e = <<>>
    BY <1>1, <1>b, Zenon DEF opt_uint_encode
  <2> HIDE DEF e
  <2>2. e \in Seq(Byte) /\ Len(e) = 0
    BY <2>1
  <2>3. opt_uint_decode(e) = 0
    BY <2>2, SMT DEF opt_uint_decode
  <2>4. QED
    BY <1>1, <2>2, <2>3, SMT DEF e
<1>2. CASE v \in Byte \ {0}
  <2>1. e = <<v>>
    BY <1>2, <1>b, Zenon DEF opt_uint_encode
  <2> HIDE DEF e
  <2>2. e \in Seq(Byte) /\ Len(e) = 1 /\ e[1] = v
    BY <1>2, <2>1
  <2>3. opt_uint_decode(e) = e[1]
    BY <2>2, SMT DEF opt_uint_decode
  <2>4. QED
    BY <2>2, <2>3, SMT DEF e
<1>3. CASE v \in U16 \ Byte
  <2>1. e = be16(v)
    <3>1. v # 0
      BY <1>a, <1>3, SMT
    <3>2. QED
      BY <1>3, <3>1, Zenon DEF opt_uint_encode
  <2> HIDE DEF e
  <2>2. /\ e \in Seq(Byte) /\ Len(e) = 2
        /\ e[1] = (v \div 256) % 256 /\ e[2] = v % 256
    BY <1>0, <2>1, Be16Bytes, SMT
  <2>3. opt_uint_decode(e) = 256 * e[1] + e[2]
    BY <2>2, SMT DEF opt_uint_decode
  <2>4. 256 * ((v \div 256) % 256) + (v % 256) = v
    BY <1>0, <1>3, <1>a, TwoBytes, SMT
  <2>5. QED
    BY <2>2, <2>3, <2>4, SMT DEF e
<1>4. CASE v \in U24 \ U16
  <2> DEFINE w == high(v)
  <2>1. e = <<w>> \o be16(v)
    <3>1. v # 0 /\ v \notin Byte
      BY <1>0, <1>a, <1>4, SMT
    <3>2. QED
      BY <1>4, <3>1, Zenon DEF opt_uint_encode
  <2>2. w \in Nat /\ w <= 255 /\ v = 65536 * w + (v % 65536)
    BY <1>0, <1>4, <1>a, SMT DEF high
  <2>3. w \in Byte
    BY <2>2, Widths, SMT
  <2> HIDE DEF e, w
  <2>4. /\ e \in Seq(Byte) /\ Len(e) = 3 /\ e[1] = w
        /\ e[2] = be16(v)[1] /\ e[3] = be16(v)[2]
    <3> DEFINE a == <<w>>
               b == be16(v)
    <3>1. a \in Seq(Byte) /\ Len(a) = 1 /\ a[1] = w
      BY <2>3
    <3>2. b \in Seq(Byte) /\ Len(b) = 2
      BY <1>0, Be16Bytes
    <3>3. e = a \o b
      BY <2>1
    <3> HIDE DEF a, b
    <3>4. e \in Seq(Byte) /\ Len(e) = 3 /\ e[1] = a[1] /\ e[1 + 1] = b[1] /\ e[1 + 2] = b[2]
      BY <3>1, <3>2, <3>3, CatSeqs
    <3>5. QED
      BY <3>1, <3>4 DEF b
  <2>5. opt_uint_decode(e) = 65536 * e[1] + 256 * e[2] + e[3]
    BY <2>4, SMT DEF opt_uint_decode
  <2>6. opt_uint_decode(e) = v
    <3> DEFINE c == (v \div 256) % 256
               d == v % 256
               l == v % 65536
    <3>1. c \in Int /\ d \in Int /\ l \in Int /\ 256 * c + d = l /\ v = 65536 * w + l
      BY <1>0, <2>2, SMT
    <3>2. e[1] = w /\ e[2] = c /\ e[3] = d
      BY <1>0, <2>4, Be16Bytes
    <3> HIDE DEF c, d, l
    <3>3. QED
      BY <2>2, <2>5, <3>1, <3>2, SMT
  <2>7. QED
    BY <2>4, <2>6, SMT DEF e
<1>5. CASE v \notin U24
  <2> DEFINE w == high(v)
  <2>1. e = be16(w) \o be16(v)
    <3>1. v # 0 /\ v \notin Byte /\ v \notin U16
      BY <1>0, <1>a, <1>5, SMT
    <3>2. QED
      BY <1>5, <3>1, Zenon DEF opt_uint_encode
  <2>2. w \in Nat /\ w <= 65535 /\ v = 65536 * w + (v % 65536)
    BY <1>0, SMT DEF high
  <2>w. w \in Nat
    BY <2>2, SMT
  <2> HIDE DEF e, w
  <2>3. /\ e \in Seq(Byte) /\ Len(e) = 4
        /\ e[1] = be16(w)[1] /\ e[2] = be16(w)[2]
        /\ e[3] = be16(v)[1] /\ e[4] = be16(v)[2]
    <3> DEFINE a == be16(w)
               b == be16(v)
    <3>1. a \in Seq(Byte) /\ Len(a) = 2
      BY <2>w, Be16Bytes
    <3>2. b \in Seq(Byte) /\ Len(b) = 2
      BY <1>0, Be16Bytes
    <3>3. e = a \o b
      BY <2>1
    <3> HIDE DEF a, b
    <3>4. a \in Seq(Byte) /\ b \in Seq(Byte)
      BY <3>1, <3>2
    <3>5. /\ e \in Seq(Byte) /\ Len(e) = Len(a) + Len(b)
          /\ \A i \in 1 .. Len(a) : e[i] = a[i]
          /\ \A i \in 1 .. Len(b) : e[Len(a) + i] = b[i]
      BY <3>3, <3>4, CatSeqs
    <3>6. /\ Len(e) = 4 /\ e[1] = a[1] /\ e[2] = a[2]
          /\ e[3] = b[1] /\ e[4] = b[2]
      BY <3>1, <3>2, <3>5, SMT
    <3>7. QED
      BY <3>5, <3>6, Zenon DEF a, b
  <2>4. opt_uint_decode(e) = 16777216 * e[1] + 65536 * e[2] + 256 * e[3] + e[4]
    BY <2>3, SMT DEF opt_uint_decode
  <2>5. opt_uint_decode(e) = v
    <3> DEFINE a == (w \div 256) % 256
               b == w % 256
               c == (v \div 256) % 256
               d == v % 256
               l == v % 65536
    <3>1. c \in Int /\ d \in Int /\ l \in Int /\ 256 * c + d = l /\ v = 65536 * w + l
      BY <1>0, <2>2, SMT
    <3>2. a \in Int /\ b \in Int /\ 256 * a + b = w
      BY <2>2, TwoBytes, SMT
    <3>3. be16(w)[1] = a /\ be16(w)[2] = b
      BY <2>w, Be16Bytes
    <3>4. be16(v)[1] = c /\ be16(v)[2] = d
      BY <1>0, Be16Bytes
    <3> HIDE DEF a, b, c, d, l
    <3>5. e[1] = a /\ e[2] = b /\ e[3] = c /\ e[4] = d
      BY <2>3, <3>3, <3>4
    <3>6. QED
      BY <2>2, <2>4, <3>1, <3>2, <3>5, SMT
  <2>6. QED
    BY <2>3, <2>5, SMT DEF e
<1>6. QED
  BY <1>1, <1>2, <1>3, <1>4, <1>5, SMT

\* decode_value undoes encode_value.
LEMMA BlockRoundTrip ==
    ASSUME NEW b \in Block
    PROVE  encode_value(b) \in U32 /\ decode_value(encode_value(b)) = b
<1> DEFINE m == IF b.more THEN 8 ELSE 0
           e == encode_value(b)
           n == b.num
           z == b.szx
<1>1. n \in Nat /\ n <= 268435455 /\ z \in 0 .. 7 /\ b.more \in BOOLEAN
  BY SMT DEF Block, BlockNum
<1>2. m \in {0, 8} /\ (m = 8 <=> b.more)
  BY <1>1
<1>3. e = n * 16 + m + (z % 8)
  BY Zenon DEF encode_value
<1>4. b = [num |-> n, more |-> b.more, szx |-> z]
  BY DEF Block
<1> HIDE DEF m, e, n, z
<1>5. e \in U32
  BY <1>1, <1>2, <1>3, SMT DEF U32
<1>6. e \div 16 = n /\ e % 8 = z /\ ((e \div 8) % 2 = 1 <=> m = 8)
  BY <1>1, <1>2, <1>3, SMT
<1>7. ((e \div 8) % 2 = 1) = b.more
  BY <1>1, <1>2, <1>6
<1>8. decode_value(e) = b
  BY <1>4, <1>6, <1>7 DEF decode_value
<1>9. QED
  BY <1>5, <1>8 DEF e

-------------------------------------------------------------------------------
(*                               Option headers                              *)

\* A 16-bit number as opt_header writes it.
LEMMA NibbleBytes ==
    ASSUME NEW n \in U16
    PROVE  /\ Nibble(n) \in 0 .. 14 /\ Extension(n) \in Seq(Byte)
           /\ n < 13 => Nibble(n) = n /\ Extension(n) = <<>>
           /\ n >= 13 /\ n < 269 => Nibble(n) = 13 /\ Extension(n) = <<(n - 13) % 256>>
           /\ n >= 269 => Nibble(n) = 14 /\ Extension(n) = be16(n - 269)
<1>0. n \in Nat
  BY SMT DEF U16
<1>1. CASE n < 13
  <2>1. Nibble(n) = n
    BY <1>1 DEF Nibble
  <2>2. Extension(n) = <<>>
    <3>1. Nibble(n) # 13 /\ Nibble(n) # 14
      BY <1>0, <1>1, <2>1
    <3>2. QED
      BY <3>1, Zenon DEF Extension
  <2>3. QED
    BY <1>0, <1>1, <2>1, <2>2
<1>2. CASE n >= 13 /\ n < 269
  <2>1. Nibble(n) = 13
    BY <1>0, <1>2 DEF Nibble
  <2>2. Extension(n) = <<(n - 13) % 256>>
    <3>1. Nibble(n) # 14
      BY <2>1
    <3>2. QED
      BY <2>1, <3>1, Zenon DEF Extension
  <2>3. (n - 13) % 256 \in Byte
    <3>1. (n - 13) % 256 \in Nat /\ (n - 13) % 256 <= 255
      BY <1>0, <1>2, SMT
    <3>2. QED
      BY <3>1, Widths, SMT
  <2>4. QED
    BY <1>0, <1>2, <2>1, <2>2, <2>3
<1>3. CASE n >= 269
  <2>1. Nibble(n) = 14
    BY <1>0, <1>3 DEF Nibble
  <2>2. Extension(n) = be16(n - 269)
    <3>1. Nibble(n) # 13
      BY <2>1
    <3>2. QED
      BY <2>1, <3>1, Zenon DEF Extension
  <2>3. be16(n - 269) \in Seq(Byte)
    BY <1>0, <1>3, Be16Bytes
  <2>4. QED
    BY <1>0, <1>3, <2>1, <2>2, <2>3
<1>4. QED
  BY <1>0, <1>1, <1>2, <1>3

\* Extended reads what opt_header wrote.
LEMMA ExtendedReads ==
    ASSUME msg \in Seq(Byte), NEW n \in U16, NEW i \in Nat,
           i + Len(Extension(n)) <= Len(msg),
           \A j \in 1 .. Len(Extension(n)) : At(i + j - 1) = Extension(n)[j]
    PROVE  Extended(Nibble(n), i) = [ok |-> TRUE, val |-> n, next |-> i + Len(Extension(n))]
<1>0. n \in Nat /\ n <= 65535 /\ Len(msg) \in Nat
  BY SMT DEF U16
<1>1. CASE n < 13
  <2>1. Nibble(n) = n /\ Len(Extension(n)) = 0
    BY <1>1, NibbleBytes
  <2>2. Extended(n, i) = [ok |-> TRUE, val |-> n, next |-> i]
    <3>1. ~(n = 13) /\ ~(n = 14)
      BY <1>0, <1>1
    <3>2. QED
      BY <1>1, <3>1, Zenon DEF Extended
  <2>3. i + Len(Extension(n)) = i
    BY <2>1
  <2>4. QED
    BY <2>1, <2>2, <2>3, Zenon
<1>2. CASE n >= 13 /\ n < 269
  <2> DEFINE b == (n - 13) % 256
  <2>1. Nibble(n) = 13 /\ Extension(n) = <<b>>
    BY <1>2, NibbleBytes
  <2>2. b \in Nat /\ b + 13 = n
    BY <1>0, <1>2, SMT
  <2> HIDE DEF b
  <2>3. Len(Extension(n)) = 1 /\ Extension(n)[1] = b
    BY <2>1
  <2>4. i < Len(msg) /\ At(i) = b /\ i + Len(Extension(n)) = i + 1
    <3>1. At(i + 1 - 1) = b /\ i + 1 - 1 = i
      BY <2>3
    <3>2. QED
      BY <1>0, <2>3, <3>1
  <2>5. Extended(13, i) = [ok |-> TRUE, val |-> At(i) + 13, next |-> i + 1]
    <3>1. ~(13 < 13) /\ ~(13 = 14) /\ 13 = 13
      OBVIOUS
    <3>2. QED
      BY <2>4, <3>1, Zenon DEF Extended
  <2>6. QED
    BY <2>1, <2>2, <2>4, <2>5
<1>3. CASE n >= 269
  <2> DEFINE m == n - 269
             b == (m \div 256) % 256
             c == m % 256
  <2>1. m \in Nat /\ m <= 65535 /\ m + 269 = n
    BY <1>0, <1>3
  <2>2. Nibble(n) = 14 /\ Extension(n) = be16(m)
    BY <1>3, NibbleBytes
  <2> HIDE DEF m
  <2>3. Len(Extension(n)) = 2 /\ Extension(n)[1] = b /\ Extension(n)[2] = c
    <3>1. m \in Nat
      BY <2>1
    <3>2. QED
      BY <2>2, <3>1, Be16Bytes
  <2>4. b \in Nat /\ c \in Nat /\ 256 * b + c = m
    BY <2>1, TwoBytes, SMT
  <2> HIDE DEF b, c
  <2>5. i + 1 < Len(msg) /\ At(i) = b /\ At(i + 1) = c /\ i + Len(Extension(n)) = i + 2
    <3>1. At(i + 1 - 1) = b /\ At(i + 2 - 1) = c /\ i + 1 - 1 = i /\ i + 2 - 1 = i + 1
      BY <2>3
    <3>2. QED
      BY <1>0, <2>3, <3>1
  <2>6. Extended(14, i) = [ok |-> TRUE, val |-> u16(256 * At(i) + At(i + 1) + 269),
                           next |-> i + 2]
    <3>1. ~(14 < 13) /\ ~(14 = 13) /\ 14 = 14
      OBVIOUS
    <3>2. QED
      BY <2>5, <3>1, Zenon DEF Extended
  <2>7. u16(256 * b + c + 269) = n
    BY <1>0, <2>1, <2>4, SMT DEF u16
  <2>8. QED
    BY <2>2, <2>5, <2>6, <2>7
<1>4. QED
  BY <1>0, <1>1, <1>2, <1>3

\* Where the parts of a written option are.
LEMMA OptionBytes ==
    ASSUME NEW d \in U16, NEW v \in Seq(Byte), Len(v) \in U16
    PROVE  LET w == opt_header(d, Len(v)) \o v
               x == Extension(d)
               y == Extension(Len(v))
           IN  /\ w \in Seq(Byte) /\ Len(w) = 1 + Len(x) + Len(y) + Len(v)
               /\ w[1] = 16 * Nibble(d) + Nibble(Len(v))
               /\ \A j \in 1 .. Len(x) : w[1 + j] = x[j]
               /\ \A j \in 1 .. Len(y) : w[1 + Len(x) + j] = y[j]
               /\ \A j \in 1 .. Len(v) : w[1 + Len(x) + Len(y) + j] = v[j]
<1> DEFINE h == 16 * Nibble(d) + Nibble(Len(v))
           w == opt_header(d, Len(v)) \o v
           x == Extension(d)
           y == Extension(Len(v))
           s == <<h>> \o x
           t == s \o y
<1>1. x \in Seq(Byte) /\ y \in Seq(Byte)
  BY NibbleBytes
<1>2. h \in Byte
  <2> DEFINE a == Nibble(d)
             b == Nibble(Len(v))
  <2>1. a \in 0 .. 14 /\ b \in 0 .. 14
    BY NibbleBytes
  <2> HIDE DEF a, b
  <2>2. 16 * a + b \in Byte
    BY <2>1, SMT DEF Byte
  <2>3. QED
    BY <2>2, Zenon DEF a, b
<1>3. w = t \o v
  BY Zenon DEF opt_header
<1> HIDE DEF h, w, x, y
<1>4. <<h>> \in Seq(Byte) /\ Len(<<h>>) = 1 /\ <<h>>[1] = h
  BY <1>2
<1>5. /\ s \in Seq(Byte) /\ Len(s) = 1 + Len(x) /\ s[1] = h
      /\ \A j \in 1 .. Len(x) : s[1 + j] = x[j]
  BY <1>1, <1>4, CatSeqs
<1> HIDE DEF s
<1>6. /\ t \in Seq(Byte) /\ Len(t) = 1 + Len(x) + Len(y) /\ t[1] = h
      /\ \A j \in 1 .. Len(x) : t[1 + j] = x[j]
      /\ \A j \in 1 .. Len(y) : t[1 + Len(x) + j] = y[j]
  <2>0. s \in Seq(Byte) /\ y \in Seq(Byte)
    BY <1>1, <1>5
  <2>1. /\ t \in Seq(Byte) /\ Len(t) = Len(s) + Len(y)
        /\ \A i \in 1 .. Len(s) : t[i] = s[i]
        /\ \A i \in 1 .. Len(y) : t[Len(s) + i] = y[i]
    BY <2>0, CatSeqs
  <2>2. Len(x) \in Nat /\ Len(y) \in Nat
    BY <1>1
  <2> HIDE DEF t
  <2>3. \A j \in 1 .. Len(x) : t[1 + j] = s[1 + j]
    BY <1>5, <2>1, <2>2
  <2>4. QED
    BY <1>5, <2>1, <2>2, <2>3
<1> HIDE DEF t
<1>7. /\ w \in Seq(Byte) /\ Len(w) = 1 + Len(x) + Len(y) + Len(v) /\ w[1] = h
      /\ \A j \in 1 .. Len(x) : w[1 + j] = x[j]
      /\ \A j \in 1 .. Len(y) : w[1 + Len(x) + j] = y[j]
      /\ \A j \in 1 .. Len(v) : w[1 + Len(x) + Len(y) + j] = v[j]
  <2>0. t \in Seq(Byte)
    BY <1>6
  <2>1. /\ w \in Seq(Byte) /\ Len(w) = Len(t) + Len(v)
        /\ \A i \in 1 .. Len(t) : w[i] = t[i]
        /\ \A i \in 1 .. Len(v) : w[Len(t) + i] = v[i]
    BY <1>3, <2>0, CatSeqs
  <2>2. Len(x) \in Nat /\ Len(y) \in Nat /\ Len(v) \in Nat
    BY <1>1
  <2>3. \A j \in 1 .. Len(x) : w[1 + j] = t[1 + j]
    BY <1>6, <2>1, <2>2
  <2>4. \A j \in 1 .. Len(y) : w[1 + Len(x) + j] = t[1 + Len(x) + j]
    BY <1>6, <2>1, <2>2
  <2>5. w[1] = t[1]
    BY <1>6, <2>1, <2>2
  <2>6. QED
    BY <1>6, <2>1, <2>2, <2>3, <2>4, <2>5
<1>8. QED
  BY <1>7, Zenon DEF h, w, x, y

-------------------------------------------------------------------------------
(*                              Options in order                             *)

\* Two nibbles in a byte, which is not the payload marker.
LEMMA HalfBytes ==
    ASSUME NEW h, NEW a \in 0 .. 14, NEW b \in 0 .. 14, h = 16 * a + b
    PROVE  h \div 16 = a /\ h % 16 = b /\ h # PAYLOAD_MARKER
<1>1. h \div 16 = a
  BY SMT
<1>2. h % 16 = b
  BY SMT
<1>3. h # PAYLOAD_MARKER
  BY SMT DEF PAYLOAD_MARKER
<1>4. QED
  BY <1>1, <1>2, <1>3

\* parse takes off the message the option that was written there.
LEMMA OptionReads ==
    ASSUME msg \in Seq(Byte), NEW d \in U16, NEW v \in Seq(Byte), Len(v) \in U16,
           pos \in Nat, NEW w, w = opt_header(d, Len(v)) \o v,
           pos + Len(w) <= Len(msg), \A j \in 1 .. Len(w) : At(pos + j - 1) = w[j]
    PROVE  LET delta == Extended(At(pos) \div 16, pos + 1)
               len == Extended(At(pos) % 16, delta.next)
           IN  /\ pos < Len(msg) /\ At(pos) # PAYLOAD_MARKER
               /\ delta.ok /\ len.ok /\ delta.val = d
               /\ len.next + len.val = pos + Len(w)
               /\ SubSeq(msg, len.next + 1, len.next + len.val) = v
<1> DEFINE x == Extension(d)
           y == Extension(Len(v))
           a == Nibble(d)
           b == Nibble(Len(v))
           lx == Len(x)
           ly == Len(y)
           lv == Len(v)
<1>1. /\ w \in Seq(Byte) /\ Len(w) = 1 + lx + ly + lv
      /\ w[1] = 16 * a + b
      /\ \A j \in 1 .. lx : w[1 + j] = x[j]
      /\ \A j \in 1 .. ly : w[1 + lx + j] = y[j]
      /\ \A j \in 1 .. lv : w[1 + lx + ly + j] = v[j]
  BY OptionBytes, Zenon
<1>2. lx \in Nat /\ ly \in Nat /\ lv \in Nat /\ a \in 0 .. 14 /\ b \in 0 .. 14 /\ Len(msg) \in Nat
  BY NibbleBytes
<1> HIDE DEF x, y, a, b, lx, ly, lv
<1>3. At(pos) = 16 * a + b /\ pos < Len(msg)
  <2>0. 1 \in 1 .. Len(w)
    BY <1>1, <1>2
  <2>1. At(pos + 1 - 1) = w[1] /\ pos + 1 - 1 = pos
    BY <2>0
  <2>2. QED
    BY <1>1, <1>2, <2>1
<1>4. At(pos) \div 16 = a /\ At(pos) % 16 = b /\ At(pos) # PAYLOAD_MARKER
  <2>1. a \in 0 .. 14 /\ b \in 0 .. 14
    BY <1>2
  <2>2. At(pos) = 16 * a + b
    BY <1>3
  <2>3. QED
    BY <2>1, <2>2, HalfBytes, Zenon
<1>5. Extended(a, pos + 1) = [ok |-> TRUE, val |-> d, next |-> pos + 1 + lx]
  <2>1. pos + 1 \in Nat /\ pos + 1 + lx <= Len(msg)
    BY <1>1, <1>2
  <2>2. ASSUME NEW j \in 1 .. lx PROVE At(pos + 1 + j - 1) = x[j]
    <3>1. 1 + j \in 1 .. Len(w) /\ pos + 1 + j - 1 = pos + (1 + j) - 1
      BY <1>1, <1>2
    <3>2. At(pos + (1 + j) - 1) = w[1 + j] /\ w[1 + j] = x[j]
      BY <1>1, <3>1
    <3>3. QED
      BY <3>1, <3>2
  <2>3. QED
    BY <2>1, <2>2, ExtendedReads DEF x, a, lx
<1>6. Extended(b, pos + 1 + lx) = [ok |-> TRUE, val |-> lv, next |-> pos + 1 + lx + ly]
  <2>1. pos + 1 + lx \in Nat /\ pos + 1 + lx + ly <= Len(msg)
    BY <1>1, <1>2
  <2>2. ASSUME NEW j \in 1 .. ly PROVE At(pos + 1 + lx + j - 1) = y[j]
    <3>1. 1 + lx + j \in 1 .. Len(w) /\ pos + 1 + lx + j - 1 = pos + (1 + lx + j) - 1
      BY <1>1, <1>2
    <3>2. At(pos + (1 + lx + j) - 1) = w[1 + lx + j] /\ w[1 + lx + j] = y[j]
      BY <1>1, <3>1
    <3>3. QED
      BY <3>1, <3>2
  <2> DEFINE k == pos + 1 + lx
  <2>3. k \in Nat /\ k + ly <= Len(msg) /\ \A j \in 1 .. ly : At(k + j - 1) = y[j]
    BY <2>1, <2>2
  <2> HIDE DEF k
  <2>4. Extended(b, k) = [ok |-> TRUE, val |-> lv, next |-> k + ly]
    BY <2>3, ExtendedReads DEF y, b, ly, lv
  <2>5. QED
    BY <2>4, Zenon DEF k
<1> DEFINE q == pos + 1 + lx + ly
<1>7. SubSeq(msg, q + 1, q + lv) = v
  <2>1. q \in Nat /\ q + lv <= Len(msg)
    BY <1>1, <1>2
  <2>2. ASSUME NEW j \in 1 .. lv PROVE msg[q + j] = v[j]
    <3>1. 1 + lx + ly + j \in 1 .. Len(w) /\ q + j = pos + (1 + lx + ly + j) - 1 + 1
      BY <1>1, <1>2
    <3>2. At(pos + (1 + lx + ly + j) - 1) = v[j]
      BY <1>1, <3>1
    <3>3. QED
      BY <3>1, <3>2 DEF At
  <2>3. lv = Len(v)
    BY DEF lv
  <2> HIDE DEF q
  <2>4. QED
    <3> DEFINE z == SubSeq(msg, q + 1, q + lv)
    <3>1. z \in Seq(Byte) /\ Len(z) = lv /\ \A j \in 1 .. lv : z[j] = msg[q + j]
      BY <1>2, <2>1
    <3> HIDE DEF z
    <3>2. QED
      BY <2>2, <2>3, <3>1, SeqEqual DEF z
<1>8. QED
  <2> DEFINE delta == Extended(At(pos) \div 16, pos + 1)
             len == Extended(At(pos) % 16, delta.next)
  <2>1. delta = [ok |-> TRUE, val |-> d, next |-> pos + 1 + lx]
    BY <1>4, <1>5
  <2>2. len = [ok |-> TRUE, val |-> lv, next |-> q]
    BY <1>4, <1>6, <2>1
  <2> HIDE DEF delta, len
  <2>3. len.next = q /\ len.val = lv /\ len.ok /\ delta.ok /\ delta.val = d
    BY <2>1, <2>2
  <2>4. q + lv = pos + Len(w)
    BY <1>1, <1>2
  <2>5. len.next + len.val = pos + Len(w) /\ SubSeq(msg, len.next + 1, len.next + len.val) = v
    BY <1>7, <2>3, <2>4, Zenon
  <2>6. QED
    BY <1>3, <1>4, <2>3, <2>5, Zenon DEF delta, len

-----------------------------------------------------------------------------
(* The options of a request.                                               *)

Option == Nat \X {v \in Seq(Byte) : Len(v) \in U16}

\* Options in the order of their numbers, which are between lo and hi.
Ordered(s, lo, hi) ==
    /\ s \in Seq(Option)
    /\ \A i \in 1 .. Len(s) : lo <= s[i][1] /\ s[i][1] <= hi
    /\ \A i, j \in 1 .. Len(s) : i <= j => s[i][1] <= s[j][1]

Has(s, o) == \E i \in 1 .. Len(s) : s[i] = o

\* Ordered options with higher ones after them.
LEMMA OrderedCat ==
    ASSUME NEW lo \in Nat, NEW m \in Nat, NEW n \in Nat, NEW hi \in Nat,
           lo <= m, m <= n, n <= hi,
           NEW s, NEW t, Ordered(s, lo, m), Ordered(t, n, hi)
    PROVE  Ordered(s \o t, lo, hi) /\ \A o : Has(s \o t, o) <=> Has(s, o) \/ Has(t, o)
<1> DEFINE c == s \o t
<1>1. s \in Seq(Option) /\ t \in Seq(Option) /\ Len(s) \in Nat /\ Len(t) \in Nat
  BY DEF Ordered
<1>2. /\ c \in Seq(Option) /\ Len(c) = Len(s) + Len(t)
      /\ \A i \in 1 .. Len(s) : c[i] = s[i]
      /\ \A i \in 1 .. Len(t) : c[Len(s) + i] = t[i]
  BY <1>1, CatSeqs
<1> HIDE DEF c
<1>3. \A i \in 1 .. Len(c) : \/ i \in 1 .. Len(s) /\ c[i] = s[i]
                             \/ i - Len(s) \in 1 .. Len(t) /\ c[i] = t[i - Len(s)]
  <2>1. SUFFICES ASSUME NEW i \in 1 .. Len(c), i \notin 1 .. Len(s)
                 PROVE  i - Len(s) \in 1 .. Len(t) /\ c[i] = t[i - Len(s)]
    BY <1>2
  <2>2. i - Len(s) \in 1 .. Len(t) /\ Len(s) + (i - Len(s)) = i
    BY <1>1, <1>2, <2>1
  <2>3. QED
    BY <1>2, <2>2
<1> DEFINE A(i) == s[i][1]
           B(i) == t[i][1]
           C(i) == c[i][1]
<1>4. /\ \A i \in 1 .. Len(s) : A(i) \in Nat /\ lo <= A(i) /\ A(i) <= m
      /\ \A i \in 1 .. Len(t) : B(i) \in Nat /\ n <= B(i) /\ B(i) <= hi
      /\ \A i, j \in 1 .. Len(s) : i <= j => A(i) <= A(j)
      /\ \A i, j \in 1 .. Len(t) : i <= j => B(i) <= B(j)
  BY <1>1 DEF Ordered, Option
<1>5. \A i \in 1 .. Len(c) : \/ i \in 1 .. Len(s) /\ C(i) = A(i)
                             \/ i - Len(s) \in 1 .. Len(t) /\ C(i) = B(i - Len(s))
  BY <1>3
<1> HIDE DEF A, B, C
<1>6. \A i \in 1 .. Len(c) : lo <= C(i) /\ C(i) <= hi
  BY <1>4, <1>5
<1>7. ASSUME NEW i \in 1 .. Len(c), NEW j \in 1 .. Len(c), i <= j PROVE C(i) <= C(j)
  <2>1. CASE j \in 1 .. Len(s) /\ C(j) = A(j)
    <3>1. i \in 1 .. Len(s) /\ C(i) = A(i)
      BY <1>1, <1>2, <1>5, <1>7, <2>1
    <3>2. QED
      BY <1>4, <1>7, <2>1, <3>1
  <2>2. CASE j - Len(s) \in 1 .. Len(t) /\ C(j) = B(j - Len(s))
    <3>1. CASE i \in 1 .. Len(s) /\ C(i) = A(i)
      <4>1. A(i) \in Nat /\ A(i) <= m
        BY <1>4, <3>1, Zenon
      <4>2. B(j - Len(s)) \in Nat /\ n <= B(j - Len(s))
        BY <1>4, <2>2, Zenon
      <4>3. QED
        BY <2>2, <3>1, <4>1, <4>2
    <3>2. CASE i - Len(s) \in 1 .. Len(t) /\ C(i) = B(i - Len(s))
      <4>1. i - Len(s) <= j - Len(s)
        BY <1>1, <1>2, <1>7
      <4>2. QED
        BY <1>4, <2>2, <3>2, <4>1
    <3>3. QED
      BY <1>5, <3>1, <3>2
  <2>3. QED
    BY <1>5, <2>1, <2>2
<1>8. Ordered(c, lo, hi)
  BY <1>2, <1>6, <1>7 DEF Ordered, C
<1>9. ASSUME NEW o PROVE Has(c, o) <=> Has(s, o) \/ Has(t, o)
  <2>1. Has(c, o) => Has(s, o) \/ Has(t, o)
    BY <1>3 DEF Has
  <2>2. Has(s, o) => Has(c, o)
    BY <1>1, <1>2 DEF Has
  <2>3. Has(t, o) => Has(c, o)
    <3>1. SUFFICES ASSUME NEW i \in 1 .. Len(t), t[i] = o PROVE Has(c, o)
      BY DEF Has
    <3>2. Len(s) + i \in 1 .. Len(c) /\ c[Len(s) + i] = o
      BY <1>1, <1>2, <3>1
    <3>3. QED
      BY <3>2, Zenon DEF Has
  <2>4. QED
    BY <2>1, <2>2, <2>3
<1>10. QED
  BY <1>8, <1>9 DEF c

-------------------------------------------------------------------------------
(*                          The options of a request                         *)

Segment == {s \in Seq(Byte) : Len(s) \in U16 \ {0}}

\* The segments of the uri, as options of one number.
LEMMA SegmentsOrdered ==
    ASSUME NEW num \in Nat, NEW segs \in Seq(Segment)
    PROVE  /\ Ordered(SegmentOptions(num, segs), num, num)
           /\ \A o : Has(SegmentOptions(num, segs), o) => o[1] = num
<1> DEFINE s == SegmentOptions(num, segs)
<1>1. s = [i \in 1 .. Len(segs) |-> <<num, segs[i]>>]
  BY DEF SegmentOptions
<1>2. \A i \in 1 .. Len(segs) : segs[i] \in Seq(Byte) /\ Len(segs[i]) \in U16
  BY DEF Segment
<1>3. \A i \in 1 .. Len(segs) : <<num, segs[i]>> \in Option
  BY <1>2 DEF Option
<1>4. s \in Seq(Option) /\ Len(s) = Len(segs) /\ \A i \in 1 .. Len(s) : s[i] = <<num, segs[i]>>
  BY <1>1, <1>3
<1> HIDE DEF s
<1>5. \A i \in 1 .. Len(s) : s[i][1] = num
  BY <1>4
<1>6. Ordered(s, num, num)
  BY <1>4, <1>5 DEF Ordered
<1>7. QED
  BY <1>5, <1>6 DEF s, Has

\* A single option, or none.
LEMMA SingleOrdered ==
    ASSUME NEW num \in Nat, NEW val \in Seq(Byte), Len(val) \in U16
    PROVE  /\ Ordered(<<>>, num, num) /\ \A o : ~Has(<<>>, o)
           /\ Ordered(<< <<num, val>> >>, num, num)
           /\ \A o : Has(<< <<num, val>> >>, o) <=> o = <<num, val>>
<1>1. Ordered(<<>>, num, num) /\ \A o : ~Has(<<>>, o)
  BY DEF Ordered, Has
<1> DEFINE x == <<num, val>>
           s == <<x>>
<1>2. x \in Option /\ x[1] = num
  BY DEF Option
<1> HIDE DEF x
<1>3. s \in Seq(Option) /\ Len(s) = 1 /\ s[1] = x
  BY <1>2
<1> HIDE DEF s
<1>4. Ordered(s, num, num)
  BY <1>2, <1>3 DEF Ordered
<1>5. \A o : Has(s, o) <=> o = x
  BY <1>3 DEF Has
<1>6. QED
  BY <1>1, <1>4, <1>5 DEF x, s

\* A numeric option is short.
LEMMA UintShort ==
    ASSUME NEW v \in U32
    PROVE  opt_uint_encode(v) \in Seq(Byte) /\ Len(opt_uint_encode(v)) \in U16
<1>1. opt_uint_encode(v) \in Seq(Byte) /\ Len(opt_uint_encode(v)) <= 4
  BY UintRoundTrip, SMT
<1>2. Len(opt_uint_encode(v)) \in Nat
  BY <1>1
<1>3. QED
  BY <1>1, <1>2, SMT DEF U16

\* A 16-bit number is one of 32 bits.
LEMMA U16InU32 == \A v \in U16 : v \in U32 /\ u16(v) = v
BY SMT DEF U16, U32, u16

\* An optional number.
LEMMA UintOrdered ==
    ASSUME NEW num \in Nat, NEW val \in U16 \cup {None}
    PROVE  /\ Ordered(UintOption(num, val), num, num)
           /\ \A o : Has(UintOption(num, val), o)
                     <=> val # None /\ o = <<num, opt_uint_encode(val)>>
<1>1. CASE val = None
  <2>1. UintOption(num, val) = <<>>
    BY <1>1 DEF UintOption
  <2>2. <<>> \in Seq(Byte) /\ Len(<<>>) \in U16
    BY SMT DEF U16
  <2>3. QED
    BY <1>1, <2>1, <2>2, SingleOrdered
<1>2. CASE val \in U16 /\ val # None
  <2> DEFINE e == opt_uint_encode(val)
  <2>1. UintOption(num, val) = << <<num, e>> >>
    BY <1>2 DEF UintOption
  <2>2. e \in Seq(Byte) /\ Len(e) \in U16
    BY <1>2, U16InU32, UintShort
  <2> HIDE DEF e
  <2>3. /\ Ordered(<< <<num, e>> >>, num, num)
        /\ \A o : Has(<< <<num, e>> >>, o) <=> o = <<num, e>>
    BY <2>2, SingleOrdered
  <2>4. QED
    BY <1>2, <2>1, <2>3, Zenon DEF e
<1>3. QED
  BY <1>1, <1>2

\* An optional block.
LEMMA BlockOrdered ==
    ASSUME NEW num \in Nat, NEW b \in Block \cup {None}
    PROVE  /\ Ordered(BlockOption(num, b), num, num)
           /\ \A o : Has(BlockOption(num, b), o)
                     <=> b # None /\ o = <<num, opt_uint_encode(encode_value(b))>>
<1>1. CASE b = None
  <2>1. BlockOption(num, b) = <<>>
    BY <1>1 DEF BlockOption
  <2>2. <<>> \in Seq(Byte) /\ Len(<<>>) \in U16
    BY SMT DEF U16
  <2>3. QED
    BY <1>1, <2>1, <2>2, SingleOrdered
<1>2. CASE b \in Block /\ b # None
  <2> DEFINE e == opt_uint_encode(encode_value(b))
  <2>1. BlockOption(num, b) = << <<num, e>> >>
    BY <1>2 DEF BlockOption
  <2>2. e \in Seq(Byte) /\ Len(e) \in U16
    BY <1>2, BlockRoundTrip, UintShort
  <2> HIDE DEF e
  <2>3. /\ Ordered(<< <<num, e>> >>, num, num)
        /\ \A o : Has(<< <<num, e>> >>, o) <=> o = <<num, e>>
    BY <2>2, SingleOrdered
  <2>4. QED
    BY <1>2, <2>1, <2>3, Zenon DEF e
<1>3. QED
  BY <1>1, <1>2

\* The block of the answer that a request asks for.
Block2(p) == [p.block2 EXCEPT !.more = FALSE]

\* Which options a request has, and their values.
LEMMA OptionsShape ==
    ASSUME NEW p \in RequestParams
    PROVE  /\ Ordered(Options(p), 11, 27)
           /\ Block2(p) \in Block /\ Block2(p) # None
           /\ \A o : Has(Options(p), o) =>
                /\ o[1] = 12 => p.content_format # None /\ o[2] = opt_uint_encode(p.content_format)
                /\ o[1] = 23 => o[2] = opt_uint_encode(encode_value(Block2(p)))
                /\ o[1] = 27 => p.block1 # None /\ o[2] = opt_uint_encode(encode_value(p.block1))
           /\ p.content_format # None => \E o : Has(Options(p), o) /\ o[1] = 12
           /\ \E o : Has(Options(p), o) /\ o[1] = 23
           /\ p.block1 # None => \E o : Has(Options(p), o) /\ o[1] = 27
<1> DEFINE A == SegmentOptions(OPT_URI_PATH, p.path)
           B == UintOption(OPT_CONTENT_FORMAT, p.content_format)
           C == SegmentOptions(OPT_URI_QUERY, p.query)
           D == UintOption(OPT_ACCEPT, p.accept)
           E == BlockOption(OPT_BLOCK2, Block2(p))
           F == BlockOption(OPT_BLOCK1, p.block1)
           cf == p.content_format
           b1 == p.block1
           b2 == Block2(p)
           e12 == opt_uint_encode(cf)
           e23 == opt_uint_encode(encode_value(b2))
           e27 == opt_uint_encode(encode_value(b1))
<1>1. /\ p.path \in Seq(Segment) /\ p.query \in Seq(Segment)
      /\ p.content_format \in U16 \cup {None} /\ p.accept \in U16 \cup {None}
      /\ p.block1 \in Block \cup {None} /\ p.block2 \in Block
  BY DEF RequestParams, Segment
<1>2. Block2(p) \in Block /\ Block2(p) # None
  <2>1. Block2(p) \in Block
    BY <1>1 DEF Block2, Block
  <2>2. QED
    BY <2>1, MessagesAssumption
<1>3. Ordered(A, 11, 11) /\ \A o : Has(A, o) => o[1] = 11
  BY <1>1, SegmentsOrdered DEF OPT_URI_PATH
<1>4. Ordered(C, 15, 15) /\ \A o : Has(C, o) => o[1] = 15
  BY <1>1, SegmentsOrdered DEF OPT_URI_QUERY
<1>5. Ordered(B, 12, 12) /\ \A o : Has(B, o) <=> cf # None /\ o = <<12, e12>>
  BY <1>1, UintOrdered DEF OPT_CONTENT_FORMAT
<1>6. Ordered(D, 17, 17) /\ \A o : Has(D, o) => o[1] = 17
  BY <1>1, UintOrdered DEF OPT_ACCEPT
<1>7. Ordered(E, 23, 23) /\ \A o : Has(E, o) <=> o = <<23, e23>>
  BY <1>2, BlockOrdered DEF OPT_BLOCK2
<1>8. Ordered(F, 27, 27) /\ \A o : Has(F, o) <=> b1 # None /\ o = <<27, e27>>
  BY <1>1, BlockOrdered DEF OPT_BLOCK1
<1>9. Options(p) = A \o B \o C \o D \o E \o F
  BY Zenon DEF Options, Block2
<1> HIDE DEF A, B, C, D, E, F, cf, b1, b2, e12, e23, e27
<1>10. Ordered(A \o B, 11, 12) /\ \A o : Has(A \o B, o) <=> Has(A, o) \/ Has(B, o)
  BY <1>3, <1>5, OrderedCat
<1> DEFINE AC == A \o B \o C
           AD == AC \o D
           AE == AD \o E
           AF == AE \o F
<1>11. Ordered(AC, 11, 15) /\ \A o : Has(AC, o) <=> Has(A \o B, o) \/ Has(C, o)
  BY <1>4, <1>10, OrderedCat
<1> HIDE DEF AC
<1>12. Ordered(AD, 11, 17) /\ \A o : Has(AD, o) <=> Has(AC, o) \/ Has(D, o)
  BY <1>6, <1>11, OrderedCat
<1> HIDE DEF AD
<1>13. Ordered(AE, 11, 23) /\ \A o : Has(AE, o) <=> Has(AD, o) \/ Has(E, o)
  BY <1>7, <1>12, OrderedCat
<1> HIDE DEF AE
<1>14. Ordered(AF, 11, 27) /\ \A o : Has(AF, o) <=> Has(AE, o) \/ Has(F, o)
  BY <1>8, <1>13, OrderedCat
<1>15. Options(p) = AF
  BY <1>9, Zenon DEF AC, AD, AE
<1> HIDE DEF AF
<1>16. \A o : Has(AF, o) <=> \/ Has(A, o) \/ Has(B, o) \/ Has(C, o)
                             \/ Has(D, o) \/ Has(E, o) \/ Has(F, o)
  BY <1>10, <1>11, <1>12, <1>13, <1>14, Zenon
<1>17. ASSUME NEW o, Has(AF, o)
       PROVE  /\ o[1] = 12 => cf # None /\ o[2] = e12
              /\ o[1] = 23 => o[2] = e23
              /\ o[1] = 27 => b1 # None /\ o[2] = e27
  <2>1. /\ Has(A, o) => o[1] = 11
        /\ Has(B, o) => cf # None /\ o[1] = 12 /\ o[2] = e12
        /\ Has(C, o) => o[1] = 15
        /\ Has(D, o) => o[1] = 17
        /\ Has(E, o) => o[1] = 23 /\ o[2] = e23
        /\ Has(F, o) => b1 # None /\ o[1] = 27 /\ o[2] = e27
    BY <1>3, <1>4, <1>5, <1>6, <1>7, <1>8
  <2>2. \/ Has(A, o) \/ Has(B, o) \/ Has(C, o) \/ Has(D, o) \/ Has(E, o) \/ Has(F, o)
    BY <1>16, <1>17
  <2>3. QED
    BY <2>1, <2>2
<1>18. /\ cf # None => \E o : Has(AF, o) /\ o[1] = 12
       /\ \E o : Has(AF, o) /\ o[1] = 23
       /\ b1 # None => \E o : Has(AF, o) /\ o[1] = 27
  <2>1. cf # None => Has(AF, <<12, e12>>) /\ <<12, e12>>[1] = 12
    BY <1>5, <1>16
  <2>2. Has(AF, <<23, e23>>) /\ <<23, e23>>[1] = 23
    BY <1>7, <1>16
  <2>3. b1 # None => Has(AF, <<27, e27>>) /\ <<27, e27>>[1] = 27
    BY <1>8, <1>16
  <2>4. QED
    BY <2>1, <2>2, <2>3, Zenon
<1>19. QED
  BY <1>2, <1>14, <1>15, <1>17, <1>18, Zenon DEF cf, b1, b2, e12, e23, e27

-------------------------------------------------------------------------------
(*                      The options as they are written                      *)

Flat == INSTANCE FoldTheorems WITH op <- \o, base <- <<>>

\* The number and the value of option k of opts.
Num(opts, k) == opts[k][1]
Val(opts, k) == opts[k][2]

\* What Writer::opt is called with fits the format.
LEMMA WritesOption ==
    ASSUME NEW opts, Ordered(opts, 11, 27), NEW k \in 1 .. Len(opts)
    PROVE  /\ Num(opts, k) \in Nat /\ Num(opts, k) <= 27
           /\ Previous(opts, k) \in Nat /\ Previous(opts, k) <= Num(opts, k)
           /\ Num(opts, k) - Previous(opts, k) \in U16
           /\ Val(opts, k) \in Seq(Byte) /\ Len(Val(opts, k)) \in U16
           /\ WriteOption(opts, k) \in Seq(Byte) /\ Len(WriteOption(opts, k)) > 0
           /\ WriteOption(opts, k)
              = opt_header(Num(opts, k) - Previous(opts, k), Len(Val(opts, k))) \o Val(opts, k)
<1> DEFINE n == Num(opts, k)
           q == Previous(opts, k)
           v == Val(opts, k)
           w == WriteOption(opts, k)
           d == n - q
<1>1. opts \in Seq(Option)
  BY DEF Ordered
<1>2. opts[k] \in Option /\ n \in Nat /\ n <= 27
  BY <1>1 DEF Ordered, Option, Num
<1>3. q \in Nat /\ q <= n
  <2>1. CASE k = 1
    BY <1>2, <2>1 DEF Previous
  <2>2. CASE k # 1
    <3>1. k - 1 \in 1 .. Len(opts) /\ k - 1 <= k
      BY <1>1, <2>2
    <3>2. q = opts[k - 1][1] /\ opts[k - 1] \in Option
      BY <1>1, <2>2, <3>1 DEF Previous
    <3>3. opts[k - 1][1] <= opts[k][1]
      BY <3>1, Zenon DEF Ordered
    <3>4. opts[k - 1][1] \in Nat
      BY <3>2 DEF Option
    <3>5. QED
      BY <3>2, <3>3, <3>4 DEF Num
  <2>3. QED
    BY <2>1, <2>2
<1>4. v \in Seq(Byte) /\ Len(v) \in U16
  BY <1>2 DEF Option, Val
<1> HIDE DEF n, q, v
<1>5. d \in U16
  BY <1>2, <1>3, SMT DEF U16
<1>6. w = opt_header(d, Len(v)) \o v
  BY Zenon DEF WriteOption, n, q, v, Num, Val
<1> HIDE DEF d
<1>7. w \in Seq(Byte) /\ Len(w) > 0
  <2> DEFINE x == Extension(d)
             y == Extension(Len(v))
  <2>1. w \in Seq(Byte) /\ Len(w) = 1 + Len(x) + Len(y) + Len(v)
    BY <1>4, <1>5, <1>6, OptionBytes, Zenon
  <2>2. Len(x) \in Nat /\ Len(y) \in Nat /\ Len(v) \in Nat
    BY <1>4, <1>5, NibbleBytes
  <2> HIDE DEF x, y, w
  <2>3. QED
    BY <2>1, <2>2
<1>8. QED
  BY <1>2, <1>3, <1>4, <1>5, <1>6, <1>7 DEF n, q, v, d

\* The options of a request, as they are written, one after the other.
LEMMA WrittenLayout ==
    ASSUME NEW opts, Ordered(opts, 11, 27)
    PROVE  /\ WriteOptions(opts) \in Seq(Byte)
           /\ \E off : Flat!Layout([i \in 1 .. Len(opts) |-> WriteOption(opts, i)],
                                   WriteOptions(opts), off)
<1> DEFINE ss == [i \in 1 .. Len(opts) |-> WriteOption(opts, i)]
<1>1. Len(opts) \in Nat /\ DOMAIN opts = 1 .. Len(opts)
  BY DEF Ordered
<1>2. ss \in Seq(Seq(Byte))
  <2>1. \A i \in 1 .. Len(opts) : WriteOption(opts, i) \in Seq(Byte)
    BY WritesOption
  <2>2. QED
    BY <1>1, <2>1
<1>3. WriteOptions(opts) = FlattenSeq(ss)
  BY <1>1, Zenon DEF WriteOptions
<1> HIDE DEF ss
<1>4. Flat!FlattenSeq(ss) = FlattenSeq(ss)
  BY Zenon DEF Flat!FlattenSeq, FlattenSeq
<1>5. FlattenSeq(ss) \in Seq(Byte) /\ \E off : Flat!Layout(ss, FlattenSeq(ss), off)
  BY <1>2, <1>4, Flat!FlattenLayout, Zenon
<1>6. QED
  BY <1>3, <1>5, Zenon DEF ss

-------------------------------------------------------------------------------
(*                         The encoding of a request                         *)

\* How a request lies in its encoding m: option k ends at off[k].
Placed(p, m, off) ==
    LET opts == Options(p)
        n == Len(opts)
    IN  /\ off \in [0 .. n -> Nat] /\ off[0] = 0
        /\ m[1] = 65 /\ m[2] = p.method
        /\ m[3] = (p.msg_id \div 256) % 256 /\ m[4] = p.msg_id % 256
        /\ \A k \in 1 .. n :
              /\ off[k] = off[k - 1] + Len(WriteOption(opts, k))
              /\ off[k] <= off[n]
              /\ \A j \in 1 .. Len(WriteOption(opts, k)) :
                    m[5 + off[k - 1] + j] = WriteOption(opts, k)[j]
        /\ p.payload = <<>> => Len(m) = 5 + off[n]
        /\ p.payload # <<>> =>
              /\ Len(m) = 5 + off[n] + 1 + Len(p.payload)
              /\ m[5 + off[n] + 1] = PAYLOAD_MARKER
              /\ \A j \in 1 .. Len(p.payload) : m[5 + off[n] + 1 + j] = p.payload[j]

\* encode_request places a request so.
LEMMA EncodedPlaced ==
    ASSUME NEW p \in RequestParams
    PROVE  \E off : Placed(p, encode_request(p), off)
<1> DEFINE opts == Options(p)
           n == Len(opts)
           ss == [i \in 1 .. n |-> WriteOption(opts, i)]
           f == WriteOptions(opts)
           pl == p.payload
           t == IF pl = <<>> THEN <<>> ELSE <<PAYLOAD_MARKER>> \o pl
           m == encode_request(p)
<1>1. Ordered(opts, 11, 27) /\ n \in Nat
  <2>1. Ordered(opts, 11, 27)
    BY OptionsShape
  <2>2. QED
    BY <2>1 DEF Ordered
<1>2. f \in Seq(Byte) /\ \E off : Flat!Layout(ss, f, off)
  BY <1>1, WrittenLayout, Zenon
<1>3. PICK off : Flat!Layout(ss, f, off)
  BY <1>2
<1> DEFINE W(k) == WriteOption(opts, k)
<1>4. Len(ss) = n /\ \A i \in 1 .. n : ss[i] = W(i)
  BY <1>1
<1>5. /\ off \in [0 .. n -> Nat] /\ off[0] = 0 /\ Len(f) = off[n]
      /\ \A k \in 1 .. n : /\ off[k] = off[k - 1] + Len(W(k))
                           /\ off[k] <= Len(f)
                           /\ \A j \in 1 .. Len(W(k)) : f[off[k - 1] + j] = W(k)[j]
  <2> HIDE DEF ss, f, W, n
  <2>1. off \in [0 .. n -> Nat] /\ off[0] = 0 /\ Len(f) = off[n]
    BY <1>3, <1>4, Zenon DEF Flat!Layout
  <2>2. ASSUME NEW k \in 1 .. n
        PROVE  /\ off[k] = off[k - 1] + Len(W(k))
               /\ off[k] <= Len(f)
               /\ \A j \in 1 .. Len(W(k)) : f[off[k - 1] + j] = W(k)[j]
    <3>1. ss[k] = W(k) /\ k \in 1 .. Len(ss)
      BY <1>4, Zenon
    <3>2. /\ off[k] = off[k - 1] + Len(ss[k])
          /\ off[k] <= Len(f)
          /\ \A j \in 1 .. Len(ss[k]) : f[off[k - 1] + j] = ss[k][j]
      BY <1>3, <3>1, Zenon DEF Flat!Layout
    <3>3. QED
      BY <3>1, <3>2, Zenon
  <2>3. QED
    BY <2>1, <2>2, Zenon
<1>6. /\ p.method \in Byte /\ p.msg_id \in Nat /\ p.token \in Byte /\ pl \in Seq(Byte)
  <2>1. p.method \in {1, 2, 3, 4, 5, 7} /\ p.msg_id \in U16 /\ p.token \in Byte /\ pl \in Seq(Byte)
    BY DEF RequestParams
  <2>2. p.msg_id \in Nat
    BY <2>1, SMT DEF U16
  <2>3. QED
    BY <2>1, <2>2 DEF Byte
<1> DEFINE h1 == <<65, p.method>>
           h2 == be16(p.msg_id)
           h3 == <<p.token>>
           h == h1 \o h2 \o h3
<1>7. m = h \o f \o t
  <2>1. 64 * VERSION + 1 = 65
    BY DEF VERSION
  <2>2. QED
    BY <2>1, Zenon DEF encode_request
<1>8. /\ h \in Seq(Byte) /\ Len(h) = 5 /\ h[1] = 65 /\ h[2] = p.method
      /\ h[3] = (p.msg_id \div 256) % 256 /\ h[4] = p.msg_id % 256
  <2>1. 65 \in Byte
    BY DEF Byte
  <2>2. h1 \in Seq(Byte) /\ Len(h1) = 2 /\ h1[1] = 65 /\ h1[2] = p.method
    BY <1>6, <2>1
  <2>3. /\ h2 \in Seq(Byte) /\ Len(h2) = 2
        /\ h2[1] = (p.msg_id \div 256) % 256 /\ h2[2] = p.msg_id % 256
    BY <1>6, Be16Bytes
  <2>4. h3 \in Seq(Byte) /\ Len(h3) = 1
    BY <1>6
  <2> HIDE DEF h1, h2, h3
  <2> DEFINE g == h1 \o h2
  <2>5. /\ g \in Seq(Byte) /\ Len(g) = 4 /\ g[1] = h1[1] /\ g[2] = h1[2]
        /\ g[2 + 1] = h2[1] /\ g[2 + 2] = h2[2]
    <3>1. h1 \in Seq(Byte) /\ h2 \in Seq(Byte)
      BY <2>2, <2>3
    <3>2. /\ g \in Seq(Byte) /\ Len(g) = Len(h1) + Len(h2)
          /\ \A i \in 1 .. Len(h1) : g[i] = h1[i]
          /\ \A i \in 1 .. Len(h2) : g[Len(h1) + i] = h2[i]
      BY <3>1, CatSeqs
    <3>3. Len(h1) = 2 /\ Len(h2) = 2
      BY <2>2, <2>3
    <3> HIDE DEF g
    <3>4. QED
      BY <3>2, <3>3
  <2> HIDE DEF g
  <2>6. /\ g \o h3 \in Seq(Byte) /\ Len(g \o h3) = 5 /\ \A i \in 1 .. 4 : (g \o h3)[i] = g[i]
    <3>1. g \in Seq(Byte) /\ h3 \in Seq(Byte)
      BY <2>4, <2>5
    <3>2. /\ g \o h3 \in Seq(Byte) /\ Len(g \o h3) = Len(g) + Len(h3)
          /\ \A i \in 1 .. Len(g) : (g \o h3)[i] = g[i]
      BY <3>1, CatSeqs
    <3>3. Len(g) = 4 /\ Len(h3) = 1
      BY <2>4, <2>5
    <3>4. QED
      BY <3>2, <3>3
  <2>7. h = g \o h3
    BY Zenon DEF g
  <2> HIDE DEF h
  <2>8. h \in Seq(Byte) /\ Len(h) = 5 /\ h[1] = g[1] /\ h[2] = g[2] /\ h[3] = g[3] /\ h[4] = g[4]
    BY <2>6, <2>7
  <2>9. QED
    BY <2>2, <2>3, <2>5, <2>8
<1>9. /\ t \in Seq(Byte)
      /\ pl = <<>> => Len(t) = 0
      /\ pl # <<>> => /\ Len(t) = 1 + Len(pl) /\ t[1] = PAYLOAD_MARKER
                      /\ \A j \in 1 .. Len(pl) : t[1 + j] = pl[j]
  <2>1. CASE pl = <<>>
    BY <2>1
  <2>2. CASE pl # <<>>
    <3> DEFINE b == <<PAYLOAD_MARKER>>
    <3>1. b \in Seq(Byte) /\ Len(b) = 1 /\ b[1] = PAYLOAD_MARKER
      BY DEF PAYLOAD_MARKER, Byte
    <3>2. t = b \o pl
      BY <2>2, Zenon
    <3> HIDE DEF b, pl, t
    <3>3. b \in Seq(Byte) /\ pl \in Seq(Byte)
      BY <1>6, <3>1
    <3>4. /\ t \in Seq(Byte) /\ Len(t) = Len(b) + Len(pl)
          /\ \A i \in 1 .. Len(b) : t[i] = b[i]
          /\ \A i \in 1 .. Len(pl) : t[Len(b) + i] = pl[i]
      BY <3>2, <3>3, CatSeqs
    <3>5. t[1] = b[1]
      BY <3>1, <3>4
    <3>6. QED
      BY <2>2, <3>1, <3>4, <3>5
  <2>3. QED
    BY <2>1, <2>2
<1> HIDE DEF f, t, h, W, pl, n
<1> DEFINE hf == h \o f
<1>10. /\ hf \in Seq(Byte) /\ Len(hf) = 5 + Len(f)
       /\ \A i \in 1 .. 5 : hf[i] = h[i]
       /\ \A i \in 1 .. Len(f) : hf[5 + i] = f[i]
  <2>1. h \in Seq(Byte) /\ f \in Seq(Byte)
    BY <1>2, <1>8
  <2>2. /\ hf \in Seq(Byte) /\ Len(hf) = Len(h) + Len(f)
        /\ \A i \in 1 .. Len(h) : hf[i] = h[i]
        /\ \A i \in 1 .. Len(f) : hf[Len(h) + i] = f[i]
    BY <2>1, CatSeqs
  <2>3. Len(h) = 5
    BY <1>8
  <2> HIDE DEF hf
  <2>4. QED
    BY <2>2, <2>3
<1> HIDE DEF hf
<1>11. /\ Len(hf \o t) = Len(hf) + Len(t)
       /\ \A i \in 1 .. Len(hf) : (hf \o t)[i] = hf[i]
       /\ \A i \in 1 .. Len(t) : (hf \o t)[Len(hf) + i] = t[i]
  <2>1. hf \in Seq(Byte) /\ t \in Seq(Byte)
    BY <1>9, <1>10
  <2>2. QED
    BY <2>1, CatSeqs
<1>12. m = hf \o t
  BY <1>7, Zenon DEF hf
<1> HIDE DEF m
<1>13. /\ Len(m) = 5 + Len(f) + Len(t)
       /\ \A i \in 1 .. 5 : m[i] = h[i]
       /\ \A i \in 1 .. Len(f) : m[5 + i] = f[i]
       /\ \A i \in 1 .. Len(t) : m[5 + Len(f) + i] = t[i]
  <2>1. Len(f) \in Nat /\ Len(hf) = 5 + Len(f)
    BY <1>2, <1>10
  <2>2. \A i \in 1 .. 5 : i \in 1 .. Len(hf)
    BY <2>1
  <2>3. \A i \in 1 .. Len(f) : 5 + i \in 1 .. Len(hf)
    BY <2>1
  <2>4. /\ Len(m) = Len(hf) + Len(t)
        /\ \A i \in 1 .. Len(hf) : m[i] = hf[i]
        /\ \A i \in 1 .. Len(t) : m[Len(hf) + i] = t[i]
    BY <1>11, <1>12, Zenon
  <2>5. QED
    BY <1>10, <2>1, <2>2, <2>3, <2>4
<1>14. /\ m[1] = 65 /\ m[2] = p.method
       /\ m[3] = (p.msg_id \div 256) % 256 /\ m[4] = p.msg_id % 256
  <2>1. m[1] = h[1] /\ m[2] = h[2] /\ m[3] = h[3] /\ m[4] = h[4]
    BY <1>13
  <2>2. QED
    BY <1>8, <2>1
<1>15. ASSUME NEW k \in 1 .. n
       PROVE  /\ off[k] = off[k - 1] + Len(W(k)) /\ off[k] <= off[n]
              /\ \A j \in 1 .. Len(W(k)) : m[5 + off[k - 1] + j] = W(k)[j]
  <2>1. W(k) \in Seq(Byte) /\ Len(W(k)) \in Nat
    <3>1. W(k) \in Seq(Byte)
      BY <1>1, WritesOption DEF W, n
    <3>2. QED
      BY <3>1
  <2>2. k - 1 \in 0 .. n /\ k \in 0 .. n
    BY <1>1
  <2>3. off[k - 1] \in Nat /\ off[k] \in Nat
    BY <1>5, <2>2
  <2>4. ASSUME NEW j \in 1 .. Len(W(k)) PROVE m[5 + off[k - 1] + j] = W(k)[j]
    <3>1. off[k - 1] + j \in 1 .. Len(f)
      BY <1>2, <1>5, <2>1, <2>3
    <3>2. m[5 + (off[k - 1] + j)] = f[off[k - 1] + j]
      BY <1>13, <3>1
    <3>3. f[off[k - 1] + j] = W(k)[j]
      BY <1>5
    <3>4. 5 + (off[k - 1] + j) = 5 + off[k - 1] + j
      BY <2>3
    <3>5. QED
      BY <3>2, <3>3, <3>4
  <2>5. QED
    BY <1>5, <2>4
<1>16. pl = <<>> => Len(m) = 5 + off[n]
  BY <1>2, <1>5, <1>9, <1>13
<1>17. pl # <<>> => /\ Len(m) = 5 + off[n] + 1 + Len(pl)
                    /\ m[5 + off[n] + 1] = PAYLOAD_MARKER
                    /\ \A j \in 1 .. Len(pl) : m[5 + off[n] + 1 + j] = pl[j]
  <2>1. SUFFICES ASSUME pl # <<>>
                 PROVE  /\ Len(m) = 5 + off[n] + 1 + Len(pl)
                        /\ m[5 + off[n] + 1] = PAYLOAD_MARKER
                        /\ \A j \in 1 .. Len(pl) : m[5 + off[n] + 1 + j] = pl[j]
    OBVIOUS
  <2>2. Len(f) = off[n] /\ Len(f) \in Nat /\ Len(pl) \in Nat
    BY <1>2, <1>5, <1>6
  <2>3. Len(t) = 1 + Len(pl) /\ t[1] = PAYLOAD_MARKER /\ \A j \in 1 .. Len(pl) : t[1 + j] = pl[j]
    BY <1>9, <2>1
  <2>4. m[5 + Len(f) + 1] = t[1]
    <3>1. 1 \in 1 .. Len(t)
      BY <2>2, <2>3
    <3>2. QED
      BY <1>13, <3>1
  <2>5. ASSUME NEW j \in 1 .. Len(pl) PROVE m[5 + Len(f) + 1 + j] = pl[j]
    <3>1. 1 + j \in 1 .. Len(t) /\ 5 + Len(f) + (1 + j) = 5 + Len(f) + 1 + j
      <4>1. Len(t) = 1 + Len(pl) /\ Len(f) \in Nat /\ Len(pl) \in Nat
        BY <2>2, <2>3
      <4>2. QED
        BY <4>1
    <3>2. m[5 + Len(f) + (1 + j)] = t[1 + j]
      BY <1>13, <3>1
    <3>3. QED
      BY <2>3, <3>1, <3>2
  <2>6. Len(m) = 5 + Len(f) + 1 + Len(pl)
    <3>1. Len(t) = 1 + Len(pl) /\ Len(m) = 5 + Len(f) + Len(t)
      BY <1>13, <2>3
    <3>2. Len(f) \in Nat /\ Len(pl) \in Nat
      BY <2>2
    <3>3. QED
      BY <3>1, <3>2
  <2>7. QED
    BY <2>2, <2>3, <2>4, <2>5, <2>6, Zenon
<1>18. Placed(p, m, off)
  BY <1>5, <1>14, <1>15, <1>16, <1>17, Zenon DEF Placed, W, n, pl
<1>19. QED
  BY <1>18, Zenon DEF m

-------------------------------------------------------------------------------
(*                           What parse has decoded                          *)

\* The first k options have one of that number.
Seen(opts, k, num) == \E j \in 1 .. k : Num(opts, j) = num

\* What parse has decoded of the request p after k options, and at the end.
Partial(p, k) ==
    [msg_type |-> "Con", code |-> p.method, msg_id |-> p.msg_id,
     content_format |-> IF Seen(Options(p), k, OPT_CONTENT_FORMAT) THEN p.content_format ELSE None,
     block1 |-> IF Seen(Options(p), k, OPT_BLOCK1) THEN p.block1 ELSE None,
     block2 |-> IF Seen(Options(p), k, OPT_BLOCK2) THEN Block2(p) ELSE None,
     payload |-> <<>>]
Whole(p) ==
    [msg_type |-> "Con", code |-> p.method, msg_id |-> p.msg_id,
     content_format |-> p.content_format, block1 |-> p.block1,
     block2 |-> Block2(p), payload |-> p.payload]

\* parse stands behind the k-th option of the request p.
Behind(p, off, k) ==
    /\ pos = 5 + off[k]
    /\ prev_opt_num = Previous(Options(p), k + 1)
    /\ parsed = Partial(p, k)

\* The inductive invariant of RoundTrip: in an encoded message, parse is always
\* at the beginning of an option that was written, or of what follows them.
RoundInv ==
    /\ input \in Messages
    /\ pc = "header" => prev_opt_num = 0
    /\ input.params # None =>
          /\ pc # "error"
          /\ pc = "options" => \E off : /\ Placed(input.params, msg, off)
                                        /\ \E k \in 0 .. Len(Options(input.params)) :
                                              Behind(input.params, off, k)
          /\ pc = "ok" => parsed = Whole(input.params)

\* An encoded message and what it was encoded from.
LEMMA Encoded ==
    ASSUME input \in Messages, input.params # None
    PROVE  /\ input.params \in RequestParams
           /\ msg = encode_request(input.params) /\ msg \in Seq(Byte)
BY MessagesAssumption DEF msg

\* One more option.
LEMMA SeenNext ==
    ASSUME NEW opts, NEW k \in Nat, NEW num
    PROVE  Seen(opts, k + 1, num) <=> Seen(opts, k, num) \/ Num(opts, k + 1) = num
<1>1. \A j : j \in 1 .. k + 1 <=> j \in 1 .. k \/ j = k + 1
  OBVIOUS
<1>2. QED
  BY <1>1, Zenon DEF Seen

\* All options have been seen at the end.
LEMMA SeenAll ==
    ASSUME NEW p \in RequestParams
    PROVE  [Partial(p, Len(Options(p))) EXCEPT !.payload = p.payload] = Whole(p)
<1> DEFINE opts == Options(p)
           n == Len(opts)
<1>1. \A num : (\E o : Has(opts, o) /\ o[1] = num) <=> Seen(opts, n, num)
  BY Zenon DEF Has, Seen, Num
<1>2. /\ \A o : Has(opts, o) =>
            (o[1] = 12 => p.content_format # None) /\ (o[1] = 27 => p.block1 # None)
      /\ p.content_format # None => \E o : Has(opts, o) /\ o[1] = 12
      /\ \E o : Has(opts, o) /\ o[1] = 23
      /\ p.block1 # None => \E o : Has(opts, o) /\ o[1] = 27
  BY OptionsShape, Zenon
<1> HIDE DEF opts, n
<1>3. /\ Seen(opts, n, 12) <=> p.content_format # None
      /\ Seen(opts, n, 23)
      /\ Seen(opts, n, 27) <=> p.block1 # None
  BY <1>1, <1>2, Zenon
<1>4. /\ (IF Seen(opts, n, 12) THEN p.content_format ELSE None) = p.content_format
      /\ (IF Seen(opts, n, 23) THEN Block2(p) ELSE None) = Block2(p)
      /\ (IF Seen(opts, n, 27) THEN p.block1 ELSE None) = p.block1
  BY <1>3, Zenon
<1>5. Partial(p, n) = [msg_type |-> "Con", code |-> p.method, msg_id |-> p.msg_id,
                       content_format |-> p.content_format, block1 |-> p.block1,
                       block2 |-> Block2(p), payload |-> <<>>]
  BY <1>4, Zenon DEF Partial, opts, OPT_CONTENT_FORMAT, OPT_BLOCK1, OPT_BLOCK2
<1>6. [Partial(p, n) EXCEPT !.payload = p.payload] = Whole(p)
  BY <1>5 DEF Whole
<1>7. QED
  BY <1>6, Zenon DEF n, opts

\* The value of an option goes where it came from.
LEMMA WithOptionReads ==
    ASSUME NEW p \in RequestParams, NEW k \in Nat, k < Len(Options(p)), parsed = Partial(p, k)
    PROVE  WithOption(Num(Options(p), k + 1), Val(Options(p), k + 1)) = Partial(p, k + 1)
<1> DEFINE opts == Options(p)
           num == Num(opts, k + 1)
           val == Val(opts, k + 1)
           S(x) == Seen(opts, k, x)
           T(x) == Seen(opts, k + 1, x)
<1>1. \A x : T(x) <=> S(x) \/ num = x
  BY SeenNext
<1>2. k + 1 \in 1 .. Len(opts) /\ Has(opts, opts[k + 1])
  <2>1. Len(opts) \in Nat
    BY OptionsShape DEF Ordered
  <2>2. k + 1 \in 1 .. Len(opts)
    BY <2>1
  <2>3. QED
    BY <2>2, Zenon DEF Has
<1>3. /\ num = 12 => p.content_format # None /\ val = opt_uint_encode(p.content_format)
      /\ num = 23 => val = opt_uint_encode(encode_value(Block2(p)))
      /\ num = 27 => p.block1 # None /\ val = opt_uint_encode(encode_value(p.block1))
  BY <1>2, OptionsShape, Zenon DEF Num, Val
<1>4. /\ p.content_format \in U16 \cup {None} /\ p.block1 \in Block \cup {None}
      /\ Block2(p) \in Block
  <2>1. p.content_format \in U16 \cup {None} /\ p.block1 \in Block \cup {None}
    BY DEF RequestParams
  <2>2. QED
    BY <2>1, OptionsShape
<1>5. num = 12 => u16(opt_uint_decode(val)) = p.content_format
  <2>1. SUFFICES ASSUME num = 12 PROVE u16(opt_uint_decode(val)) = p.content_format
    OBVIOUS
  <2>2. p.content_format \in U16 /\ p.content_format \in U32
    BY <1>3, <1>4, <2>1, U16InU32
  <2>3. opt_uint_decode(opt_uint_encode(p.content_format)) = p.content_format
    BY <2>2, UintRoundTrip
  <2>4. QED
    BY <1>3, <2>1, <2>2, <2>3, U16InU32
<1>6. num = 23 => decode_value(opt_uint_decode(val)) = Block2(p)
  BY <1>3, <1>4, BlockRoundTrip, UintRoundTrip
<1>7. num = 27 => decode_value(opt_uint_decode(val)) = p.block1
  BY <1>3, <1>4, BlockRoundTrip, UintRoundTrip
<1> DEFINE cf == p.content_format
           b1 == p.block1
           b2 == Block2(p)
           R(c, x, y) == [msg_type |-> "Con", code |-> p.method, msg_id |-> p.msg_id,
                          content_format |-> c, block1 |-> x, block2 |-> y, payload |-> <<>>]
           c0 == IF S(12) THEN cf ELSE None
           x0 == IF S(27) THEN b1 ELSE None
           y0 == IF S(23) THEN b2 ELSE None
           c1 == IF T(12) THEN cf ELSE None
           x1 == IF T(27) THEN b1 ELSE None
           y1 == IF T(23) THEN b2 ELSE None
<1>8. parsed = R(c0, x0, y0) /\ Partial(p, k + 1) = R(c1, x1, y1)
  BY Zenon DEF Partial, OPT_CONTENT_FORMAT, OPT_BLOCK1, OPT_BLOCK2
<1>9. /\ c1 = IF num = 12 THEN cf ELSE c0
      /\ x1 = IF num = 27 THEN b1 ELSE x0
      /\ y1 = IF num = 23 THEN b2 ELSE y0
  <2> HIDE DEF S, T, num, cf, b1, b2
  <2>1. QED
    BY <1>1
<1> DEFINE u == u16(opt_uint_decode(val))
           b == decode_value(opt_uint_decode(val))
<1>10. /\ num = 12 => WithOption(num, val) = [parsed EXCEPT !.content_format = u]
       /\ num = 23 => WithOption(num, val) = [parsed EXCEPT !.block2 = b]
       /\ num = 27 => WithOption(num, val) = [parsed EXCEPT !.block1 = b]
       /\ num \notin {12, 23, 27} => WithOption(num, val) = parsed
  <2> HIDE DEF num, val
  <2>1. QED
    BY DEF WithOption, OPT_CONTENT_FORMAT, OPT_BLOCK1, OPT_BLOCK2
<1> HIDE DEF c0, x0, y0, c1, x1, y1, num, val, cf, b1, b2, u, b
<1>11. /\ [R(c0, x0, y0) EXCEPT !.content_format = cf] = R(cf, x0, y0)
       /\ [R(c0, x0, y0) EXCEPT !.block1 = b1] = R(c0, b1, y0)
       /\ [R(c0, x0, y0) EXCEPT !.block2 = b2] = R(c0, x0, b2)
  OBVIOUS
<1> HIDE DEF R
<1>12. CASE num = 12
  <2>1. u = cf /\ c1 = cf /\ x1 = x0 /\ y1 = y0
    BY <1>5, <1>9, <1>12 DEF u, cf
  <2>2. QED
    BY <1>8, <1>10, <1>11, <1>12, <2>1, Zenon DEF num, val, opts
<1>13. CASE num = 23
  <2>1. b = b2 /\ c1 = c0 /\ x1 = x0 /\ y1 = b2
    BY <1>6, <1>9, <1>13 DEF b, b2
  <2>2. QED
    BY <1>8, <1>10, <1>11, <1>13, <2>1, Zenon DEF num, val, opts
<1>14. CASE num = 27
  <2>1. b = b1 /\ c1 = c0 /\ x1 = b1 /\ y1 = y0
    BY <1>7, <1>9, <1>14 DEF b, b1
  <2>2. QED
    BY <1>8, <1>10, <1>11, <1>14, <2>1, Zenon DEF num, val, opts
<1>15. CASE num \notin {12, 23, 27}
  <2>1. c1 = c0 /\ x1 = x0 /\ y1 = y0
    BY <1>9, <1>15
  <2>2. QED
    BY <1>8, <1>10, <1>15, <2>1, Zenon DEF num, val, opts
<1>16. QED
  BY <1>12, <1>13, <1>14, <1>15

-------------------------------------------------------------------------------
(*                          One option of a request                          *)

\* A parsed message with no options and no payload.
Header(t, c, m) ==
    [msg_type |-> t, code |-> c, msg_id |-> m, content_format |-> None,
     block1 |-> None, block2 |-> None, payload |-> <<>>]

\* The fields that the header fills in.
LEMMA EmptyHeader ==
    ASSUME NEW t, NEW c, NEW m
    PROVE  [Empty EXCEPT !.msg_type = t, !.code = c, !.msg_id = m] = Header(t, c, m)
<1>1. \A a, b, d, x : [Header(a, b, d) EXCEPT !.msg_type = x] = Header(x, b, d)
  BY DEF Header
<1>2. \A a, b, d, x : [Header(a, b, d) EXCEPT !.code = x] = Header(a, x, d)
  BY DEF Header
<1>3. \A a, b, d, x : [Header(a, b, d) EXCEPT !.msg_id = x] = Header(a, b, x)
  BY DEF Header
<1> DEFINE r == [Empty EXCEPT !.msg_type = t]
           s == [r EXCEPT !.code = c]
<1>4. r = Header(t, 0, 0)
  <2>1. Empty = Header("Con", 0, 0)
    BY DEF Empty, Header
  <2>2. [Header("Con", 0, 0) EXCEPT !.msg_type = t] = Header(t, 0, 0)
    BY <1>1
  <2>3. QED
    BY <2>1, <2>2
<1>5. s = Header(t, c, 0)
  <2> HIDE DEF r
  <2>1. [Header(t, 0, 0) EXCEPT !.code = c] = Header(t, c, 0)
    BY <1>2
  <2>2. QED
    BY <1>4, <2>1
<1>6. [s EXCEPT !.msg_id = m] = Header(t, c, m)
  <2> HIDE DEF s
  <2>1. [Header(t, c, 0) EXCEPT !.msg_id = m] = Header(t, c, m)
    BY <1>3
  <2>2. QED
    BY <1>5, <2>1
<1>7. QED
  BY <1>6, Zenon

\* The header of an encoded message is accepted, and leads to its options.
LEMMA RoundHeader ==
    ASSUME ParseInv, RoundInv, ParseHeader
    PROVE  RoundInv'
<1>1. pc = "header" /\ prev_opt_num = 0 /\ input \in Messages
  BY DEF RoundInv, ParseHeader
<1>2. input' = input /\ msg' = msg /\ pc' # "header"
  BY DEF ParseHeader, Fails, msg
<1>3. SUFFICES ASSUME input.params # None
               PROVE  /\ pc' = "options"
                      /\ \E off : /\ Placed(input.params, msg, off)
                                  /\ \E k \in 0 .. Len(Options(input.params)) :
                                        Behind(input.params, off, k)'
  <2>1. CASE input.params = None
    BY <1>1, <1>2, <2>1 DEF RoundInv
  <2>2. CASE input.params # None
    <3>1. /\ pc' = "options"
          /\ \E off : /\ Placed(input.params, msg, off)
                      /\ \E k \in 0 .. Len(Options(input.params)) :
                            Behind(input.params, off, k)'
      BY <1>3, <2>2
    <3>2. QED
      BY <1>1, <1>2, <3>1, Zenon DEF RoundInv, Behind
  <2>3. QED
    BY <2>1, <2>2
<1> DEFINE p == input.params
           n == Len(Options(p))
<1>4. p \in RequestParams /\ msg = encode_request(p) /\ msg \in Seq(Byte)
  BY <1>1, <1>3, Encoded
<1>5. PICK off : Placed(p, msg, off)
  BY <1>4, EncodedPlaced
<1>6. n \in Nat
  BY <1>4, OptionsShape DEF Ordered
<1>7. /\ At(0) = 65 /\ At(1) = p.method /\ At(2) = (p.msg_id \div 256) % 256
      /\ At(3) = p.msg_id % 256 /\ off[0] = 0
  BY <1>5 DEF Placed, At
<1>8. Len(msg) >= 5
  <2>1. off[n] \in Nat /\ Len(p.payload) \in Nat
    <3>1. off \in [0 .. n -> Nat] /\ p.payload \in Seq(Byte)
      BY <1>4, <1>5 DEF Placed, RequestParams
    <3>2. QED
      BY <1>6, <3>1
  <2>2. Len(msg) = 5 + off[n] \/ Len(msg) = 5 + off[n] + 1 + Len(p.payload)
    BY <1>5, Zenon DEF Placed
  <2> HIDE DEF n, p
  <2>3. QED
    BY <2>1, <2>2
<1>9. tkl = 1 /\ HeaderOK
  <2>1. At(0) \div 64 = 1 /\ At(0) % 16 = 1
    BY <1>7
  <2>2. Len(msg) \in Nat
    BY <1>4
  <2>3. tkl = 1
    BY <2>1 DEF tkl
  <2>4. QED
    BY <1>8, <2>1, <2>2, <2>3 DEF HeaderOK, VERSION
<1>10. /\ pc' = "options" /\ pos' = 4 + tkl /\ prev_opt_num' = prev_opt_num
       /\ parsed' = [Empty EXCEPT !.msg_type = from_bits(At(0) \div 16), !.code = At(1),
                                  !.msg_id = 256 * At(2) + At(3)]
  BY <1>9 DEF ParseHeader
<1>11. Behind(p, off, 0)'
  <2>1. pos' = 5 + off[0]
    BY <1>7, <1>9, <1>10
  <2>2. prev_opt_num' = Previous(Options(p), 0 + 1)
    BY <1>1, <1>10 DEF Previous
  <2>3. from_bits(At(0) \div 16) = "Con"
    <3>1. At(0) \div 16 = 4
      BY <1>7
    <3>2. QED
      BY <3>1 DEF from_bits
  <2>4. 256 * At(2) + At(3) = p.msg_id
    <3>1. p.msg_id \in Nat /\ p.msg_id <= 65535
      <4>1. p.msg_id \in U16
        BY <1>4 DEF RequestParams
      <4>2. QED
        BY <4>1, SMT DEF U16
    <3>2. QED
      BY <1>7, <3>1, TwoBytes
  <2>5. \A num : ~Seen(Options(p), 0, num)
    BY DEF Seen
  <2>6. Partial(p, 0) = Header("Con", p.method, p.msg_id)
    BY <2>5, Zenon DEF Partial, Header
  <2>7. parsed' = [Empty EXCEPT !.msg_type = "Con", !.code = p.method, !.msg_id = p.msg_id]
    BY <1>7, <1>10, <2>3, <2>4, Zenon
  <2>8. parsed' = Partial(p, 0)
    BY <2>6, <2>7, EmptyHeader, Zenon
  <2>9. QED
    BY <1>2, <2>1, <2>2, <2>8, Zenon DEF Behind
<1>12. 0 \in 0 .. n
  BY <1>6
<1>13. QED
  BY <1>5, <1>10, <1>11, <1>12, Zenon

\* Behind the k-th option there is the next one, or the end of the options.
LEMMA AtOption ==
    ASSUME ParseInv, RoundInv, pc = "options", NEW p, p = input.params, p # None,
           NEW off, Placed(p, msg, off), NEW k \in 0 .. Len(Options(p)), Behind(p, off, k),
           k < Len(Options(p))
    PROVE  /\ pos < Len(msg) /\ At(pos) # PAYLOAD_MARKER
           /\ ParseOption => pc' = "options" /\ input' = input /\ Behind(p, off, k + 1)'
<1> DEFINE opts == Options(p)
           n == Len(opts)
           d == Num(opts, k + 1) - Previous(opts, k + 1)
           v == Val(opts, k + 1)
           w == WriteOption(opts, k + 1)
<1>1. p \in RequestParams /\ msg \in Seq(Byte)
  BY Encoded DEF RoundInv
<1>2. Ordered(opts, 11, 27) /\ n \in Nat /\ k \in Nat /\ k + 1 \in 1 .. n /\ k + 1 - 1 = k
  <2>1. Ordered(opts, 11, 27)
    BY <1>1, OptionsShape
  <2>2. n \in Nat
    BY <2>1 DEF Ordered
  <2>3. QED
    BY <2>1, <2>2
<1>3. /\ Num(opts, k + 1) \in Nat /\ Num(opts, k + 1) <= 27
      /\ Previous(opts, k + 1) \in Nat /\ Previous(opts, k + 1) <= Num(opts, k + 1)
      /\ d \in U16 /\ v \in Seq(Byte) /\ Len(v) \in U16
      /\ w \in Seq(Byte) /\ w = opt_header(d, Len(v)) \o v
  BY <1>2, WritesOption
<1>4. /\ off[k + 1] = off[k] + Len(w) /\ off[k + 1] <= off[n]
      /\ \A j \in 1 .. Len(w) : msg[5 + off[k] + j] = w[j]
      /\ off \in [0 .. n -> Nat]
      /\ Len(msg) = 5 + off[n] \/ Len(msg) = 5 + off[n] + 1 + Len(p.payload)
  <2>1. /\ off \in [0 .. n -> Nat]
        /\ Len(msg) = 5 + off[n] \/ Len(msg) = 5 + off[n] + 1 + Len(p.payload)
    BY Zenon DEF Placed
  <2>2. \A i \in 1 .. n :
           /\ off[i] = off[i - 1] + Len(WriteOption(opts, i))
           /\ off[i] <= off[n]
           /\ \A j \in 1 .. Len(WriteOption(opts, i)) :
                 msg[5 + off[i - 1] + j] = WriteOption(opts, i)[j]
    BY Zenon DEF Placed
  <2>3. PICK i \in 1 .. n : i = k + 1 /\ i - 1 = k
    BY <1>2
  <2>4. /\ off[i] = off[i - 1] + Len(WriteOption(opts, i)) /\ off[i] <= off[n]
        /\ \A j \in 1 .. Len(WriteOption(opts, i)) :
              msg[5 + off[i - 1] + j] = WriteOption(opts, i)[j]
    BY <2>2, Zenon
  <2>5. QED
    BY <2>1, <2>3, <2>4, Zenon
<1>5. off[k] \in Nat /\ off[k + 1] \in Nat /\ off[n] \in Nat /\ Len(p.payload) \in Nat
  <2>1. p.payload \in Seq(Byte)
    BY <1>1 DEF RequestParams
  <2>2. k \in 0 .. n /\ k + 1 \in 0 .. n /\ n \in 0 .. n
    BY <1>2
  <2>3. Len(p.payload) \in Nat
    BY <2>1
  <2> HIDE DEF n
  <2>4. QED
    BY <1>4, <2>2, <2>3
<1>6. pos = 5 + off[k] /\ prev_opt_num = Previous(opts, k + 1) /\ parsed = Partial(p, k)
  BY DEF Behind
<1>7. pos + Len(w) <= Len(msg) /\ Len(w) \in Nat /\ pos \in Nat
  <2>1. Len(w) \in Nat
    BY <1>3
  <2> DEFINE a == off[k]
             b == off[k + 1]
             c == off[n]
             x == Len(p.payload)
             y == Len(w)
  <2>2. /\ a \in Nat /\ b \in Nat /\ c \in Nat /\ x \in Nat /\ y \in Nat
        /\ b = a + y /\ b <= c /\ pos = 5 + a
        /\ Len(msg) = 5 + c \/ Len(msg) = 5 + c + 1 + x
    BY <1>4, <1>5, <1>6, <2>1, Zenon
  <2> HIDE DEF a, b, c, x, y
  <2>3. pos + y <= Len(msg) /\ pos \in Nat
    BY <2>2
  <2>4. QED
    BY <2>1, <2>3 DEF y
<1>8. ASSUME NEW j \in 1 .. Len(w) PROVE At(pos + j - 1) = w[j]
  <2>1. pos + j - 1 + 1 = 5 + off[k] + j
    BY <1>5, <1>6, <1>7
  <2>2. QED
    BY <1>4, <2>1 DEF At
<1> DEFINE delta == Extended(At(pos) \div 16, pos + 1)
           len == Extended(At(pos) % 16, delta.next)
<1> HIDE DEF d, v, w, opts, n
<1>9. /\ pos < Len(msg) /\ At(pos) # PAYLOAD_MARKER
      /\ delta.ok /\ len.ok /\ delta.val = d
      /\ len.next + len.val = pos + Len(w)
      /\ SubSeq(msg, len.next + 1, len.next + len.val) = v
  <2>1. /\ msg \in Seq(Byte) /\ d \in U16 /\ v \in Seq(Byte) /\ Len(v) \in U16
        /\ pos \in Nat /\ w = opt_header(d, Len(v)) \o v /\ pos + Len(w) <= Len(msg)
    BY <1>1, <1>3, <1>7
  <2>2. \A j \in 1 .. Len(w) : At(pos + j - 1) = w[j]
    BY <1>8
  <2>3. QED
    BY <2>1, <2>2, OptionReads, Zenon
<1>10. ASSUME ParseOption PROVE pc' = "options" /\ input' = input /\ Behind(p, off, k + 1)'
  <2>1. TakeOption(delta, len)
    <3>1. len.next + len.val <= Len(msg)
      BY <1>7, <1>9
    <3>2. QED
      BY <1>9, <1>10, <3>1, Zenon DEF ParseOption
  <2> HIDE DEF delta, len
  <2>2. /\ parsed' = WithOption(u16(prev_opt_num + delta.val),
                                SubSeq(msg, len.next + 1, len.next + len.val))
        /\ pos' = len.next + len.val
        /\ prev_opt_num' = u16(prev_opt_num + delta.val)
        /\ input' = input /\ pc' = pc
    BY <2>1 DEF TakeOption
  <2>3. u16(prev_opt_num + d) = Num(opts, k + 1)
    <3> DEFINE a == Num(opts, k + 1)
               q == Previous(opts, k + 1)
    <3>1. a \in Nat /\ a <= 27 /\ q \in Nat /\ q + (a - q) = a
      BY <1>3
    <3>2. prev_opt_num + d = q + (a - q)
      BY <1>6 DEF d
    <3> HIDE DEF a, q
    <3>3. u16(a) = a
      BY <3>1, SMT DEF u16
    <3>4. QED
      BY <3>1, <3>2, <3>3 DEF a
  <2>4. parsed' = WithOption(Num(opts, k + 1), v) /\ prev_opt_num' = Num(opts, k + 1)
    BY <1>9, <2>2, <2>3, Zenon
  <2>5. parsed' = Partial(p, k + 1)
    BY <1>1, <1>2, <1>6, <2>4, WithOptionReads DEF opts, v
  <2>6. pos' = 5 + off[k + 1]
    BY <1>4, <1>5, <1>6, <1>7, <1>9, <2>2
  <2>7. prev_opt_num' = Previous(opts, k + 1 + 1)
    <3>1. PICK i \in Nat : i = k + 1 + 1 /\ i # 1 /\ i - 1 = k + 1
      BY <1>2
    <3>2. Previous(opts, i) = opts[i - 1][1]
      BY <3>1, Zenon DEF Previous
    <3>3. QED
      BY <2>4, <3>1, <3>2, Zenon DEF Num
  <2>8. QED
    BY <2>2, <2>5, <2>6, <2>7, Zenon DEF Behind, opts
<1>11. QED
  BY <1>9, <1>10, Zenon

-------------------------------------------------------------------------------
(*                               The round trip                              *)

\* At the end of the options there is the payload, if there is one.
LEMMA AtPayload ==
    ASSUME ParseInv, RoundInv, pc = "options", NEW p, p = input.params, p # None,
           NEW off, Placed(p, msg, off), Behind(p, off, Len(Options(p)))
    PROVE  /\ p.payload = <<>> => pos = Len(msg) /\ parsed = Whole(p)
           /\ p.payload # <<>> =>
                /\ pos + 1 < Len(msg) /\ At(pos) = PAYLOAD_MARKER
                /\ SubSeq(msg, pos + 2, Len(msg)) = p.payload
                /\ [parsed EXCEPT !.payload = p.payload] = Whole(p)
<1> DEFINE n == Len(Options(p))
           x == off[n]
           pl == p.payload
<1>1. p \in RequestParams /\ msg \in Seq(Byte)
  BY Encoded DEF RoundInv
<1>2. pl \in Seq(Byte) /\ x \in Nat
  <2>1. n \in Nat
    BY <1>1, OptionsShape DEF Ordered
  <2>2. off \in [0 .. n -> Nat] /\ pl \in Seq(Byte)
    BY <1>1 DEF Placed, RequestParams
  <2> HIDE DEF n
  <2>3. QED
    BY <2>1, <2>2
<1>3. pos = 5 + x /\ parsed = Partial(p, n)
  BY Zenon DEF Behind
<1>4. /\ pl = <<>> => Len(msg) = 5 + x
      /\ pl # <<>> => /\ Len(msg) = 5 + x + 1 + Len(pl)
                      /\ msg[5 + x + 1] = PAYLOAD_MARKER
                      /\ \A j \in 1 .. Len(pl) : msg[5 + x + 1 + j] = pl[j]
  BY Zenon DEF Placed
<1>5. [parsed EXCEPT !.payload = pl] = Whole(p)
  BY <1>1, <1>3, SeenAll
<1>6. ASSUME pl = <<>> PROVE pos = Len(msg) /\ parsed = Whole(p)
  <2>1. parsed.payload = <<>> /\ parsed \in ParsedMessage
    BY DEF ParseInv
  <2>2. [parsed EXCEPT !.payload = <<>>] = parsed
    BY <2>1 DEF ParsedMessage
  <2>3. QED
    BY <1>3, <1>4, <1>5, <1>6, <2>2
<1>7. ASSUME pl # <<>>
      PROVE  /\ pos + 1 < Len(msg) /\ At(pos) = PAYLOAD_MARKER
             /\ SubSeq(msg, pos + 2, Len(msg)) = pl
  <2> DEFINE z == SubSeq(msg, pos + 2, Len(msg))
             y == Len(pl)
  <2>1. y \in Nat /\ y # 0
    BY <1>2, <1>7
  <2>2. Len(msg) = 5 + x + 1 + y /\ \A j \in 1 .. y : msg[5 + x + 1 + j] = pl[j]
    BY <1>4, <1>7
  <2>3. At(pos) = PAYLOAD_MARKER
    BY <1>3, <1>4, <1>7 DEF At
  <2> HIDE DEF x, y, pl
  <2>4. pos \in Nat /\ pos + 1 < Len(msg) /\ Len(msg) = pos + 1 + y
    BY <1>2, <1>3, <2>1, <2>2
  <2>5. z \in Seq(Byte) /\ Len(z) = y /\ \A j \in 1 .. y : z[j] = msg[pos + 1 + j]
    BY <1>1, <2>1, <2>4
  <2> HIDE DEF z
  <2>6. \A j \in 1 .. y : z[j] = pl[j]
    BY <1>3, <2>2, <2>5
  <2>7. z = pl
    BY <1>2, <2>5, <2>6, SeqEqual DEF y
  <2>8. QED
    BY <2>3, <2>4, <2>7 DEF z
<1>8. QED
  BY <1>5, <1>6, <1>7, Zenon

\* Every step among the options of an encoded message stays on its options, or
\* ends with the whole request.
LEMMA RoundOptions ==
    ASSUME ParseInv, RoundInv, ParsePayload \/ ParseOption \/ ParseEnd
    PROVE  RoundInv'
<1>1. pc = "options" /\ input \in Messages
  BY DEF RoundInv, ParsePayload, ParseOption, ParseEnd
<1>2. input' = input /\ msg' = msg /\ pc' # "header"
  BY <1>1 DEF ParsePayload, ParseOption, TakeOption, ParseEnd, Fails, msg
<1>3. CASE input.params = None
  BY <1>1, <1>2, <1>3 DEF RoundInv
<1>4. CASE input.params # None
  <2> DEFINE p == input.params
             n == Len(Options(p))
  <2>1. PICK off : Placed(p, msg, off) /\ \E k \in 0 .. n : Behind(p, off, k)
    BY <1>1, <1>4 DEF RoundInv
  <2>2. PICK k \in 0 .. n : Behind(p, off, k)
    BY <2>1
  <2>3. n \in Nat
    <3>1. p \in RequestParams
      BY <1>1, <1>4, Encoded
    <3>2. QED
      BY <3>1, OptionsShape DEF Ordered
  <2>4. pos \in Nat /\ Len(msg) \in Nat
    BY DEF ParseInv
  <2>5. CASE k < n
    <3>1. /\ pos < Len(msg) /\ At(pos) # PAYLOAD_MARKER
          /\ ParseOption => pc' = "options" /\ input' = input /\ Behind(p, off, k + 1)'
      BY <1>1, <1>4, <2>1, <2>2, <2>5, AtOption
    <3>2. ParseOption
      BY <2>4, <3>1 DEF ParsePayload, ParseEnd
    <3>3. pc' = "options" /\ Behind(p, off, k + 1)'
      BY <3>1, <3>2
    <3>4. k + 1 \in 0 .. n
      BY <2>3, <2>5
    <3>5. Placed(p', msg', off) /\ \E i \in 0 .. Len(Options(p')) : Behind(p, off, i)'
      BY <1>2, <2>1, <3>3, <3>4, Zenon
    <3>6. QED
      BY <1>1, <1>2, <3>3, <3>5 DEF RoundInv
  <2>6. CASE k = n
    <3>1. /\ p.payload = <<>> => pos = Len(msg) /\ parsed = Whole(p)
          /\ p.payload # <<>> =>
               /\ pos + 1 < Len(msg) /\ At(pos) = PAYLOAD_MARKER
               /\ SubSeq(msg, pos + 2, Len(msg)) = p.payload
               /\ [parsed EXCEPT !.payload = p.payload] = Whole(p)
      BY <1>1, <1>4, <2>1, <2>2, <2>6, AtPayload
    <3>2. CASE p.payload = <<>>
      <4>1. ParseEnd
        BY <2>4, <3>1, <3>2 DEF ParsePayload, ParseOption
      <4>2. pc' = "ok" /\ parsed' = Whole(p)
        BY <3>1, <3>2, <4>1 DEF ParseEnd
      <4>3. QED
        BY <1>1, <1>2, <4>2, Zenon DEF RoundInv
    <3>3. CASE p.payload # <<>>
      <4>1. pos < Len(msg) /\ ~(pos + 1 >= Len(msg)) /\ ~(pos >= Len(msg))
        BY <2>4, <3>1, <3>3
      <4>2. ParsePayload
        BY <3>1, <3>3, <4>1 DEF ParseOption, ParseEnd
      <4>3. pc' = "ok" /\ parsed' = [parsed EXCEPT !.payload = SubSeq(msg, pos + 2, Len(msg))]
        BY <4>1, <4>2 DEF ParsePayload
      <4>4. parsed' = Whole(p)
        BY <3>1, <3>3, <4>3
      <4>5. QED
        BY <1>1, <1>2, <4>3, <4>4, Zenon DEF RoundInv
    <3>4. QED
      BY <3>2, <3>3
  <2>7. QED
    BY <2>3, <2>5, <2>6
<1>5. QED
  BY <1>3, <1>4

\* parse undoes encode_request, for every request: whatever segments its uri
\* has, whichever options are there, and however long their values are.
THEOREM RequestsRoundTrip == Spec => []RoundTrip
<1>1. Init => RoundInv
  BY DEF Init, RoundInv
<1>2. ParseInv /\ RoundInv /\ [parse]_vars => RoundInv'
  <2>1. SUFFICES ASSUME ParseInv, RoundInv, [parse]_vars PROVE RoundInv'
    OBVIOUS
  <2>2. CASE parse
    BY <2>1, <2>2, RoundHeader, RoundOptions DEF parse
  <2>3. CASE UNCHANGED vars
    BY <2>1, <2>3, Zenon DEF vars, RoundInv, Behind, msg
  <2>4. QED
    BY <2>1, <2>2, <2>3
<1>3. RoundInv => RoundTrip
  BY Zenon DEF RoundInv, RoundTrip, Whole, Block2
<1>4. QED
  BY <1>1, <1>2, <1>3, ParseInvariant, PTL DEF Spec

===============================================================================
