---------------------------- MODULE CoapMessage ----------------------------
(***************************************************************************)
(* CoAP messages on the wire (coap/src/message.rs): encode_request, and    *)
(* parse as a machine that takes one option after the other off the        *)
(* message.  Bytes are 0 .. 255 and numbers have the code's width.  Sums   *)
(* of 16-bit numbers wrap around, as in a release build; a build that      *)
(* checks for overflow panics instead.                                     *)
(*                                                                         *)
(* A URI is given as the segments of its path and of its query, each the   *)
(* bytes of a string that is not empty: `uri` has been split at `?`, and   *)
(* its parts at `/` and `&`.                                               *)
(***************************************************************************)
EXTENDS Integers, Sequences, SequencesExt

CONSTANTS
    Messages,  \* what is parsed: [msg, params] pairs, see Input
    None       \* an absent option; the params of a message nobody encoded

VERSION == 1
OPT_URI_PATH == 11
OPT_CONTENT_FORMAT == 12
OPT_URI_QUERY == 15
OPT_ACCEPT == 17
OPT_BLOCK2 == 23
OPT_BLOCK1 == 27
PAYLOAD_MARKER == 255

u16(n) == n % 65536

\* The type bits of a message's first byte.
from_bits(b) == <<"Con", "Non", "Ack", "Rst">>[(b % 4) + 1]

\* u16::to_be_bytes.
be16(n) == <<(n \div 256) % 256, n % 256>>
high(n) == n \div 65536

Byte == 0 .. 255
U16 == {n \in Nat : n <= 65535}
U24 == {n \in Nat : n <= 16777215}
BlockNum == {n \in Nat : n <= 268435455}  \* 28 bits of 32
Block == [num : BlockNum, more : BOOLEAN, szx : 0 .. 7]

\* RequestParams, with the segments of its uri; an option is at most as long as
\* its 16-bit length can tell.
RequestParams ==
    [method : {1, 2, 3, 4, 5, 7}, msg_id : U16, token : Byte,
     path : Seq({s \in Seq(Byte) : Len(s) \in U16 \ {0}}),
     query : Seq({s \in Seq(Byte) : Len(s) \in U16 \ {0}}),
     content_format : U16 \cup {None}, accept : U16 \cup {None},
     block1 : Block \cup {None}, block2 : Block, payload : Seq(Byte)]

-----------------------------------------------------------------------------
(* Encoding.                                                               *)

opt_uint_encode(val) ==
    CASE val = 0 -> <<>>
      [] val \in Byte \ {0} -> <<val>>
      [] val \in U16 \ Byte -> be16(val)
      [] val \in U24 \ U16 -> <<high(val)>> \o be16(val)
      [] OTHER -> be16(high(val)) \o be16(val)

opt_uint_decode(val) ==
    CASE Len(val) = 1 -> val[1]
      [] Len(val) = 2 -> 256 * val[1] + val[2]
      [] Len(val) = 3 -> 65536 * val[1] + 256 * val[2] + val[3]
      [] Len(val) = 4 -> 16777216 * val[1] + 65536 * val[2] + 256 * val[3] + val[4]
      [] OTHER -> 0

encode_value(block) ==
    block.num * 16 + (IF block.more THEN 8 ELSE 0) + (block.szx % 8)

decode_value(raw) ==
    [num |-> raw \div 16, more |-> (raw \div 8) % 2 = 1, szx |-> raw % 8]

\* Mutant: 269 is taken to fit one byte of extension.
Nibble_Late(n) == IF n < 13 THEN n ELSE IF n <= 269 THEN 13 ELSE 14

\* How a delta or a length is written: in the nibble, or in bytes after it.
Nibble(n) == IF n < 13 THEN n ELSE IF n < 269 THEN 13 ELSE 14
Extension(n) ==
    CASE Nibble(n) = 13 -> <<(n - 13) % 256>>
      [] Nibble(n) = 14 -> be16(n - 269)
      [] OTHER -> <<>>

opt_header(delta, length) ==
    <<16 * Nibble(delta) + Nibble(length)>> \o Extension(delta) \o Extension(length)

\* The options of a request, in the order they are written: <<number, value>>.
UintOption(num, val) == IF val = None THEN <<>> ELSE << <<num, opt_uint_encode(val)>> >>
SegmentOptions(num, segs) == [i \in DOMAIN segs |-> <<num, segs[i]>>]
BlockOption(num, block) ==
    IF block = None THEN <<>> ELSE << <<num, opt_uint_encode(encode_value(block))>> >>

Options(p) ==
    SegmentOptions(OPT_URI_PATH, p.path)
    \o UintOption(OPT_CONTENT_FORMAT, p.content_format)
    \o SegmentOptions(OPT_URI_QUERY, p.query)
    \o UintOption(OPT_ACCEPT, p.accept)
    \o BlockOption(OPT_BLOCK2, [p.block2 EXCEPT !.more = FALSE])
    \o BlockOption(OPT_BLOCK1, p.block1)

\* Writer::opt: the number is written as the difference to the one before.
Previous(opts, i) == IF i = 1 THEN 0 ELSE opts[i - 1][1]
WriteOption(opts, i) ==
    opt_header(opts[i][1] - Previous(opts, i), Len(opts[i][2])) \o opts[i][2]
WriteOptions(opts) == FlattenSeq([i \in DOMAIN opts |-> WriteOption(opts, i)])

encode_request(p) ==
    <<64 * VERSION + 1, p.method>> \o be16(p.msg_id) \o <<p.token>>
    \o WriteOptions(Options(p))
    \o (IF p.payload = <<>> THEN <<>> ELSE <<PAYLOAD_MARKER>> \o p.payload)

\* What is parsed is any string of bytes, or the encoding of a request.
ASSUME MessagesAssumption ==
    /\ None \notin U16 /\ None \notin Block
    /\ \A m \in Messages :
          /\ m.msg \in Seq(Byte)
          /\ m.params # None =>
               m.params \in RequestParams /\ m.msg = encode_request(m.params)

-----------------------------------------------------------------------------
(* Parsing.                                                                *)

VARIABLES
    input,         \* the message, and the params it was encoded from
    pc,            \* "header", "options", and how parse returned
    pos,           \* index of the next byte, from 0
    prev_opt_num,
    parsed         \* the ParsedMessage so far

vars == <<input, pc, pos, prev_opt_num, parsed>>

msg == input.msg
At(i) == msg[i + 1]

Empty == [msg_type |-> "Con", code |-> 0, msg_id |-> 0, content_format |-> None,
          block1 |-> None, block2 |-> None, payload |-> <<>>]

Init ==
    /\ input \in Messages
    /\ pc = "header" /\ pos = 0 /\ prev_opt_num = 0
    /\ parsed = Empty

Fails ==
    /\ pc' = "error"
    /\ UNCHANGED <<input, pos, prev_opt_num, parsed>>

tkl == At(0) % 16
HeaderOK == /\ Len(msg) >= 4
            /\ At(0) \div 64 = VERSION
            /\ tkl <= 8 /\ 4 + tkl <= Len(msg)

ParseHeader ==
    /\ pc = "header"
    /\ IF ~HeaderOK THEN Fails
       ELSE /\ pc' = "options"
            /\ pos' = 4 + tkl
            /\ parsed' = [Empty EXCEPT !.msg_type = from_bits(At(0) \div 16),
                                       !.code = At(1),
                                       !.msg_id = 256 * At(2) + At(3)]
            /\ UNCHANGED <<input, prev_opt_num>>

ParsePayload ==
    /\ pc = "options" /\ pos < Len(msg) /\ At(pos) = PAYLOAD_MARKER
    /\ IF pos + 1 >= Len(msg) THEN Fails
       ELSE /\ pc' = "ok"
            /\ pos' = pos + 1
            /\ parsed' = [parsed EXCEPT !.payload = SubSeq(msg, pos + 2, Len(msg))]
            /\ UNCHANGED <<input, prev_opt_num>>

\* The value of a nibble whose extension, if it has one, is at index i: not
\* ok if it is reserved or the extension is cut off, and where to go on.
Extended(nibble, i) ==
    CASE nibble < 13 -> [ok |-> TRUE, val |-> nibble, next |-> i]
      [] nibble = 13 /\ i < Len(msg) ->
           [ok |-> TRUE, val |-> At(i) + 13, next |-> i + 1]
      [] nibble = 14 /\ i + 1 < Len(msg) ->
           [ok |-> TRUE, val |-> u16(256 * At(i) + At(i + 1) + 269), next |-> i + 2]
      [] OTHER -> [ok |-> FALSE, val |-> 0, next |-> i]

WithOption(num, val) ==
    CASE num = OPT_CONTENT_FORMAT ->
           [parsed EXCEPT !.content_format = u16(opt_uint_decode(val))]
      [] num = OPT_BLOCK2 -> [parsed EXCEPT !.block2 = decode_value(opt_uint_decode(val))]
      [] num = OPT_BLOCK1 -> [parsed EXCEPT !.block1 = decode_value(opt_uint_decode(val))]
      [] OTHER -> parsed

TakeOption(delta, len) ==
    LET num == u16(prev_opt_num + delta.val)
    IN  /\ parsed' = WithOption(num, SubSeq(msg, len.next + 1, len.next + len.val))
        /\ pos' = len.next + len.val
        /\ prev_opt_num' = num
        /\ UNCHANGED <<input, pc>>

\* Mutant: an option may be longer than the message.
ParseOption_NoLimit ==
    /\ pc = "options" /\ pos < Len(msg) /\ At(pos) # PAYLOAD_MARKER
    /\ LET delta == Extended(At(pos) \div 16, pos + 1)
           len == Extended(At(pos) % 16, delta.next)
       IN  IF ~delta.ok \/ ~len.ok THEN Fails
           ELSE IF len.next + len.val <= Len(msg) THEN TakeOption(delta, len)
           ELSE /\ pos' = len.next + len.val
                /\ UNCHANGED <<input, pc, prev_opt_num, parsed>>

ParseOption ==
    /\ pc = "options" /\ pos < Len(msg) /\ At(pos) # PAYLOAD_MARKER
    /\ LET delta == Extended(At(pos) \div 16, pos + 1)
           len == Extended(At(pos) % 16, delta.next)
       IN  IF delta.ok /\ len.ok /\ len.next + len.val <= Len(msg)
           THEN TakeOption(delta, len) ELSE Fails

ParseEnd ==
    /\ pc = "options" /\ pos >= Len(msg)
    /\ pc' = "ok"
    /\ UNCHANGED <<input, pos, prev_opt_num, parsed>>

parse == ParseHeader \/ ParsePayload \/ ParseOption \/ ParseEnd

Spec == Init /\ [][parse]_vars

-----------------------------------------------------------------------------
(* Properties.                                                             *)

\* The type invariant: what parse has decoded fits the fields' widths.
TypeOK ==
    /\ pc \in {"header", "options", "ok", "error"}
    /\ pos \in 0 .. Len(msg)
    /\ prev_opt_num \in U16
    /\ parsed.msg_id \in U16
    /\ parsed.content_format \in U16 \cup {None}
    /\ \A b \in {parsed.block1, parsed.block2} \ {None} :
          b.num \in Nat /\ b.more \in BOOLEAN /\ b.szx \in 0 .. 7

\* parse undoes encode_request: whatever segments the URI has, whichever
\* options are there and however long their values are, the message is
\* accepted, and type, message id, content format, both blocks and the payload
\* come back as they were given.
RoundTrip ==
    input.params # None =>
        LET p == input.params
        IN  /\ pc # "error"
            /\ pc = "ok" => parsed = [msg_type |-> "Con", code |-> p.method,
                                      msg_id |-> p.msg_id,
                                      content_format |-> p.content_format,
                                      block1 |-> p.block1,
                                      block2 |-> [p.block2 EXCEPT !.more = FALSE],
                                      payload |-> p.payload]

\* Whatever bytes a message consists of, parse accepts it only if its header,
\* options and payload cover it exactly: no option is cut off by the end of the
\* message, and nothing between the marker and the end is left out.
AcceptsWholeMessages ==
    pc = "ok" => /\ parsed.payload = <<>> => pos = Len(msg)
                 /\ parsed.payload # <<>> =>
                      pos + Len(parsed.payload) = Len(msg) /\ At(pos - 1) = PAYLOAD_MARKER
=============================================================================
