---------------------------- MODULE MCEncodings ----------------------------
(***************************************************************************)
(* The byte-level encodings, each checked on its own inputs: CoAP          *)
(* messages, CBOR, the MUP1 checksums and base64.                          *)
(***************************************************************************)
EXTENDS MCCoapMessage, Cbor, Checksum, Base64

VARIABLE encoding \* which of them this behaviour is about
encVars == <<encoding, vars, cborVars, sumVars>>

-----------------------------------------------------------------------------
(* CBOR.                                                                   *)

\* Arguments on both sides of every change of width, up to 2^64 - 1.
MCArgs == {<<>>, <<23>>, <<24>>, <<255>>, <<1, 0>>, <<255, 255>>, <<1, 0, 0>>,
           <<255, 255, 255, 255>>, <<1, 0, 0, 0, 0>>, [i \in 1 .. 8 |-> 255]}
MCScalars ==
    {<<"Integer", neg, arg>> : neg \in BOOLEAN, arg \in MCArgs}
    \cup {Bytes(Segment(n)) : n \in {0, 23, 24}} \cup {Text(Segment(n)) : n \in {0, 1, 24}}
    \cup {Bool(TRUE), Bool(FALSE), Null}
MCInner == {Integer(0), Integer(-25), Text(<<97>>), Bytes(<<255>>), Null}
MCNested ==
    {Array(s) : s \in UNION {[1 .. n -> MCInner] : n \in 0 .. 2}}
    \cup {MapV(s) : s \in UNION {[1 .. n -> {<<a, b>> : a, b \in MCInner}] : n \in 0 .. 1}}
    \cup {Tag(44, v) : v \in MCInner}
    \cup {Array([i \in 1 .. 24 |-> Null])}
MCValues ==
    MCScalars \cup MCNested
    \cup {Array(<<v, Null>>) : v \in MCNested}
    \cup {MapV(<< <<Integer(1), v>>, <<Integer(-1), Null>> >>) : v \in MCNested}
    \cup {Tag(300, v) : v \in MCNested}

\* Bytes for every kind of head: small and wide arguments, a reserved width,
\* strings, containers and tags of one item, their indefinite-length forms,
\* simple values, a float and the break.
MCHeads == {0, 24, 28, 32, 65, 95, 97, 127, 129, 159, 161, 191, 193, 246, 249, 255}
MCHeads4 == {0, 65, 95, 129, 159, 161, 191, 255}

MCCborInputs ==
    LET Cuts(vs) == LET b == normalize_cbor_seq(vs)
                    IN {[values |-> vs, bytes |-> SubSeq(b, 1, n)] : n \in 0 .. Len(b)}
    IN  UNION {Cuts(<<v>>) : v \in MCValues}
        \cup UNION {Cuts(<<v, w>>) : v \in MCScalars, w \in MCInner}
        \cup {[values |-> <<>>, bytes |-> b] :
                b \in UNION {[1 .. n -> MCHeads] : n \in 0 .. 3} \cup [1 .. 4 -> MCHeads4]}

-----------------------------------------------------------------------------
MCSumByte == {0, 1, 127, 255}

\* base64_decode undoes base64_encode, and white space and the padding's absence
\* make no difference to it (codec.rs leaves out both before it decodes).
Base64RoundTrip ==
    LET text == base64_encode(fed)
        spaced == FlattenSeq([i \in DOMAIN text |-> <<text[i], SPACE>>])
    IN  /\ Len(text) = 4 * ((Len(fed) + 2) \div 3)
        /\ base64_decode(text) = fed
        /\ base64_decode(SelectSeq(spaced, LAMBDA c : c # PAD)) = fed

MCIdle(e) ==
    /\ e # "coap" => input = [msg |-> <<>>, params |-> None] /\ pc = "error"
                     /\ pos = 0 /\ prev_opt_num = 0 /\ parsed = Empty
    /\ e # "cbor" => sent = <<>> /\ cborBytes = <<>> /\ cborPos = 0
                     /\ items = <<>> /\ cborResult = "failed"
    /\ e # "sum" => ChecksumInit

MCEncInit ==
    \/ encoding = "coap" /\ Init /\ MCIdle("coap")
    \/ encoding = "cbor" /\ CborInit /\ MCIdle("cbor")
    \/ encoding = "sum" /\ ChecksumInit /\ MCIdle("sum")

MCEncNext ==
    \/ encoding = "coap" /\ parse /\ UNCHANGED <<encoding, cborVars, sumVars>>
    \/ encoding = "cbor" /\ cbor_seq_from_bytes /\ UNCHANGED <<encoding, vars, sumVars>>
    \/ encoding = "sum" /\ ChecksumNext /\ UNCHANGED <<encoding, vars, cborVars>>

MCEncSpec == MCEncInit /\ [][MCEncNext]_encVars
=============================================================================
