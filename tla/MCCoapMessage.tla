--------------------------- MODULE MCCoapMessage ---------------------------
EXTENDS CoapMessage

Segment(n) == [i \in 1 .. n |-> 97]
BlockOf(num, more) == [num |-> num, more |-> more, szx |-> 6]

\* Requests whose segments need no extension, the shortest and the longest of
\* one byte, and one of two, and whose block values need none to four bytes.
MCParams ==
    [method : {5}, msg_id : {258}, token : {7},
     path : {<<>>} \cup {<<Segment(n)>> : n \in {1, 12, 13, 268, 269}}
            \cup {<<Segment(1), Segment(13)>>},
     query : {<<>>, <<Segment(3), Segment(14)>>},
     content_format : {None, 0, 141}, accept : {None, 142},
     block1 : {None, BlockOf(1, TRUE), BlockOf(4096, FALSE)},
     block2 : {[num |-> 0, more |-> FALSE, szx |-> 0]}
              \cup {BlockOf(n, FALSE) : n \in {15, 4095, 1048575, 1048576}},
     payload : {<<>>, <<255, 0>>}]

\* Bytes that stand for every kind of option header: no option, Content-Format,
\* one and two bytes of extension for the delta and for the length, a reserved
\* nibble, and the marker.
MCBytes == {0, 1, 194, 209, 225, 29, 30, 240, 255}

\* Headers with and without a token, with up to four bytes after them, so that
\* no option value has more than three; and headers that are cut off, have a
\* wrong version or a token length that is too large.
Strings == UNION {[1 .. n -> MCBytes] : n \in 0 .. 4}
BadHeaders == {<<96, 69, 1>>, <<128, 69, 1, 2>>, <<105, 69, 1, 2>>, <<98, 69, 1, 2, 0>>}

MCMessages ==
    {[msg |-> encode_request(p), params |-> p] : p \in MCParams}
    \cup {[msg |-> h \o s, params |-> None] :
              h \in {<<64, 69, 1, 2>>, <<97, 69, 1, 2>>}, s \in Strings}
    \cup {[msg |-> h, params |-> None] : h \in BadHeaders}
=============================================================================
