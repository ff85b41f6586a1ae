-------------------------- MODULE Mup1ClientProofs --------------------------
(***************************************************************************)
(* Proofs about the MUP1 client of Mup1Client: what poll hands to on_frame *)
(* is what the device wrote, for every traffic, alphabet, buffer size and  *)
(* cut of the line into reads.                                             *)
(***************************************************************************)
EXTENDS Mup1Client, Mup1FrameProofs

-----------------------------------------------------------------------------
(* Sequences, joined and mapped.                                           *)

\* Sequences of bytes, kept folded where they are elements of sequences.
Piece == Check!Strings(Byte)

\* A piece of the line is a sequence of bytes.
LEMMA PieceIs == Piece = Seq(Byte)
BY DEF Piece, Check!Strings

Item == [type_byte : Byte \cup {TYPE_RAW}, data : Seq(Byte)]

\* The elements of two sequences, one after the other.
LEMMA CatElements ==
    ASSUME NEW S, NEW a \in Seq(S), NEW b \in Seq(S)
    PROVE  /\ a \o b \in Seq(S) /\ Len(a \o b) = Len(a) + Len(b)
           /\ \A i \in 1 .. Len(a) : (a \o b)[i] = a[i]
           /\ \A i \in 1 .. Len(b) : (a \o b)[Len(a) + i] = b[i]
OBVIOUS

\* It does not matter which of three sequences are joined first.
LEMMA CatAssoc ==
    ASSUME NEW S, NEW a \in Seq(S), NEW b \in Seq(S), NEW c \in Seq(S)
    PROVE  (a \o b) \o c = a \o (b \o c)
OBVIOUS

\* The same, folded.
Joins(a, b, c) == (a \o b) \o c = a \o (b \o c)

\* Any three sequences are joined so.
LEMMA CatJoins ==
    ASSUME NEW S, NEW a \in Seq(S), NEW b \in Seq(S), NEW c \in Seq(S)
    PROVE  Joins(a, b, c)
BY CatAssoc DEF Joins

\* Sequences of one and of two elements.
LEMMA PairSeq ==
    ASSUME NEW S, NEW x \in S, NEW y \in S
    PROVE  /\ <<x>> \in Seq(S) /\ <<y>> \in Seq(S) /\ <<x, y>> \in Seq(S)
           /\ <<x, y>> = <<x>> \o <<y>>
<1>1. <<x>> \in Seq(S) /\ <<y>> \in Seq(S) /\ <<x, y>> \in Seq(S)
  OBVIOUS
<1>2. PICK a \in Seq(S), b \in Seq(S), c \in Seq(S) : a = <<x>> /\ b = <<y>> /\ c = <<x, y>>
  BY <1>1, Zenon
<1>3. Len(a) = 1 /\ Len(b) = 1 /\ Len(c) = 2 /\ a[1] = x /\ b[1] = y /\ c[1] = x /\ c[2] = y
  BY <1>2
<1>4. c = a \o b
  <2>1. /\ Len(c) = Len(a) + Len(b) /\ \A k \in 1 .. Len(a) : c[k] = a[k]
        /\ \A k \in 1 .. Len(b) : c[Len(a) + k] = b[k]
    BY <1>3
  <2> QED BY <2>1, Check!IsJoin
<1> QED BY <1>1, <1>2, <1>4, Zenon

\* FlattenSeq is the one FoldTheorems is about.
LEMMA FlattenBridge == \A ss : Check!FlattenSeq(ss) = FlattenSeq(ss)
BY Zenon DEF Check!FlattenSeq, FlattenSeq

\* Joining the pieces of the line.
LEMMA FlatPieces ==
    /\ FlattenSeq(<<>>) = <<>>
    /\ \A x \in Piece : FlattenSeq(<<x>>) = x
    /\ \A ss \in Seq(Piece) : FlattenSeq(ss) \in Seq(Byte)
    /\ \A ss, tt \in Seq(Piece) :
          FlattenSeq(ss \o tt) = FlattenSeq(ss) \o FlattenSeq(tt)
BY FlattenBridge, Check!FlattenCat DEF Piece

\* The parts of a sequence of items, for the mapping h of items of X.
LEMMA PartsAre ==
    ASSUME NEW X, NEW h, NEW m, NEW s \in Seq(X),
           DOMAIN m = DOMAIN s, m = [i \in DOMAIN s |-> m[i]],
           \A i \in DOMAIN s : m[i] = h[s[i]]
    PROVE  FlattenSeq(m) = Check!Parts(h, s)
<1>1. m = [i \in DOMAIN s |-> h[s[i]]]
  OBVIOUS
<1> QED BY <1>1, FlattenBridge, Zenon DEF Check!Parts, Check!Mapped

\* What the device writes, as bytes.
AllBytes(ws) == FlattenSeq([i \in DOMAIN ws |-> Bytes(ws[i])])

\* The traffic is made of items.
LEMMA WritesAreItems == Writes \subseteq Item
BY TrafficAssumption DEF Item

\* The bytes of writes, one write after the other.
LEMMA AllBytesCat ==
    /\ AllBytes(<<>>) = <<>>
    /\ \A x \in Writes : AllBytes(<<x>>) = Bytes(x)
    /\ \A s \in Seq(Writes) : AllBytes(s) \in Seq(Byte)
    /\ \A s, t \in Seq(Writes) : AllBytes(s \o t) = AllBytes(s) \o AllBytes(t)
<1> DEFINE h == [x \in Writes |-> Bytes(x)]
<1>1. \A x \in Writes : h[x] = Bytes(x)
  OBVIOUS
<1>2. Check!Maps(h, Writes, Check!Strings(Byte))
  BY TrafficAssumption DEF Check!Maps, Check!Strings
<1> HIDE DEF h
<1>3. ASSUME NEW s \in Seq(Writes) PROVE AllBytes(s) = Check!Parts(h, s)
  <2> DEFINE m == [i \in DOMAIN s |-> Bytes(s[i])]
  <2>1. \A i \in DOMAIN s : m[i] = h[s[i]]
    BY <1>1
  <2>2. DOMAIN m = DOMAIN s /\ m = [i \in DOMAIN s |-> m[i]]
    OBVIOUS
  <2>3. AllBytes(s) = FlattenSeq(m)
    BY Zenon DEF AllBytes
  <2> HIDE DEF m
  <2> QED BY <2>1, <2>2, <2>3, PartsAre
<1>4. /\ <<>> \in Seq(Writes) /\ \A x \in Writes : <<x>> \in Seq(Writes)
      /\ \A s, t \in Seq(Writes) : s \o t \in Seq(Writes)
  OBVIOUS
<1>5. /\ Check!Parts(h, <<>>) = <<>>
      /\ \A x \in Writes : Check!Parts(h, <<x>>) = h[x]
      /\ \A s \in Seq(Writes) : Check!Parts(h, s) \in Seq(Byte)
      /\ \A s, t \in Seq(Writes) :
           Check!Parts(h, s \o t) = Check!Parts(h, s) \o Check!Parts(h, t)
  BY <1>2, Check!PartsCat
<1>6. AllBytes(<<>>) = <<>> /\ \A x \in Writes : AllBytes(<<x>>) = Bytes(x)
  BY <1>1, <1>3, <1>4, <1>5
<1>7. \A s \in Seq(Writes) : AllBytes(s) \in Seq(Byte)
  BY <1>3, <1>5
<1>8. ASSUME NEW s \in Seq(Writes), NEW t \in Seq(Writes)
      PROVE  AllBytes(s \o t) = AllBytes(s) \o AllBytes(t)
  BY <1>3, <1>4, <1>5
<1> QED BY <1>6, <1>7, <1>8

FrameOf(w) == IF IsFrame(w) THEN <<w>> ELSE <<>>
TextOf(w) == IF IsFrame(w) THEN <<>> ELSE w.data

\* The frames among items.
LEMMA FramesCat ==
    /\ Frames(<<>>) = <<>>
    /\ \A x \in Item : Frames(<<x>>) = FrameOf(x)
    /\ \A s \in Seq(Item) : Frames(s) \in Seq(Item)
    /\ \A s, t \in Seq(Item) : Frames(s \o t) = Frames(s) \o Frames(t)
<1> DEFINE h == [x \in Item |-> FrameOf(x)]
<1>1. \A x \in Item : h[x] = FrameOf(x)
  OBVIOUS
<1>2. Check!Maps(h, Item, Check!Strings(Item))
  BY DEF Check!Maps, Check!Strings, FrameOf
<1> HIDE DEF h
<1>3. ASSUME NEW s \in Seq(Item) PROVE Frames(s) = Check!Parts(h, s)
  <2> DEFINE m == [i \in DOMAIN s |-> IF IsFrame(s[i]) THEN <<s[i]>> ELSE <<>>]
  <2>1. \A i \in DOMAIN s : m[i] = h[s[i]]
    BY <1>1 DEF FrameOf
  <2>2. DOMAIN m = DOMAIN s /\ m = [i \in DOMAIN s |-> m[i]]
    OBVIOUS
  <2>3. Frames(s) = FlattenSeq(m)
    BY Zenon DEF Frames
  <2> HIDE DEF m
  <2> QED BY <2>1, <2>2, <2>3, PartsAre
<1>4. /\ <<>> \in Seq(Item) /\ \A x \in Item : <<x>> \in Seq(Item)
      /\ \A s, t \in Seq(Item) : s \o t \in Seq(Item)
  OBVIOUS
<1>5. /\ Check!Parts(h, <<>>) = <<>>
      /\ \A x \in Item : Check!Parts(h, <<x>>) = h[x]
      /\ \A s \in Seq(Item) : Check!Parts(h, s) \in Seq(Item)
      /\ \A s, t \in Seq(Item) :
           Check!Parts(h, s \o t) = Check!Parts(h, s) \o Check!Parts(h, t)
  <2>1. Check!Parts(h, <<>>) = <<>> /\ \A x \in Item : Check!Parts(h, <<x>>) = h[x]
    BY <1>2, Check!PartsCat
  <2>2. \A s \in Seq(Item) : Check!Parts(h, s) \in Seq(Item)
    BY <1>2, Check!PartsCat
  <2>3. ASSUME NEW s \in Seq(Item), NEW t \in Seq(Item)
        PROVE  Check!Parts(h, s \o t) = Check!Parts(h, s) \o Check!Parts(h, t)
    BY <1>2, Check!PartsJoin
  <2> QED BY <2>1, <2>2, <2>3
<1>6. Frames(<<>>) = <<>> /\ \A x \in Item : Frames(<<x>>) = FrameOf(x)
  BY <1>1, <1>3, <1>4, <1>5
<1>7. \A s \in Seq(Item) : Frames(s) \in Seq(Item)
  BY <1>3, <1>5
<1>8. ASSUME NEW s \in Seq(Item), NEW t \in Seq(Item)
      PROVE  Frames(s \o t) = Frames(s) \o Frames(t)
  BY <1>3, <1>4, <1>5
<1> QED BY <1>6, <1>7, <1>8

\* The text among items.
LEMMA TextCat ==
    /\ Text(<<>>) = <<>>
    /\ \A x \in Item : Text(<<x>>) = TextOf(x)
    /\ \A s \in Seq(Item) : Text(s) \in Seq(Byte)
    /\ \A s, t \in Seq(Item) : Text(s \o t) = Text(s) \o Text(t)
<1> DEFINE h == [x \in Item |-> TextOf(x)]
<1>1. \A x \in Item : h[x] = TextOf(x)
  OBVIOUS
<1>2. Check!Maps(h, Item, Check!Strings(Byte))
  BY DEF Check!Maps, Check!Strings, TextOf, Item
<1> HIDE DEF h
<1>3. ASSUME NEW s \in Seq(Item) PROVE Text(s) = Check!Parts(h, s)
  <2> DEFINE m == [i \in DOMAIN s |-> IF IsFrame(s[i]) THEN <<>> ELSE s[i].data]
  <2>1. \A i \in DOMAIN s : m[i] = h[s[i]]
    BY <1>1 DEF TextOf
  <2>2. DOMAIN m = DOMAIN s /\ m = [i \in DOMAIN s |-> m[i]]
    OBVIOUS
  <2>3. Text(s) = FlattenSeq(m)
    BY Zenon DEF Text
  <2> HIDE DEF m
  <2> QED BY <2>1, <2>2, <2>3, PartsAre
<1>4. /\ <<>> \in Seq(Item) /\ \A x \in Item : <<x>> \in Seq(Item)
      /\ \A s, t \in Seq(Item) : s \o t \in Seq(Item)
  OBVIOUS
<1>5. /\ Check!Parts(h, <<>>) = <<>>
      /\ \A x \in Item : Check!Parts(h, <<x>>) = h[x]
      /\ \A s \in Seq(Item) : Check!Parts(h, s) \in Seq(Byte)
      /\ \A s, t \in Seq(Item) :
           Check!Parts(h, s \o t) = Check!Parts(h, s) \o Check!Parts(h, t)
  BY <1>2, Check!PartsCat
<1>6. Text(<<>>) = <<>> /\ \A x \in Item : Text(<<x>>) = TextOf(x)
  BY <1>1, <1>3, <1>4, <1>5
<1>7. \A s \in Seq(Item) : Text(s) \in Seq(Byte)
  BY <1>3, <1>5
<1>8. ASSUME NEW s \in Seq(Item), NEW t \in Seq(Item)
      PROVE  Text(s \o t) = Text(s) \o Text(t)
  BY <1>3, <1>4, <1>5
<1> QED BY <1>6, <1>7, <1>8

-----------------------------------------------------------------------------
(* Escaping.                                                               *)

\* The bytes that escaping may produce.
Wide == Byte \cup {ESCAPED_00, ESCAPED_FF}

EscapeOf(b) == IF needs_escape(b) THEN <<ESC, escape_byte(b)>> ELSE <<b>>

\* Escaping is byte by byte.
LEMMA EscapeCat ==
    /\ Escape(<<>>) = <<>>
    /\ \A x \in Byte : Escape(<<x>>) = EscapeOf(x)
    /\ \A s \in Seq(Byte) : Escape(s) \in Seq(Wide)
    /\ \A s, t \in Seq(Byte) : Escape(s \o t) = Escape(s) \o Escape(t)
<1> DEFINE h == [x \in Byte |-> EscapeOf(x)]
<1>1. \A x \in Byte : h[x] = EscapeOf(x)
  OBVIOUS
<1>2. Check!Maps(h, Byte, Check!Strings(Wide))
  <2>1. \A b \in Byte : escape_byte(b) \in Wide
    BY Zenon DEF escape_byte, Wide
  <2>2. ASSUME NEW b \in Byte PROVE EscapeOf(b) \in Seq(Wide)
    <3>1. b \in Wide /\ ESC \in Wide /\ escape_byte(b) \in Wide
      BY <2>1, ByteAssumption DEF Wide
    <3>2. <<b>> \in Seq(Wide) /\ <<ESC, escape_byte(b)>> \in Seq(Wide)
      BY <3>1
    <3> QED BY <3>2 DEF EscapeOf
  <2> QED BY <2>2 DEF Check!Maps, Check!Strings
<1> HIDE DEF h
<1>3. ASSUME NEW s \in Seq(Byte) PROVE Escape(s) = Check!Parts(h, s)
  <2> DEFINE m == [i \in DOMAIN s |-> IF needs_escape(s[i]) THEN <<ESC, escape_byte(s[i])>> ELSE <<s[i]>>]
  <2>1. \A i \in DOMAIN s : m[i] = h[s[i]]
    BY <1>1 DEF EscapeOf
  <2>2. DOMAIN m = DOMAIN s /\ m = [i \in DOMAIN s |-> m[i]]
    OBVIOUS
  <2>3. Escape(s) = FlattenSeq(m)
    BY Zenon DEF Escape
  <2> HIDE DEF m
  <2> QED BY <2>1, <2>2, <2>3, PartsAre
<1>4. /\ <<>> \in Seq(Byte) /\ \A x \in Byte : <<x>> \in Seq(Byte)
      /\ \A s, t \in Seq(Byte) : s \o t \in Seq(Byte)
  OBVIOUS
<1>5. /\ Check!Parts(h, <<>>) = <<>>
      /\ \A x \in Byte : Check!Parts(h, <<x>>) = h[x]
      /\ \A s \in Seq(Byte) : Check!Parts(h, s) \in Seq(Wide)
      /\ \A s, t \in Seq(Byte) :
           Check!Parts(h, s \o t) = Check!Parts(h, s) \o Check!Parts(h, t)
  BY <1>2, Check!PartsCat
<1>6. Escape(<<>>) = <<>> /\ \A x \in Byte : Escape(<<x>>) = EscapeOf(x)
  BY <1>1, <1>3, <1>4, <1>5
<1>7. \A s \in Seq(Byte) : Escape(s) \in Seq(Wide)
  BY <1>3, <1>5
<1>8. ASSUME NEW s \in Seq(Byte), NEW t \in Seq(Byte)
      PROVE  Escape(s \o t) = Escape(s) \o Escape(t)
  BY <1>3, <1>4, <1>5
<1> QED BY <1>6, <1>7, <1>8

\* Undoing the escapes of escaped data gives the data back, and what follows a
\* part of it that is not in the middle of an escape neither opens an attempt
\* nor ends the data.
EscapeGood(d) ==
    /\ Unescape(Escape(d)) = [out |-> d, esc |-> FALSE]
    /\ \A j \in 0 .. Len(Escape(d)) - 1 :
          \/ Unescape(SubSeq(Escape(d), 1, j)).esc
          \/ Escape(d)[j + 1] \notin {SOF, EOF}

\* What an escape stands for is the byte that was escaped.
LEMMA EscapeUndone == \A b \in Byte : needs_escape(b) => unescape_byte(escape_byte(b)) = b
BY DEF needs_escape, unescape_byte, escape_byte, SOF, EOF, ESC, ZERO, ONES, ESCAPED_00,
   ESCAPED_FF

\* The fields of what a byte string unescapes to.
LEMMA UnescapeParts ==
    ASSUME NEW x, NEW d, NEW e, Unescape(x) = [out |-> d, esc |-> e]
    PROVE  Unescape(x).out = d /\ Unescape(x).esc = e
OBVIOUS

\* Unescaping, before and after one byte.
LEMMA UnescapeCases ==
    ASSUME NEW x \in Seq(Byte), NEW d \in Seq(Byte), NEW b \in Byte, NEW e \in BOOLEAN,
           Unescape(x) = [out |-> d, esc |-> e]
    PROVE  Unescape(Append(x, b)) =
              IF e THEN [out |-> Append(d, unescape_byte(b)), esc |-> FALSE]
              ELSE IF b = ESC THEN [out |-> d, esc |-> TRUE]
              ELSE [out |-> Append(d, b), esc |-> FALSE]
<1>1. Unescape(Append(x, b)) = UnescapeStep(Unescape(x), b)
  BY UnescapeAppend
<1>2. Unescape(x).out = d /\ Unescape(x).esc = e
  OBVIOUS
<1> QED BY <1>1, <1>2, Zenon DEF UnescapeStep

\* One byte more is escaped.
LEMMA EscapeGoodStep ==
    ASSUME NEW d \in Seq(Byte), NEW b \in Byte, Escape(Append(d, b)) \in Seq(Byte),
           Escape(d) \in Seq(Byte), EscapeGood(d)
    PROVE  EscapeGood(Append(d, b))
<1>1. Escape(Append(d, b)) = Escape(d) \o EscapeOf(b)
  <2>1. Append(d, b) = d \o <<b>> /\ <<b>> \in Seq(Byte)
    OBVIOUS
  <2> QED BY <2>1, EscapeCat
<1>2. PICK x \in Seq(Byte) : x = Escape(d)
  BY Zenon
<1>3. PICK z \in Seq(Byte) : z = Escape(Append(d, b))
  BY Zenon
<1>4. /\ Unescape(x) = [out |-> d, esc |-> FALSE]
      /\ \A j \in 0 .. Len(x) - 1 : Unescape(SubSeq(x, 1, j)).esc \/ x[j + 1] \notin {SOF, EOF}
  BY <1>2, Zenon DEF EscapeGood
<1>5. SUFFICES /\ Unescape(z) = [out |-> Append(d, b), esc |-> FALSE]
               /\ \A j \in 0 .. Len(z) - 1 :
                    Unescape(SubSeq(z, 1, j)).esc \/ z[j + 1] \notin {SOF, EOF}
  BY <1>3, Zenon DEF EscapeGood
<1>6. Append(d, b) \in Seq(Byte) /\ FALSE \in BOOLEAN /\ TRUE \in BOOLEAN
  OBVIOUS
<1>7. CASE needs_escape(b)
  <2>1. PICK c : c = escape_byte(b)
    OBVIOUS
  <2>2. z = x \o <<ESC, c>>
    BY <1>1, <1>2, <1>3, <1>7, <2>1 DEF EscapeOf
  <2>3. c \in Byte /\ ESC \in Byte
    <3>1. Len(x) + 2 \in 1 .. Len(z) /\ z[Len(x) + 2] = c
      BY <2>2
    <3> QED BY <3>1, ByteAssumption
  <2>4. Append(x, ESC) \in Seq(Byte) /\ z = Append(Append(x, ESC), c)
    BY <2>2, <2>3
  <2>5. Unescape(Append(x, ESC)) = [out |-> d, esc |-> TRUE]
    BY <1>4, <1>6, <2>3, UnescapeCases
  <2>6. Unescape(z) = [out |-> Append(d, b), esc |-> FALSE]
    <3>0. PICK q \in Seq(Byte) : q = Append(x, ESC)
      BY <2>4, Zenon
    <3>1. Unescape(q) = [out |-> d, esc |-> TRUE]
      BY <2>5, <3>0, Zenon
    <3>2. Unescape(Append(q, c)) = [out |-> Append(d, unescape_byte(c)), esc |-> FALSE]
      <4>1. Unescape(Append(q, c)) = UnescapeStep(Unescape(q), c)
        BY <2>3, UnescapeAppend
      <4>2. Unescape(q).out = d /\ Unescape(q).esc = TRUE
        BY <3>1, UnescapeParts
      <4> QED BY <4>1, <4>2, Zenon DEF UnescapeStep
    <3>3. unescape_byte(c) = b
      BY <1>7, <2>1, EscapeUndone, Zenon
    <3> QED BY <2>4, <3>0, <3>2, <3>3, Zenon
  <2>7. ASSUME NEW j \in 0 .. Len(z) - 1
        PROVE  Unescape(SubSeq(z, 1, j)).esc \/ z[j + 1] \notin {SOF, EOF}
    <3>1. CASE j < Len(x)
      <4>1. j \in 0 .. Len(x) - 1 /\ SubSeq(z, 1, j) = SubSeq(x, 1, j) /\ z[j + 1] = x[j + 1]
        BY <2>2, <3>1
      <4> QED BY <1>4, <4>1
    <3>2. CASE j = Len(x)
      BY <2>2, <3>2 DEF SOF, EOF, ESC
    <3>3. CASE j > Len(x)
      <4>1. SubSeq(z, 1, j) = Append(x, ESC)
        BY <2>2, <3>3
      <4>2. Unescape(Append(x, ESC)).esc
        BY <2>5, UnescapeParts, Zenon
      <4> QED BY <4>1, <4>2, Zenon
    <3> QED BY <3>1, <3>2, <3>3
  <2> QED BY <2>6, <2>7
<1>8. CASE ~needs_escape(b)
  <2>1. z = Append(x, b)
    BY <1>1, <1>2, <1>3, <1>8 DEF EscapeOf
  <2>2. b \notin {SOF, EOF, ESC}
    BY <1>8, Zenon DEF needs_escape
  <2>3. Unescape(z) = [out |-> Append(d, b), esc |-> FALSE]
    BY <1>4, <1>6, <2>1, <2>2, UnescapeCases
  <2>4. ASSUME NEW j \in 0 .. Len(z) - 1
        PROVE  Unescape(SubSeq(z, 1, j)).esc \/ z[j + 1] \notin {SOF, EOF}
    <3>1. CASE j < Len(x)
      <4>1. j \in 0 .. Len(x) - 1 /\ SubSeq(z, 1, j) = SubSeq(x, 1, j) /\ z[j + 1] = x[j + 1]
        BY <2>1, <3>1
      <4> QED BY <1>4, <4>1
    <3>2. CASE j = Len(x)
      BY <2>1, <2>2, <3>2
    <3> QED BY <2>1, <3>1, <3>2
  <2> QED BY <2>3, <2>4
<1> QED BY <1>7, <1>8

\* So for all data that escapes to bytes.
LEMMA EscapeUndoes ==
    \A d \in Seq(Byte) : Escape(d) \in Seq(Byte) => EscapeGood(d)
<1> DEFINE I == {k \in Nat : \A d \in Seq(Byte) :
                    Len(d) = k /\ Escape(d) \in Seq(Byte) => EscapeGood(d)}
<1>1. 0 \in I
  <2> SUFFICES ASSUME NEW d \in Seq(Byte), Len(d) = 0 PROVE EscapeGood(d)
    OBVIOUS
  <2>1. d = <<>>
    BY EmptySeq
  <2>2. Escape(d) = <<>>
    BY <2>1, EscapeCat
  <2>3. Unescape(Escape(d)) = [out |-> d, esc |-> FALSE]
    BY <2>1, <2>2, UnescapeEmpty, Zenon DEF Nothing
  <2>4. 0 .. Len(Escape(d)) - 1 = {}
    BY <2>2
  <2> QED BY <2>3, <2>4 DEF EscapeGood
<1>2. ASSUME NEW k \in Nat, k \in I PROVE k + 1 \in I
  <2> SUFFICES ASSUME NEW t \in Seq(Byte), Len(t) = k + 1, Escape(t) \in Seq(Byte)
               PROVE  EscapeGood(t)
    OBVIOUS
  <2>1. PICK d \in Seq(Byte), b \in Byte : Len(d) = k /\ t = Append(d, b)
    <3>1. /\ SubSeq(t, 1, k) \in Seq(Byte) /\ Len(SubSeq(t, 1, k)) = k
          /\ t[k + 1] \in Byte
      OBVIOUS
    <3>2. t = Append(SubSeq(t, 1, k), t[k + 1])
      OBVIOUS
    <3> QED BY <3>1, <3>2
  <2>2. Escape(t) = Escape(d) \o EscapeOf(b)
    <3>1. Append(d, b) = d \o <<b>> /\ <<b>> \in Seq(Byte)
      OBVIOUS
    <3> QED BY <2>1, <3>1, EscapeCat
  <2>3. Escape(d) \in Seq(Byte)
    <3>1. Escape(d) \in Seq(Wide) /\ EscapeOf(b) \in Seq(Wide)
      <4>1. <<b>> \in Seq(Byte) /\ EscapeOf(b) = Escape(<<b>>)
        BY EscapeCat
      <4> QED BY <4>1, EscapeCat
    <3>2. ASSUME NEW x \in Seq(Wide), NEW y \in Seq(Wide), x \o y \in Seq(Byte)
          PROVE  x \in Seq(Byte)
      <4>1. \A i \in 1 .. Len(x) : (x \o y)[i] = x[i] /\ i \in 1 .. Len(x \o y)
        OBVIOUS
      <4>2. \A i \in 1 .. Len(x \o y) : (x \o y)[i] \in Byte
        BY <3>2, ElementOfSeq
      <4>3. \A i \in 1 .. Len(x) : x[i] \in Byte
        BY <4>1, <4>2
      <4> QED BY <4>3
    <3> QED BY <2>2, <3>1, <3>2
  <2>4. EscapeGood(d)
    BY <1>2, <2>1, <2>3
  <2> QED BY <2>1, <2>3, <2>4, EscapeGoodStep
<1>3. \A k \in Nat : k \in I
  <2> HIDE DEF I
  <2> QED BY <1>1, <1>2, Check!SetInduction
<1> SUFFICES ASSUME NEW d \in Seq(Byte), Escape(d) \in Seq(Byte) PROVE EscapeGood(d)
  OBVIOUS
<1>4. Len(d) \in Nat
  OBVIOUS
<1> QED BY <1>3, <1>4

-----------------------------------------------------------------------------
(* The bytes of a frame.                                                   *)

\* The parts of a frame: where its data ends, and its checksum.
Eofs1(w) == EofCount(Len(w.data))
DataEndsAt(w) == 2 + Len(Escape(w.data))
SumOf(w) == CsumFinalize(RunOver(w.type_byte, w.data, Eofs1(w)))

\* Where each part of the bytes b lies: h, t, the bytes x, n times f, the bytes c,
\* r and l.
LaidOut(b, h, t, x, n, f, c, r, l) ==
    /\ Len(b) = 2 + Len(x) + n + Len(c) + 2
    /\ b[1] = h /\ b[2] = t
    /\ \A i \in 1 .. Len(x) : b[2 + i] = x[i]
    /\ \A i \in 1 .. n : b[2 + Len(x) + i] = f
    /\ \A i \in 1 .. Len(c) : b[2 + Len(x) + n + i] = c[i]
    /\ b[Len(b) - 1] = r /\ b[Len(b)] = l

\* Parts that are joined lie one after the other.
LEMMA JoinLaysOut ==
    ASSUME NEW S, NEW h \in S, NEW t \in S, NEW x \in Seq(S), NEW f \in S,
           NEW c \in Seq(S), NEW r \in S, NEW l \in S
    PROVE  /\ LaidOut((<<h, t>> \o x \o <<f>>) \o (<<>> \o c \o <<r, l>>),
                      h, t, x, 1, f, c, r, l)
           /\ LaidOut((<<h, t>> \o x \o <<f>>) \o (<<f>> \o c \o <<r, l>>),
                      h, t, x, 2, f, c, r, l)
<1>1. PICK a \in Seq(S) : a = <<h, t>> \o x \o <<f>>
  <2>1. <<h, t>> \o x \o <<f>> \in Seq(S)
    OBVIOUS
  <2> QED BY <2>1, Zenon
<1>2. /\ Len(a) = Len(x) + 3 /\ a[1] = h /\ a[2] = t /\ a[Len(x) + 3] = f
      /\ \A i \in 1 .. Len(x) : a[2 + i] = x[i]
  BY <1>1
<1>3. PICK b \in Seq(S) : b = <<>> \o c \o <<r, l>>
  <2>1. <<>> \o c \o <<r, l>> \in Seq(S)
    OBVIOUS
  <2> QED BY <2>1, Zenon
<1>4. /\ Len(b) = Len(c) + 2 /\ b[Len(c) + 1] = r /\ b[Len(c) + 2] = l
      /\ \A i \in 1 .. Len(c) : b[i] = c[i]
  BY <1>3
<1>5. PICK g \in Seq(S) : g = <<f>> \o c \o <<r, l>>
  <2>1. <<f>> \o c \o <<r, l>> \in Seq(S)
    OBVIOUS
  <2> QED BY <2>1, Zenon
<1>6. /\ Len(g) = Len(c) + 3 /\ g[1] = f /\ g[Len(c) + 2] = r /\ g[Len(c) + 3] = l
      /\ \A i \in 1 .. Len(c) : g[1 + i] = c[i]
  BY <1>5
<1>7. LaidOut(a \o b, h, t, x, 1, f, c, r, l)
  <2>1. PICK v \in Seq(S) : v = a \o b
    <3>1. a \o b \in Seq(S)
      OBVIOUS
    <3> QED BY <3>1, Zenon
  <2>2. /\ Len(v) = Len(x) + 3 + Len(b)
        /\ \A i \in 1 .. Len(x) + 3 : v[i] = a[i]
        /\ \A i \in 1 .. Len(b) : v[Len(x) + 3 + i] = b[i]
    <3>1. /\ Len(v) = Len(a) + Len(b)
          /\ \A i \in 1 .. Len(a) : v[i] = a[i]
          /\ \A i \in 1 .. Len(b) : v[Len(a) + i] = b[i]
      BY <2>1, CatElements
    <3> QED BY <1>2, <3>1
  <2>3. Len(v) = 2 + Len(x) + 1 + Len(c) + 2 /\ v[1] = h /\ v[2] = t
    BY <1>2, <1>4, <2>2
  <2>4. ASSUME NEW i \in 1 .. Len(x) PROVE v[2 + i] = x[i]
    <3>1. 2 + i \in 1 .. Len(x) + 3
      OBVIOUS
    <3> QED BY <1>2, <2>2, <3>1
  <2>5. ASSUME NEW i \in 1 .. 1 PROVE v[2 + Len(x) + i] = f
    BY <1>2, <1>4, <2>2
  <2>6. ASSUME NEW i \in 1 .. Len(c) PROVE v[2 + Len(x) + 1 + i] = c[i]
    <3>1. i \in 1 .. Len(b) /\ 2 + Len(x) + 1 + i = Len(x) + 3 + (i)
      BY <1>4
    <3> QED BY <1>4, <2>2, <3>1
  <2>7. v[Len(v) - 1] = r /\ v[Len(v)] = l
    <3>1. /\ Len(b) - 1 \in 1 .. Len(b) /\ Len(v) - 1 = Len(x) + 3 + (Len(b) - 1)
          /\ Len(b) \in 1 .. Len(b) /\ Len(v) = Len(x) + 3 + Len(b)
      BY <1>4, <2>2
    <3>2. v[Len(v) - 1] = b[Len(b) - 1] /\ v[Len(v)] = b[Len(b)]
      BY <2>2, <3>1
    <3> QED BY <1>4, <3>2
  <2> QED BY <2>1, <2>3, <2>4, <2>5, <2>6, <2>7 DEF LaidOut
<1>8. LaidOut(a \o g, h, t, x, 2, f, c, r, l)
  <2>1. PICK v \in Seq(S) : v = a \o g
    <3>1. a \o g \in Seq(S)
      OBVIOUS
    <3> QED BY <3>1, Zenon
  <2>2. /\ Len(v) = Len(x) + 3 + Len(g)
        /\ \A i \in 1 .. Len(x) + 3 : v[i] = a[i]
        /\ \A i \in 1 .. Len(g) : v[Len(x) + 3 + i] = g[i]
    <3>1. /\ Len(v) = Len(a) + Len(g)
          /\ \A i \in 1 .. Len(a) : v[i] = a[i]
          /\ \A i \in 1 .. Len(g) : v[Len(a) + i] = g[i]
      BY <2>1, CatElements
    <3> QED BY <1>2, <3>1
  <2>3. Len(v) = 2 + Len(x) + 2 + Len(c) + 2 /\ v[1] = h /\ v[2] = t
    BY <1>2, <1>6, <2>2
  <2>4. ASSUME NEW i \in 1 .. Len(x) PROVE v[2 + i] = x[i]
    <3>1. 2 + i \in 1 .. Len(x) + 3
      OBVIOUS
    <3> QED BY <1>2, <2>2, <3>1
  <2>5. ASSUME NEW i \in 1 .. 2 PROVE v[2 + Len(x) + i] = f
    BY <1>2, <1>6, <2>2
  <2>6. ASSUME NEW i \in 1 .. Len(c) PROVE v[2 + Len(x) + 2 + i] = c[i]
    <3>1. 1 + i \in 1 .. Len(g) /\ 2 + Len(x) + 2 + i = Len(x) + 3 + (1 + i)
      BY <1>6
    <3> QED BY <1>6, <2>2, <3>1
  <2>7. v[Len(v) - 1] = r /\ v[Len(v)] = l
    <3>1. /\ Len(g) - 1 \in 1 .. Len(g) /\ Len(v) - 1 = Len(x) + 3 + (Len(g) - 1)
          /\ Len(g) \in 1 .. Len(g) /\ Len(v) = Len(x) + 3 + Len(g)
      BY <1>6, <2>2
    <3>2. v[Len(v) - 1] = g[Len(g) - 1] /\ v[Len(v)] = g[Len(g)]
      BY <2>2, <3>1
    <3> QED BY <1>6, <3>2
  <2> QED BY <2>1, <2>3, <2>4, <2>5, <2>6, <2>7 DEF LaidOut
<1> QED BY <1>1, <1>3, <1>5, <1>7, <1>8, Zenon

\* The fields of a frame are bytes.
LEMMA FrameTypes ==
    ASSUME NEW w \in Writes, IsFrame(w)
    PROVE  /\ w.type_byte \in Byte /\ w.type_byte \notin {SOF, EOF}
           /\ w.data \in Seq(Byte) /\ Len(w.data) \in Nat
           /\ Bytes(w) \in Seq(Byte) /\ Bytes(w) = encode(w.type_byte, w.data)
           /\ SumOf(w) \in Seq(Byte) /\ Len(SumOf(w)) = CHECKSUM_LEN
           /\ \A i \in 1 .. CHECKSUM_LEN : SumOf(w)[i] # EOF
           /\ Eofs1(w) \in {1, 2}
<1>1. /\ w \in [type_byte : Byte \cup {TYPE_RAW}, data : Seq(Byte)]
      /\ Bytes(w) \in Seq(Byte) /\ w.type_byte \notin {SOF, EOF}
      /\ SumOf(w) \in [1 .. CHECKSUM_LEN -> Byte \ {EOF}]
  BY TrafficAssumption DEF SumOf, Eofs1
<1>2. w.type_byte \in Byte /\ w.data \in Seq(Byte)
  BY <1>1 DEF IsFrame
<1>3. Bytes(w) = encode(w.type_byte, w.data)
  BY Zenon DEF Bytes
<1>4. /\ SumOf(w) \in Seq(Byte) /\ Len(SumOf(w)) = CHECKSUM_LEN
      /\ \A i \in 1 .. CHECKSUM_LEN : SumOf(w)[i] # EOF
  BY <1>1, SizeAssumption
<1>5. Eofs1(w) \in {1, 2} /\ Len(w.data) \in Nat
  BY <1>2, EofCountValues DEF Eofs1
<1> QED BY <1>1, <1>2, <1>3, <1>4, <1>5

\* The bytes of a frame, one by one.
LEMMA FrameLayout ==
    ASSUME NEW w \in Writes, IsFrame(w)
    PROVE  /\ LaidOut(Bytes(w), SOF, w.type_byte, Escape(w.data), Eofs1(w), EOF, SumOf(w),
                      CR, LF)
           /\ Escape(w.data) \in Seq(Byte) /\ EscapeGood(w.data)
           /\ Len(EncodeBody(w.type_byte, w.data)) = DataEndsAt(w) + 1
           /\ Len(EncodeTrailer(w.type_byte, w.data)) = Eofs1(w) + CHECKSUM_LEN + 1
<1>1. PICK x \in Seq(Wide) : x = Escape(w.data)
  BY FrameTypes, EscapeCat, Zenon
<1>2. PICK c \in Seq(Byte) : c = SumOf(w) /\ Len(c) = CHECKSUM_LEN
  BY FrameTypes, Zenon
<1>3. PICK t \in Byte : t = w.type_byte
  BY FrameTypes, Zenon
<1>4. /\ SOF \in Wide /\ EOF \in Wide /\ CR \in Wide /\ LF \in Wide /\ t \in Wide
      /\ c \in Seq(Wide)
  BY ByteAssumption DEF Wide
<1>5. Eofs(0) = <<>> /\ Eofs(1) = <<EOF>>
  BY DEF Eofs
<1>6. PICK n \in {1, 2} : n = Eofs1(w)
  BY FrameTypes, Zenon
<1>7. EncodeBody(w.type_byte, w.data) = <<SOF, t>> \o x \o <<EOF>>
  BY <1>1, <1>3 DEF EncodeBody
<1>8. EncodeTrailer(w.type_byte, w.data) = Eofs(n - 1) \o c \o <<CR, LF>>
  BY <1>2, <1>6 DEF EncodeTrailer, SumOf, Eofs1
<1>9. Bytes(w) = (<<SOF, t>> \o x \o <<EOF>>) \o (Eofs(n - 1) \o c \o <<CR, LF>>)
  BY <1>7, <1>8, FrameTypes DEF encode
<1>10. LaidOut(Bytes(w), SOF, t, x, n, EOF, c, CR, LF)
  <2>1. CASE n = 1
    <3>1. Eofs(n - 1) = <<>>
      BY <1>5, <2>1
    <3>2. LaidOut((<<SOF, t>> \o x \o <<EOF>>) \o (<<>> \o c \o <<CR, LF>>),
                  SOF, t, x, 1, EOF, c, CR, LF)
      BY <1>4, JoinLaysOut
    <3> QED BY <1>9, <2>1, <3>1, <3>2
  <2>2. CASE n = 2
    <3>1. Eofs(n - 1) = <<EOF>>
      BY <1>5, <2>2
    <3>2. LaidOut((<<SOF, t>> \o x \o <<EOF>>) \o (<<EOF>> \o c \o <<CR, LF>>),
                  SOF, t, x, 2, EOF, c, CR, LF)
      BY <1>4, JoinLaysOut
    <3> QED BY <1>9, <2>2, <3>1, <3>2
  <2> QED BY <2>1, <2>2
<1>11. Len(EncodeBody(w.type_byte, w.data)) = Len(x) + 3
  BY <1>4, <1>7
<1>12. Len(EncodeTrailer(w.type_byte, w.data)) = n + CHECKSUM_LEN + 1
  <2>1. CASE n = 1
    <3>1. Eofs(n - 1) = <<>>
      BY <1>5, <2>1
    <3>2. Len(<<>> \o c \o <<CR, LF>>) = Len(c) + 1 + 1
      BY <1>4
    <3>3. EncodeTrailer(w.type_byte, w.data) = <<>> \o c \o <<CR, LF>>
      BY <1>8, <3>1, Zenon
    <3>4. Len(EncodeTrailer(w.type_byte, w.data)) = CHECKSUM_LEN + 1 + 1
      BY <1>2, <3>2, <3>3, Zenon
    <3> QED BY <2>1, <3>4, SizeAssumption
  <2>2. CASE n = 2
    <3>1. Eofs(n - 1) = <<EOF>>
      BY <1>5, <2>2
    <3>2. Len(<<EOF>> \o c \o <<CR, LF>>) = Len(c) + 2 + 1
      BY <1>4
    <3>3. EncodeTrailer(w.type_byte, w.data) = <<EOF>> \o c \o <<CR, LF>>
      BY <1>8, <3>1, Zenon
    <3>4. Len(EncodeTrailer(w.type_byte, w.data)) = CHECKSUM_LEN + 2 + 1
      BY <1>2, <3>2, <3>3, Zenon
    <3> QED BY <2>2, <3>4, SizeAssumption
  <2> QED BY <2>1, <2>2
<1>13. x \in Seq(Byte)
  <2>1. \A i \in 1 .. Len(x) : 2 + i \in 1 .. Len(Bytes(w)) /\ Bytes(w)[2 + i] = x[i]
    BY <1>2, <1>10 DEF LaidOut
  <2>2. \A i \in 1 .. Len(Bytes(w)) : Bytes(w)[i] \in Byte
    BY FrameTypes, ElementOfSeq
  <2>3. \A i \in 1 .. Len(x) : x[i] \in Byte
    BY <2>1, <2>2
  <2> QED BY <2>3
<1>14. EscapeGood(w.data)
  BY <1>1, <1>13, FrameTypes, EscapeUndoes
<1> QED BY <1>1, <1>2, <1>3, <1>6, <1>10, <1>11, <1>12, <1>13, <1>14 DEF DataEndsAt

-----------------------------------------------------------------------------
(* What inject can do with a byte.                                         *)

Kept == frames' = frames /\ panicked' = panicked /\ drop_count' = drop_count

\* It does not fit.
Dropped ==
    /\ raw' = raw /\ raw_head' = Len(raw) /\ state' = "Idle"
    /\ drop_count' = drop_count + 1 /\ frames' = frames /\ panicked' = panicked

\* It belongs to the trailer of a decoded frame.
Swallowed(ch) ==
    /\ raw' = raw /\ raw_head' = raw_head /\ Kept
    /\ \/ state = "PostFrame" /\ ch = CR /\ state' = "PostFrameCr"
       \/ state = "PostFrameCr" /\ ch = LF /\ state' = "Idle"

\* It opens an attempt.
Opened(ch) ==
    /\ ch = SOF /\ state \notin {"Checksum", "DataEsc"} /\ state' = "Sof"
    /\ raw' = Append(raw, ch) /\ raw_head' = Len(raw) /\ Kept

\* It continues one.
Grown(ch) ==
    /\ raw' = Append(raw, ch) /\ raw_head' = raw_head /\ Kept
    /\ \/ state = "Sof" /\ ch \notin {SOF, EOF} /\ state' = "Data"
       \/ state = "Data" /\ ch = ESC /\ state' = "DataEsc"
       \/ state = "Data" /\ ch \notin {SOF, EOF, ESC} /\ state' = "Data"
       \/ state = "DataEsc" /\ state' = "Data"
       \/ /\ state = "Data" /\ ch = EOF /\ data_end' = Len(raw) /\ data_len' = data_len
          /\ \/ EofCount(data_len) = 2 /\ state' = "Eof"
             \/ EofCount(data_len) # 2 /\ state' = "Checksum" /\ checksum_bytes' = <<>>
       \/ /\ state = "Eof" /\ ch = EOF /\ data_end' = data_end /\ data_len' = data_len
          /\ state' = "Checksum" /\ checksum_bytes' = <<>>
       \/ /\ state = "Checksum" /\ data_end' = data_end /\ data_len' = data_len
          /\ state' = "Checksum" /\ checksum_bytes' = Append(checksum_bytes, ch)
          /\ Len(checksum_bytes) + 1 < CHECKSUM_LEN

\* It is settled, and with it the attempt it spoils.
Refused(ch) ==
    /\ raw' = Append(raw, ch) /\ raw_head' = Len(raw) + 1 /\ state' = "Idle" /\ Kept
    /\ \/ state \in {"Idle", "PostFrame", "PostFrameCr"} /\ ch # SOF
       \/ state = "Sof" /\ ch = EOF
       \/ state = "Eof" /\ ch \notin {SOF, EOF}
       \/ /\ state = "Checksum" /\ Len(checksum_bytes) + 1 >= CHECKSUM_LEN
          /\ ~checksum_ok(Append(checksum_bytes, ch))

\* It ends an attempt with a checksum that is accepted.
Ended(ch) ==
    /\ state = "Checksum" /\ Len(checksum_bytes) + 1 >= CHECKSUM_LEN
    /\ checksum_ok(Append(checksum_bytes, ch)) /\ drop_count' = drop_count
    /\ \/ /\ ~DecodePanics(Append(raw, ch)) /\ resolve_success(Append(raw, ch))
          /\ panicked' = panicked
       \/ /\ DecodePanics(Append(raw, ch)) /\ panicked' = TRUE
          /\ UNCHANGED <<state, raw, checksum_bytes, data_len>>

\* One of these happens, and a byte of a trailer is swallowed unless it is dropped.
LEMMA InjectKinds ==
    ASSUME DecoderInv, NEW ch \in Byte, inject(ch)
    PROVE  /\ \/ Dropped \/ Swallowed(ch) \/ Opened(ch) \/ Grown(ch) \/ Refused(ch)
              \/ Ended(ch)
           /\ IsTrailer(ch) => Dropped \/ Swallowed(ch)
<1>0. state \in State /\ checksum_bytes \in Seq(Byte) /\ raw \in Seq(Byte)
  BY DEF DecoderInv, StateOK
<1>1. CASE InjectOverflow(ch)
  BY <1>1 DEF InjectOverflow, resolve_raw, Dropped
<1>2. CASE SwallowTrailer(ch)
  BY <1>2 DEF SwallowTrailer, IsTrailer, Swallowed, Kept
<1>3. CASE InjectChecksum(ch)
  <2>1. /\ state = "Checksum" /\ ~IsTrailer(ch) /\ drop_count' = drop_count
        /\ data_end' = data_end /\ data_len' = data_len
        /\ Len(Append(checksum_bytes, ch)) = Len(checksum_bytes) + 1
        /\ Len(Append(raw, ch)) = Len(raw) + 1
    BY <1>0, <1>3 DEF InjectChecksum, Entry, Accepts
  <2>2. CASE ~(Len(Append(checksum_bytes, ch)) >= CHECKSUM_LEN)
    BY <1>0, <1>3, <2>1, <2>2, SizeAssumption DEF InjectChecksum, Grown, Kept
  <2>3. CASE Len(Append(checksum_bytes, ch)) >= CHECKSUM_LEN
    BY <1>3, <2>1, <2>3 DEF InjectChecksum, Ended, Refused, Kept, resolve_raw
  <2> QED BY <2>2, <2>3
<1>4. CASE InjectSof(ch)
  BY <1>0, <1>4 DEF InjectSof, OpenAttempt, Entry, Accepts, Opened, Kept, State
<1>5. CASE InjectType(ch)
  BY <1>0, <1>5 DEF InjectType, Entry, Accepts, resolve_raw, Grown, Refused, Kept
<1>6. CASE InjectEsc(ch)
  BY <1>0, <1>6 DEF InjectEsc, Entry, Accepts, Grown, Kept
<1>7. CASE InjectEof(ch)
  BY <1>0, <1>7 DEF InjectEof, Entry, Accepts, Grown, Kept
<1>8. CASE InjectBadPad(ch)
  BY <1>0, <1>8 DEF InjectBadPad, Entry, Accepts, resolve_raw, Refused, Kept
<1>9. CASE InjectData(ch)
  BY <1>0, <1>9 DEF InjectData, Entry, Accepts, Grown, Kept
<1>10. CASE InjectIdle(ch)
  BY <1>0, <1>10 DEF InjectIdle, Entry, Accepts, resolve_raw, Refused, Kept
<1> QED BY <1>1, <1>2, <1>3, <1>4, <1>5, <1>6, <1>7, <1>8, <1>9, <1>10 DEF inject

-----------------------------------------------------------------------------
(* The bytes of an attempt that waits for its trailer.                     *)

\* The EOFs and then the checksum received so far are its last bytes.
TrailerShape ==
    /\ state = "Eof" => raw[Len(raw)] = EOF
    /\ state = "Checksum" =>
         /\ \A i \in 1 .. EofCount(data_len) :
               raw[Len(raw) - Len(checksum_bytes) - EofCount(data_len) + i] = EOF
         /\ \A i \in 1 .. Len(checksum_bytes) :
               raw[Len(raw) - Len(checksum_bytes) + i] = checksum_bytes[i]

\* inject keeps them there.
LEMMA InjectShape ==
    ASSUME DecoderInv, TrailerShape, NEW ch \in Byte, inject(ch)
    PROVE  TrailerShape'
<1>0. /\ state \in State /\ checksum_bytes \in Seq(Byte) /\ raw \in Seq(Byte)
      /\ Len(raw) \in Nat /\ Len(checksum_bytes) \in Nat
      /\ EofCount(data_len) \in {1, 2}
  BY EofCountValues DEF DecoderInv, StateOK
<1>1. CASE Dropped \/ Swallowed(ch) \/ Opened(ch) \/ Refused(ch)
  BY <1>1 DEF Dropped, Swallowed, Opened, Refused, TrailerShape
<1>2. CASE Grown(ch)
  <2>1. /\ raw' = Append(raw, ch) /\ Len(raw') = Len(raw) + 1 /\ raw'[Len(raw) + 1] = ch
        /\ \A i \in 1 .. Len(raw) : raw'[i] = raw[i]
    BY <1>0, <1>2 DEF Grown
  <2>2. CASE state' \notin {"Eof", "Checksum"}
    BY <2>2 DEF TrailerShape
  <2>3. CASE state' = "Eof"
    BY <1>2, <2>1, <2>3 DEF Grown, TrailerShape
  <2>4. CASE state' = "Checksum" /\ state = "Data"
    <3>1. /\ ch = EOF /\ data_len' = data_len /\ checksum_bytes' = <<>>
          /\ EofCount(data_len) = 1 /\ Len(checksum_bytes') = 0
      BY <1>0, <1>2, <2>4 DEF Grown
    <3> QED BY <1>0, <2>1, <2>4, <3>1 DEF TrailerShape
  <2>5. CASE state' = "Checksum" /\ state = "Eof"
    <3>1. /\ ch = EOF /\ data_len' = data_len /\ checksum_bytes' = <<>>
          /\ Len(checksum_bytes') = 0
      BY <1>2, <2>5 DEF Grown
    <3>2. EofCount(data_len) = 2 /\ Len(raw) \in 1 .. Len(raw)
      BY <1>0, <2>5 DEF DecoderInv, EofPadded, StateOK, AttemptInv, InAttempt
    <3>3. raw[Len(raw)] = EOF
      BY <2>5 DEF TrailerShape
    <3> QED BY <1>0, <2>1, <2>5, <3>1, <3>2, <3>3 DEF TrailerShape
  <2>6. CASE state' = "Checksum" /\ state = "Checksum"
    <3>1. /\ data_len' = data_len /\ checksum_bytes' = Append(checksum_bytes, ch)
          /\ Len(checksum_bytes') = Len(checksum_bytes) + 1
          /\ checksum_bytes'[Len(checksum_bytes) + 1] = ch
          /\ \A i \in 1 .. Len(checksum_bytes) : checksum_bytes'[i] = checksum_bytes[i]
      BY <1>0, <1>2, <2>6 DEF Grown
    <3>2. Len(checksum_bytes) + EofCount(data_len) + 2 <= Len(raw)
      BY <1>0, <2>6 DEF DecoderInv, StateOK, AttemptInv, InTrailer, TrueDataEnd
    <3>3. ASSUME NEW i \in 1 .. EofCount(data_len')
          PROVE  raw'[Len(raw') - Len(checksum_bytes') - EofCount(data_len') + i] = EOF
      <4>1. Len(raw) - Len(checksum_bytes) - EofCount(data_len) + i \in 1 .. Len(raw)
        BY <1>0, <3>1, <3>2
      <4>2. raw[Len(raw) - Len(checksum_bytes) - EofCount(data_len) + i] = EOF
        BY <2>6, <3>1 DEF TrailerShape
      <4>3. Len(raw') - Len(checksum_bytes') - EofCount(data_len') + i =
              Len(raw) - Len(checksum_bytes) - EofCount(data_len) + i
        BY <1>0, <2>1, <3>1
      <4> QED BY <2>1, <4>1, <4>2, <4>3
    <3>4. ASSUME NEW i \in 1 .. Len(checksum_bytes')
          PROVE  raw'[Len(raw') - Len(checksum_bytes') + i] = checksum_bytes'[i]
      <4>1. CASE i <= Len(checksum_bytes)
        <5>1. /\ i \in 1 .. Len(checksum_bytes)
              /\ Len(raw) - Len(checksum_bytes) + i \in 1 .. Len(raw)
              /\ Len(raw') - Len(checksum_bytes') + i = Len(raw) - Len(checksum_bytes) + i
          BY <1>0, <2>1, <3>1, <3>2, <4>1
        <5>2. raw[Len(raw) - Len(checksum_bytes) + i] = checksum_bytes[i]
          BY <2>6, <5>1 DEF TrailerShape
        <5> QED BY <2>1, <3>1, <5>1, <5>2
      <4>2. CASE i = Len(checksum_bytes) + 1
        BY <1>0, <2>1, <3>1, <4>2
      <4> QED BY <1>0, <3>1, <4>1, <4>2
    <3> QED BY <2>6, <3>3, <3>4 DEF TrailerShape
  <2> QED BY <1>2, <2>2, <2>3, <2>4, <2>5, <2>6 DEF Grown
<1>3. CASE Ended(ch)
  <2>1. CASE resolve_success(Append(raw, ch))
    BY <2>1 DEF resolve_success, TrailerShape
  <2>2. CASE UNCHANGED <<state, raw, checksum_bytes, data_len>>
    BY <2>2 DEF TrailerShape
  <2> QED BY <1>3, <2>1, <2>2 DEF Ended
<1> QED BY <1>1, <1>2, <1>3, InjectKinds

\* tick keeps them there, or settles all.
LEMMA TickShape ==
    ASSUME TrailerShape, tick
    PROVE  TrailerShape'
<1>1. CASE state' = "Idle"
  BY <1>1 DEF TrailerShape
<1>2. CASE UNCHANGED <<state, raw, raw_head, attemptVars>>
  BY <1>2 DEF TrailerShape, attemptVars
<1> QED BY <1>1, <1>2 DEF tick, resolve_raw

\* get keeps them there: it takes none of the attempt.
LEMMA GetShape ==
    ASSUME DecoderInv, TrailerShape, get
    PROVE  TrailerShape'
<1>1. /\ state' = state /\ checksum_bytes' = checksum_bytes /\ data_len' = data_len
      /\ raw \in Seq(Byte) /\ Len(raw) \in Nat /\ raw_head \in Nat
      /\ raw_head <= Len(raw)
      /\ Len(checksum_bytes) \in Nat /\ EofCount(data_len) \in {1, 2}
  BY EofCountValues DEF get, attemptVars, DecoderInv, StateOK, AttemptInv
<1>2. CASE raw' = raw
  BY <1>1, <1>2 DEF TrailerShape
<1>3. CASE raw' = SubSeq(raw, raw_head + 1, Len(raw))
  <2>1. Len(raw') = Len(raw) - raw_head /\ \A i \in 1 .. Len(raw') : raw'[i] = raw[raw_head + i]
    BY <1>1, <1>3, DrainSettled
  <2>2. CASE state = "Eof"
    <3>1. Len(raw) >= raw_head + 3
      BY <1>1, <2>2 DEF DecoderInv, AttemptInv, InTrailer, TrueDataEnd
    <3>2. Len(raw') \in 1 .. Len(raw') /\ raw_head + Len(raw') = Len(raw)
      BY <1>1, <2>1, <3>1
    <3>3. raw'[Len(raw')] = EOF
      BY <2>1, <2>2, <3>2 DEF TrailerShape
    <3> QED BY <1>1, <2>2, <3>3 DEF TrailerShape
  <2>3. CASE state = "Checksum"
    <3>1. Len(raw) - Len(checksum_bytes) - EofCount(data_len) >= raw_head + 2
      BY <1>1, <2>3 DEF DecoderInv, AttemptInv, InTrailer, TrueDataEnd
    <3>2. ASSUME NEW i \in 1 .. EofCount(data_len)
          PROVE  raw'[Len(raw') - Len(checksum_bytes) - EofCount(data_len) + i] = EOF
      <4>1. PICK j \in 1 .. Len(raw') :
               /\ j = Len(raw') - Len(checksum_bytes) - EofCount(data_len) + i
               /\ raw_head + j = Len(raw) - Len(checksum_bytes) - EofCount(data_len) + i
        <5>1. LET j == Len(raw') - Len(checksum_bytes) - EofCount(data_len) + i
              IN  /\ j \in 1 .. Len(raw')
                  /\ raw_head + j = Len(raw) - Len(checksum_bytes) - EofCount(data_len) + i
          BY <1>1, <2>1, <3>1
        <5> QED BY <5>1
      <4>2. raw'[j] = raw[raw_head + j]
        BY <2>1
      <4> QED BY <2>3, <4>1, <4>2 DEF TrailerShape
    <3>3. ASSUME NEW i \in 1 .. Len(checksum_bytes)
          PROVE  raw'[Len(raw') - Len(checksum_bytes) + i] = checksum_bytes[i]
      <4>1. PICK j \in 1 .. Len(raw') :
               /\ j = Len(raw') - Len(checksum_bytes) + i
               /\ raw_head + j = Len(raw) - Len(checksum_bytes) + i
        <5>1. LET j == Len(raw') - Len(checksum_bytes) + i
              IN  /\ j \in 1 .. Len(raw')
                  /\ raw_head + j = Len(raw) - Len(checksum_bytes) + i
          BY <1>1, <2>1, <3>1
        <5> QED BY <5>1
      <4>2. raw'[j] = raw[raw_head + j]
        BY <2>1
      <4> QED BY <2>3, <4>1, <4>2 DEF TrailerShape
    <3> QED BY <1>1, <2>3, <3>2, <3>3 DEF TrailerShape
  <2> QED BY <1>1, <2>2, <2>3 DEF TrailerShape
<1> QED BY <1>2, <1>3 DEF get

-----------------------------------------------------------------------------
(* What holds of the decoder and of poll by themselves.                    *)

\* The decoder's own invariants.
DecoderHolds == TypeInv /\ CoverInv /\ TrailerShape

\* Every operation of the decoder keeps them.
LEMMA DecoderHoldsStep ==
    ASSUME DecoderHolds,
           \/ ~panicked /\ \E ch \in Byte : inject(ch)
           \/ ~panicked /\ tick
           \/ ~panicked /\ get
           \/ ClockAdvances
           \/ UNCHANGED decoderVars
    PROVE  DecoderHolds'
<1> USE DEF DecoderHolds
<1>1. CASE ~panicked /\ ((\E ch \in Byte : inject(ch)) \/ tick \/ get)
  <2>1. [DecoderNext]_decoderVars
    BY <1>1 DEF DecoderNext
  <2>2. TypeInv' /\ CoverInv'
    BY <2>1, TypeInvStep, CoverInvStep DEF TypeInv
  <2>3. TrailerShape'
    BY <1>1, InjectShape, TickShape, GetShape DEF TypeInv
  <2> QED BY <2>2, <2>3
<1>2. CASE ClockAdvances \/ UNCHANGED decoderVars
  <2>1. /\ UNCHANGED <<state, raw, raw_head, data_end, data_len, running, checksum_bytes>>
        /\ frames' = frames
    BY <1>2 DEF ClockAdvances, decoderVars, attemptVars
  <2>2. DecoderInv'
    BY <1>2, ClockInv, StutterInv DEF TypeInv
  <2>3. CoverInv'
    BY <2>1 DEF CoverInv, SofOK, DataOK, TrailerOK, DataPart, TypeByte, InTrailer,
       TrueDataEnd
  <2>4. TrailerShape'
    BY <2>1 DEF TrailerShape
  <2> QED BY <2>1, <2>2, <2>3, <2>4 DEF TypeInv
<1> QED BY <1>1, <1>2

ClientTypes ==
    /\ stalls \in MayStall /\ wire \in Seq(Piece) /\ buf \in Seq(Byte)
    /\ delivered \in Seq(Item) /\ sent \in Seq(Writes)

\* poll reads only when it has injected all it read and handed over all it could,
\* and without a clock nothing ages.
PollOK ==
    /\ pc \in {"read", "inject", "get"}
    /\ pc \in {"read", "get"} => buf = <<>>
    /\ pc = "read" => frames = <<>> /\ raw_head = 0
    /\ ~stalls => since_progress = 0

BaseInv == DecoderHolds /\ ClientTypes /\ PollOK

\* The bytes that are on their way to the decoder.
Stream == buf \o FlattenSeq(wire)

\* What a device may write is typed.
LEMMA WriteTypes ==
    ASSUME ClientTypes, NEW w \in Traffic[stalls]
    PROVE  w \in Writes /\ Bytes(w) \in Seq(Byte)
<1>1. w \in Writes
  BY DEF ClientTypes, Writes
<1> QED BY <1>1, TrafficAssumption

\* A write adds its bytes, in one piece or in two.
LEMMA WriteStream ==
    ASSUME ClientTypes, NEW w \in Traffic[stalls], DeviceWrites(w)
    PROVE  \E ps \in Seq(Piece) :
             /\ wire' = wire \o ps /\ FlattenSeq(ps) = Bytes(w)
             /\ \/ ps = <<Bytes(w)>>
                \/ \E k \in CutPoints(w) :
                     /\ k \in 1 .. Len(Bytes(w)) - 1
                     /\ ps = <<SubSeq(Bytes(w), 1, k), SubSeq(Bytes(w), k + 1, Len(Bytes(w)))>>
<1>1. PICK b \in Seq(Byte) : b = Bytes(w)
  BY WriteTypes
<1>2. wire \in Seq(Piece)
  BY DEF ClientTypes
<1>3. CASE wire' = Append(wire, b)
  <2>1. b \in Piece
    BY PieceIs
  <2>2. <<b>> \in Seq(Piece) /\ wire' = wire \o <<b>>
    BY <1>2, <1>3, <2>1
  <2>3. FlattenSeq(<<b>>) = b
    BY <2>1, FlatPieces
  <2> QED BY <1>1, <2>2, <2>3
<1>4. ASSUME NEW k \in CutPoints(w),
             wire' = wire \o <<SubSeq(b, 1, k), SubSeq(b, k + 1, Len(b))>>
      PROVE  \E ps \in Seq(Piece) :
               /\ wire' = wire \o ps /\ FlattenSeq(ps) = b
               /\ k \in 1 .. Len(b) - 1
               /\ ps = <<SubSeq(b, 1, k), SubSeq(b, k + 1, Len(b))>>
  <2>1. k \in 1 .. Len(b) - 1
    BY <1>1 DEF CutPoints
  <2>2. PICK x \in Seq(Byte), y \in Seq(Byte) :
          x = SubSeq(b, 1, k) /\ y = SubSeq(b, k + 1, Len(b)) /\ b = x \o y
    <3>1. SubSeq(b, 1, k) \in Seq(Byte) /\ SubSeq(b, k + 1, Len(b)) \in Seq(Byte)
      BY <2>1
    <3>2. b = SubSeq(b, 1, k) \o SubSeq(b, k + 1, Len(b))
      BY <2>1
    <3> QED BY <3>1, <3>2
  <2>3. x \in Piece /\ y \in Piece
    BY PieceIs
  <2>4. /\ <<x>> \in Seq(Piece) /\ <<y>> \in Seq(Piece) /\ <<x, y>> \in Seq(Piece)
        /\ <<x, y>> = <<x>> \o <<y>>
    BY <2>3, PairSeq
  <2>5. FlattenSeq(<<x, y>>) = x \o y
    BY <2>3, <2>4, FlatPieces
  <2> QED BY <1>4, <2>1, <2>2, <2>4, <2>5
<1>5. wire' = Append(wire, b)
      \/ \E k \in CutPoints(w) :
            wire' = wire \o <<SubSeq(b, 1, k), SubSeq(b, k + 1, Len(b))>>
  BY <1>1 DEF DeviceWrites
<1> QED BY <1>1, <1>3, <1>4, <1>5

\* The stream is bytes.
LEMMA StreamType ==
    ASSUME ClientTypes
    PROVE  Stream \in Seq(Byte) /\ FlattenSeq(wire) \in Seq(Byte)
<1>1. FlattenSeq(wire) \in Seq(Byte) /\ buf \in Seq(Byte)
  BY FlatPieces DEF ClientTypes
<1> QED BY <1>1, CatElements DEF Stream

\* A write makes the stream longer.
LEMMA StreamWrite ==
    ASSUME ClientTypes, NEW w \in Traffic[stalls], DeviceWrites(w)
    PROVE  Stream' = Stream \o Bytes(w)
<1>1. PICK ps \in Seq(Piece) : wire' = wire \o ps /\ FlattenSeq(ps) = Bytes(w)
  BY WriteStream
<1>2. FlattenSeq(wire \o ps) = FlattenSeq(wire) \o FlattenSeq(ps)
  BY FlatPieces DEF ClientTypes
<1>3. buf' = buf
  BY DEF DeviceWrites
<1>4. Stream' = buf \o (FlattenSeq(wire) \o Bytes(w))
  BY <1>1, <1>2, <1>3 DEF Stream
<1>5. buf \in Seq(Byte) /\ FlattenSeq(wire) \in Seq(Byte) /\ Bytes(w) \in Seq(Byte)
  BY StreamType, WriteTypes DEF ClientTypes
<1> QED BY <1>4, <1>5, CatAssoc DEF Stream

\* The pieces of the line before and after the cut of a read.
LEMMA CutWire ==
    ASSUME NEW S, NEW s \in Seq(S), NEW m \in 0 .. Len(s)
    PROVE  /\ SubSeq(s, 1, m) \in Seq(S) /\ SubSeq(s, m + 1, Len(s)) \in Seq(S)
           /\ s = SubSeq(s, 1, m) \o SubSeq(s, m + 1, Len(s))
<1>1. /\ SubSeq(s, 1, m) \in Seq(S) /\ Len(SubSeq(s, 1, m)) = m
      /\ \A i \in 1 .. m : SubSeq(s, 1, m)[i] = s[i]
  OBVIOUS
<1>2. /\ SubSeq(s, m + 1, Len(s)) \in Seq(S) /\ Len(SubSeq(s, m + 1, Len(s))) = Len(s) - m
      /\ \A i \in 1 .. Len(s) - m : SubSeq(s, m + 1, Len(s))[i] = s[m + i]
  OBVIOUS
<1>3. s = SubSeq(s, 1, m) \o SubSeq(s, m + 1, Len(s))
  <2>1. PICK a \in Seq(S), b \in Seq(S) :
          /\ a = SubSeq(s, 1, m) /\ b = SubSeq(s, m + 1, Len(s))
          /\ Len(a) = m /\ \A i \in 1 .. m : a[i] = s[i]
          /\ Len(b) = Len(s) - m /\ \A i \in 1 .. Len(s) - m : b[i] = s[m + i]
    BY <1>1, <1>2, Zenon
  <2>2. /\ Len(s) = Len(a) + Len(b) /\ \A k \in 1 .. Len(a) : s[k] = a[k]
        /\ \A k \in 1 .. Len(b) : s[Len(a) + k] = b[k]
    <3>1. Len(a) = m /\ Len(b) = Len(s) - m
      BY <2>1, Zenon
    <3>2. Len(s) = Len(a) + Len(b) /\ 1 .. Len(b) = 1 .. Len(s) - m
      BY <3>1
    <3> QED BY <2>1, <3>1, <3>2, Zenon
  <2>3. s = a \o b
    BY <2>2, Check!IsJoin
  <2> QED BY <2>1, <2>3, Zenon
<1> QED BY <1>1, <1>2, <1>3

\* A read moves bytes from the line to the buffer.
LEMMA StreamRead ==
    ASSUME ClientTypes, PollOK, NEW m \in 0 .. Len(wire), PollRead(m)
    PROVE  /\ Stream' = Stream /\ buf' \in Seq(Byte) /\ wire' \in Seq(Piece)
           /\ wire = SubSeq(wire, 1, m) \o wire' /\ SubSeq(wire, 1, m) \in Seq(Piece)
<1>1. wire \in Seq(Piece)
  BY DEF ClientTypes
<1>2. PICK a \in Seq(Piece), b \in Seq(Piece) :
        a = SubSeq(wire, 1, m) /\ b = SubSeq(wire, m + 1, Len(wire)) /\ wire = a \o b
  <2>1. /\ SubSeq(wire, 1, m) \in Seq(Piece) /\ SubSeq(wire, m + 1, Len(wire)) \in Seq(Piece)
        /\ wire = SubSeq(wire, 1, m) \o SubSeq(wire, m + 1, Len(wire))
    BY <1>1, CutWire
  <2> QED BY <2>1, Zenon
<1>3. buf = <<>> /\ buf' = FlattenSeq(a) /\ wire' = b
  BY <1>2 DEF PollRead, PollOK
<1>4. FlattenSeq(wire) = FlattenSeq(a) \o FlattenSeq(b) /\ FlattenSeq(a) \in Seq(Byte)
  BY <1>2, FlatPieces
<1>5. FlattenSeq(wire) \in Seq(Byte) /\ FlattenSeq(b) \in Seq(Byte)
  BY <1>1, FlatPieces
<1>6. Stream = FlattenSeq(wire)
  BY <1>3, <1>5 DEF Stream
<1>7. Stream' = FlattenSeq(a) \o FlattenSeq(b)
  BY <1>3 DEF Stream
<1> QED BY <1>2, <1>3, <1>4, <1>6, <1>7

\* inject takes the first byte of the stream.
LEMMA StreamInject ==
    ASSUME ClientTypes, PollInject
    PROVE  /\ Head(buf) \in Byte /\ inject(Head(buf)) /\ buf' \in Seq(Byte)
           /\ Stream = <<Head(buf)>> \o Stream' /\ Stream' \in Seq(Byte)
<1>1. /\ buf \in Seq(Byte) /\ buf # <<>> /\ buf' = Tail(buf) /\ wire' = wire
      /\ FlattenSeq(wire) \in Seq(Byte) /\ inject(Head(buf))
  BY StreamType DEF ClientTypes, PollInject
<1>2. Head(buf) \in Byte /\ Tail(buf) \in Seq(Byte) /\ buf = <<Head(buf)>> \o Tail(buf)
  BY <1>1
<1>3. <<Head(buf)>> \in Seq(Byte)
  BY <1>2
<1>4. Stream = (<<Head(buf)>> \o Tail(buf)) \o FlattenSeq(wire)
  BY <1>2 DEF Stream
<1>5. Stream' = Tail(buf) \o FlattenSeq(wire)
  BY <1>1 DEF Stream
<1> QED BY <1>1, <1>2, <1>3, <1>4, <1>5, CatAssoc, CatElements

\* A client starts with all of this.
LEMMA BaseInvInit == ClientInit => BaseInv
<1> SUFFICES ASSUME ClientInit PROVE BaseInv
  OBVIOUS
<1>1. DecoderHolds
  <2>1. DecoderInv
    BY DecoderInvInit DEF ClientInit
  <2>2. frames = <<>> /\ state = "Idle"
    BY DEF ClientInit, DecoderInit
  <2>3. CoverInv
    BY <2>2 DEF CoverInv, SofOK, DataOK, TrailerOK, InTrailer
  <2>4. TrailerShape
    BY <2>2 DEF TrailerShape
  <2> QED BY <2>1, <2>2, <2>3, <2>4 DEF DecoderHolds, TypeInv
<1>2. ClientTypes
  BY DEF ClientInit, ClientTypes
<1>3. PollOK
  BY DEF ClientInit, DecoderInit, PollOK
<1> QED BY <1>1, <1>2, <1>3 DEF BaseInv

\* inject leaves the timer alone.
LEMMA InjectTimer ==
    ASSUME NEW ch, inject(ch)
    PROVE  since_progress' = since_progress
BY DEF inject, InjectOverflow, SwallowTrailer, InjectChecksum, InjectSof, OpenAttempt,
   InjectType, InjectEsc, InjectEof, InjectBadPad, InjectData, InjectIdle, timerVars

\* What get hands over is an item.
LEMMA GetItem ==
    ASSUME DecoderHolds, get
    PROVE  /\ GetResult \in Item
           /\ frames # <<>> => Head(frames) \in Item /\ IsFrame(Head(frames))
<1>1. frames \in Seq(Frame) /\ raw \in Seq(Byte) /\ raw_head \in 0 .. Len(raw)
  BY DEF DecoderHolds, TypeInv, DecoderInv, StateOK, AttemptInv
<1>2. CASE frames # <<>>
  <2>1. Head(frames) \in Frame
    BY <1>1, <1>2
  <2>2. \A f \in Frame : f \in Item /\ IsFrame(f)
    BY ByteAssumption DEF Frame, Item, IsFrame
  <2> QED BY <1>2, <2>1, <2>2 DEF GetResult
<1>3. CASE frames = <<>>
  <2>1. SubSeq(raw, 1, raw_head) \in Seq(Byte)
    BY <1>1
  <2> QED BY <1>3, <2>1 DEF GetResult, Item
<1> QED BY <1>2, <1>3

\* Every step of the device, the clock and poll keeps it.
LEMMA BaseInvStep == BaseInv /\ [ClientNext]_vars => BaseInv'
<1> SUFFICES ASSUME BaseInv, [ClientNext]_vars PROVE BaseInv'
  OBVIOUS
<1>0. DecoderHolds /\ ClientTypes /\ PollOK
  BY DEF BaseInv
<1>1. ASSUME NEW w \in Traffic[stalls], DeviceWrites(w) PROVE BaseInv'
  <2>1. UNCHANGED decoderVars /\ UNCHANGED <<stalls, pc, buf, delivered>>
    BY <1>1 DEF DeviceWrites
  <2>2. DecoderHolds'
    BY <1>0, <2>1, DecoderHoldsStep
  <2>3. wire' \in Seq(Piece)
    <3>1. PICK ps \in Seq(Piece) : wire' = wire \o ps
      BY <1>0, <1>1, WriteStream
    <3> QED BY <1>0, <3>1, CatElements DEF ClientTypes
  <2>4. sent' \in Seq(Writes)
    BY <1>0, <1>1, WriteTypes DEF DeviceWrites, ClientTypes
  <2>5. ClientTypes'
    BY <1>0, <2>1, <2>3, <2>4 DEF ClientTypes
  <2>6. PollOK'
    BY <1>0, <2>1 DEF PollOK, decoderVars, timerVars
  <2> QED BY <2>2, <2>5, <2>6 DEF BaseInv
<1>2. CASE Clock
  <2>1. ClockAdvances /\ stalls /\ UNCHANGED <<stalls, wire, pc, buf, delivered, sent>>
    BY <1>2 DEF Clock
  <2>2. DecoderHolds'
    BY <1>0, <2>1, DecoderHoldsStep
  <2>3. ClientTypes'
    BY <1>0, <2>1 DEF ClientTypes
  <2>4. PollOK'
    BY <1>0, <2>1 DEF PollOK, ClockAdvances
  <2> QED BY <2>2, <2>3, <2>4 DEF BaseInv
<1>3. ASSUME NEW m \in 0 .. Len(wire), PollRead(m) PROVE BaseInv'
  <2>1. UNCHANGED decoderVars /\ UNCHANGED <<stalls, delivered, sent>> /\ pc' = "inject"
    BY <1>3 DEF PollRead
  <2>2. DecoderHolds'
    BY <1>0, <2>1, DecoderHoldsStep
  <2>3. ClientTypes'
    BY <1>0, <1>3, <2>1, StreamRead DEF ClientTypes
  <2>4. PollOK'
    BY <1>0, <2>1 DEF PollOK, decoderVars, timerVars
  <2> QED BY <2>2, <2>3, <2>4 DEF BaseInv
<1>4. CASE PollInject
  <2>1. /\ ~panicked /\ pc = "inject" /\ UNCHANGED <<stalls, wire, pc, delivered, sent>>
        /\ Head(buf) \in Byte /\ inject(Head(buf)) /\ buf' \in Seq(Byte)
    BY <1>0, <1>4, StreamInject DEF PollInject
  <2>2. DecoderHolds'
    BY <1>0, <2>1, DecoderHoldsStep
  <2>3. ClientTypes'
    BY <1>0, <2>1 DEF ClientTypes
  <2>4. since_progress' = since_progress
    BY <2>1, InjectTimer
  <2>5. PollOK'
    BY <1>0, <2>1, <2>4 DEF PollOK
  <2> QED BY <2>2, <2>3, <2>5 DEF BaseInv
<1>5. CASE PollTick
  <2>1. /\ ~panicked /\ buf = <<>> /\ tick /\ pc' = "get"
        /\ UNCHANGED <<stalls, wire, buf, delivered, sent>>
    BY <1>5 DEF PollTick
  <2>2. DecoderHolds'
    BY <1>0, <2>1, DecoderHoldsStep
  <2>3. ClientTypes'
    BY <1>0, <2>1 DEF ClientTypes
  <2>4. since_progress' \in {since_progress, 0}
    BY <2>1 DEF tick, timerVars
  <2>5. PollOK'
    BY <1>0, <2>1, <2>4 DEF PollOK
  <2> QED BY <2>2, <2>3, <2>5 DEF BaseInv
<1>6. CASE PollGet
  <2>1. /\ ~panicked /\ pc = "get" /\ get /\ delivered' = Append(delivered, GetResult)
        /\ UNCHANGED <<stalls, wire, pc, buf, sent>>
    BY <1>6 DEF PollGet
  <2>2. DecoderHolds'
    BY <1>0, <2>1, DecoderHoldsStep
  <2>3. delivered' \in Seq(Item)
    BY <1>0, <2>1, GetItem DEF ClientTypes
  <2>4. ClientTypes'
    BY <1>0, <2>1, <2>3 DEF ClientTypes
  <2>5. since_progress' = since_progress
    BY <2>1 DEF get, timerVars
  <2>6. PollOK'
    BY <1>0, <2>1, <2>5 DEF PollOK
  <2> QED BY <2>2, <2>4, <2>6 DEF BaseInv
<1>7. CASE PollReturn
  <2>1. /\ UNCHANGED decoderVars /\ UNCHANGED <<stalls, wire, buf, delivered, sent>>
        /\ pc = "get" /\ pc' = "read" /\ frames = <<>> /\ ~(raw_head > 0)
    BY <1>7 DEF PollReturn, CanGet
  <2>2. DecoderHolds'
    BY <1>0, <2>1, DecoderHoldsStep
  <2>3. ClientTypes'
    BY <1>0, <2>1 DEF ClientTypes
  <2>4. raw_head = 0
    BY <1>0, <2>1 DEF DecoderHolds, TypeInv, DecoderInv, StateOK
  <2>5. PollOK'
    BY <1>0, <2>1, <2>4 DEF PollOK, decoderVars, timerVars
  <2> QED BY <2>2, <2>3, <2>5 DEF BaseInv
<1>8. CASE UNCHANGED vars
  <2>1. UNCHANGED decoderVars /\ UNCHANGED clientVars
    BY <1>8 DEF vars
  <2>2. DecoderHolds'
    BY <1>0, <2>1, DecoderHoldsStep
  <2>3. ClientTypes' /\ PollOK'
    BY <1>0, <2>1 DEF ClientTypes, PollOK, clientVars, decoderVars, timerVars
  <2> QED BY <2>2, <2>3 DEF BaseInv
<1> QED BY <1>1, <1>2, <1>3, <1>4, <1>5, <1>6, <1>7, <1>8 DEF ClientNext, poll

-----------------------------------------------------------------------------
(* What is left of a sequence after its first elements.                    *)

Suf(s, m) == SubSeq(s, m + 1, Len(s))

\* Its elements.
LEMMA SufIs ==
    ASSUME NEW S, NEW s \in Seq(S), NEW m \in 0 .. Len(s)
    PROVE  /\ Suf(s, m) \in Seq(S) /\ Len(Suf(s, m)) = Len(s) - m
           /\ \A i \in 1 .. Len(s) - m : Suf(s, m)[i] = s[m + i]
BY DEF Suf

\* A sequence is given by its length and its elements.
LEMMA SameSeq ==
    ASSUME NEW S, NEW a \in Seq(S), NEW b \in Seq(S), Len(a) = Len(b),
           \A i \in 1 .. Len(a) : a[i] = b[i]
    PROVE  a = b
OBVIOUS

\* All is left after none, nothing after all.
LEMMA SufEnds ==
    ASSUME NEW S, NEW s \in Seq(S)
    PROVE  Suf(s, 0) = s /\ Suf(s, Len(s)) = <<>>
<1>0. 0 \in 0 .. Len(s) /\ Len(s) \in 0 .. Len(s)
  OBVIOUS
<1>1. PICK a \in Seq(S), b \in Seq(S) : a = Suf(s, 0) /\ b = Suf(s, Len(s))
  BY <1>0, SufIs, Zenon
<1>2. Len(a) = Len(s) - 0 /\ \A i \in 1 .. Len(s) - 0 : a[i] = s[0 + i]
  BY <1>0, <1>1, SufIs, Zenon
<1>3. Len(a) = Len(s) /\ \A i \in 1 .. Len(a) : a[i] = s[i]
  BY <1>2
<1>4. Len(b) = Len(s) - Len(s)
  BY <1>0, <1>1, SufIs, Zenon
<1>5. b = <<>>
  BY <1>4
<1>6. a = s
  BY <1>3, SameSeq
<1> QED BY <1>1, <1>5, <1>6, Zenon

\* One element fewer.
LEMMA SufStep ==
    ASSUME NEW S, NEW s \in Seq(S), NEW m \in 0 .. Len(s), m # Len(s)
    PROVE  s[m + 1] \in S /\ Suf(s, m) = <<s[m + 1]>> \o Suf(s, m + 1)
<1>0. m + 1 \in 0 .. Len(s) /\ m + 1 \in 1 .. Len(s)
  OBVIOUS
<1>1. PICK a \in Seq(S), b \in Seq(S) : a = Suf(s, m) /\ b = Suf(s, m + 1)
  BY <1>0, SufIs, Zenon
<1>2. PICK x \in S : x = s[m + 1]
  BY <1>0, ElementOfSeq
<1>3. Len(a) = Len(s) - m /\ \A i \in 1 .. Len(s) - m : a[i] = s[m + i]
  BY <1>1, SufIs, Zenon
<1>4. Len(b) = Len(s) - (m + 1) /\ \A i \in 1 .. Len(s) - (m + 1) : b[i] = s[(m + 1) + i]
  BY <1>0, <1>1, SufIs, Zenon
<1>5. PICK c \in Seq(S) : c = <<x>> /\ Len(c) = 1 /\ c[1] = x
  <2>1. <<x>> \in Seq(S) /\ Len(<<x>>) = 1 /\ <<x>>[1] = x
    OBVIOUS
  <2> QED BY <2>1, Zenon
<1>6. /\ Len(a) = Len(c) + Len(b) /\ \A k \in 1 .. Len(c) : a[k] = c[k]
      /\ \A k \in 1 .. Len(b) : a[Len(c) + k] = b[k]
  <2>1. Len(a) = Len(c) + Len(b) /\ 1 .. Len(c) = {1} /\ 1 \in 1 .. Len(s) - m
    BY <1>0, <1>3, <1>4, <1>5
  <2>2. a[1] = x
    BY <1>2, <1>3, <2>1
  <2>3. ASSUME NEW k \in 1 .. Len(b) PROVE a[1 + k] = b[k]
    <3>1. /\ 1 + k \in 1 .. Len(s) - m /\ k \in 1 .. Len(s) - (m + 1)
          /\ m + (1 + k) = (m + 1) + k
      BY <1>4
    <3> QED BY <1>3, <1>4, <3>1
  <2> QED BY <1>5, <2>1, <2>2, <2>3
<1>7. a = c \o b
  BY <1>6, Check!IsJoin
<1> QED BY <1>1, <1>2, <1>5, <1>7, Zenon

\* What is left of two sequences joined.
LEMMA SufCat ==
    ASSUME NEW S, NEW s \in Seq(S), NEW t \in Seq(S), NEW m \in 0 .. Len(s) + Len(t)
    PROVE  /\ m <= Len(s) => Suf(s \o t, m) = Suf(s, m) \o t
           /\ m >= Len(s) => Suf(s \o t, m) = Suf(t, m - Len(s))
<1>1. PICK c \in Seq(S) : c = s \o t
  BY CatElements, Zenon
<1>2. /\ Len(c) = Len(s) + Len(t)
      /\ \A i \in 1 .. Len(s) : c[i] = s[i]
      /\ \A i \in 1 .. Len(t) : c[Len(s) + i] = t[i]
  BY <1>1, CatElements
<1>3. m \in 0 .. Len(c)
  BY <1>2
<1>4. PICK u \in Seq(S) : u = Suf(c, m)
  BY <1>3, SufIs, Zenon
<1>5. Len(u) = Len(c) - m /\ \A i \in 1 .. Len(c) - m : u[i] = c[m + i]
  BY <1>3, <1>4, SufIs, Zenon
<1>6. ASSUME m <= Len(s) PROVE Suf(s \o t, m) = Suf(s, m) \o t
  <2>1. m \in 0 .. Len(s)
    BY <1>6
  <2>2. PICK a \in Seq(S) : a = Suf(s, m)
    BY <2>1, SufIs, Zenon
  <2>3. Len(a) = Len(s) - m /\ \A i \in 1 .. Len(s) - m : a[i] = s[m + i]
    BY <2>1, <2>2, SufIs, Zenon
  <2>4. Len(u) = Len(a) + Len(t)
    BY <1>2, <1>5, <2>3
  <2>5. ASSUME NEW k \in 1 .. Len(a) PROVE u[k] = a[k]
    <3>1. k \in 1 .. Len(c) - m /\ k \in 1 .. Len(s) - m /\ m + k \in 1 .. Len(s)
      BY <1>2, <2>1, <2>3
    <3> QED BY <1>2, <1>5, <2>3, <3>1
  <2>6. ASSUME NEW k \in 1 .. Len(t) PROVE u[Len(a) + k] = t[k]
    <3>1. Len(a) + k \in 1 .. Len(c) - m /\ m + (Len(a) + k) = Len(s) + k
      BY <1>2, <2>1, <2>3
    <3> QED BY <1>2, <1>5, <3>1
  <2>7. u = a \o t
    BY <2>4, <2>5, <2>6, Check!IsJoin
  <2> QED BY <1>1, <1>4, <2>2, <2>7, Zenon
<1>7. ASSUME m >= Len(s) PROVE Suf(s \o t, m) = Suf(t, m - Len(s))
  <2>1. m - Len(s) \in 0 .. Len(t)
    BY <1>7
  <2>2. PICK a \in Seq(S) : a = Suf(t, m - Len(s))
    BY <2>1, SufIs, Zenon
  <2>3. /\ Len(a) = Len(t) - (m - Len(s))
        /\ \A i \in 1 .. Len(t) - (m - Len(s)) : a[i] = t[(m - Len(s)) + i]
    BY <2>1, <2>2, SufIs, Zenon
  <2>4. Len(u) = Len(a)
    BY <1>2, <1>5, <2>3
  <2>5. ASSUME NEW k \in 1 .. Len(u) PROVE u[k] = a[k]
    <3>1. /\ k \in 1 .. Len(c) - m /\ k \in 1 .. Len(t) - (m - Len(s))
          /\ (m - Len(s)) + k \in 1 .. Len(t)
          /\ m + k = Len(s) + ((m - Len(s)) + k)
      BY <1>2, <1>5, <1>7, <2>3
    <3> QED BY <1>2, <1>5, <2>3, <3>1
  <2>6. u = a
    BY <2>4, <2>5, SameSeq
  <2> QED BY <1>1, <1>4, <2>2, <2>6, Zenon
<1> QED BY <1>6, <1>7, Zenon

-----------------------------------------------------------------------------
(* Where reads may cut the line.                                           *)

\* l bytes of the frame w are left, and the first of them is behind its first EOF
\* and not behind its checksum.
OpenCut(w, l) == IsFrame(w) /\ 3 <= l /\ l <= Eofs1(w) + CHECKSUM_LEN + 1

Unread(m) == Len(FlattenSeq(Suf(wire, m)))
Later(n) == Len(AllBytes(Suf(sent, n)))

\* No piece of the line ends there.
CutsOK ==
    \A m \in 0 .. Len(wire), n \in 1 .. Len(sent) : ~OpenCut(sent[n], Unread(m) - Later(n))

\* How long a frame is.
LEMMA FrameLen ==
    ASSUME NEW w \in Writes, IsFrame(w)
    PROVE  /\ Len(Bytes(w)) = DataEndsAt(w) + Eofs1(w) + CHECKSUM_LEN + 2
           /\ DataEndsAt(w) \in Nat /\ DataEndsAt(w) >= 2 /\ Eofs1(w) \in {1, 2}
           /\ Len(Bytes(w)) \in Nat /\ CHECKSUM_LEN \in Nat /\ CHECKSUM_LEN >= 1
<1>1. /\ Len(Bytes(w)) = 2 + Len(Escape(w.data)) + Eofs1(w) + Len(SumOf(w)) + 2
      /\ Escape(w.data) \in Seq(Byte)
  BY FrameLayout DEF LaidOut
<1>2. Len(SumOf(w)) = CHECKSUM_LEN /\ Eofs1(w) \in {1, 2} /\ Bytes(w) \in Seq(Byte)
  BY FrameTypes
<1>3. Len(Escape(w.data)) \in Nat /\ Len(Bytes(w)) \in Nat
  BY <1>1, <1>2
<1> QED BY <1>1, <1>2, <1>3, SizeAssumption DEF DataEndsAt

\* A cut before the trailer, or behind the checksum.
LEMMA CutOutside ==
    ASSUME NEW d \in Nat, NEW n \in Nat, NEW c \in Nat, NEW l \in Nat, NEW k \in Nat,
           l = d + n + c + 2, k < d + 1 \/ k >= l - 2
    PROVE  ~(3 <= l - k /\ l - k <= n + c + 1)
OBVIOUS

\* A frame is longer than its trailer.
LEMMA FrameRoom ==
    ASSUME NEW w \in Writes, IsFrame(w)
    PROVE  /\ Len(Bytes(w)) >= Eofs1(w) + CHECKSUM_LEN + 4 /\ Len(Bytes(w)) \in Nat
           /\ Eofs1(w) \in Nat /\ CHECKSUM_LEN \in Nat
BY FrameLen

\* What is left of two elements.
LEMMA SufOfTwo ==
    ASSUME NEW S, NEW x \in S, NEW y \in S, NEW j \in 1 .. Len(<<x, y>>),
           j # Len(<<x, y>>)
    PROVE  Suf(<<x, y>>, j) = <<y>>
<1>1. /\ <<x>> \in Seq(S) /\ <<y>> \in Seq(S) /\ <<x, y>> \in Seq(S)
      /\ <<x, y>> = <<x>> \o <<y>>
  BY PairSeq
<1>2. j = 1 /\ Len(<<x>>) = 1 /\ Len(<<y>>) = 1
  OBVIOUS
<1>3. PICK a \in Seq(S), b \in Seq(S) : a = <<x>> /\ b = <<y>>
  BY <1>1, Zenon
<1>4. 1 \in 0 .. Len(a) + Len(b) /\ 1 >= Len(a) /\ 1 - Len(a) = 0
  BY <1>2, <1>3
<1>5. Suf(a \o b, 1) = Suf(b, 1 - Len(a))
  BY <1>4, SufCat
<1>6. Suf(b, 0) = b
  BY SufEnds
<1> QED BY <1>1, <1>2, <1>3, <1>4, <1>5, <1>6, Zenon

\* A sequence of one element has length 1.
LEMMA OneLong == \A x : Len(<<x>>) = 1
OBVIOUS

\* How a write may be cut into pieces.
CutInto(w, ps) ==
    \/ ps = <<Bytes(w)>>
    \/ \E k \in CutPoints(w) :
         /\ k \in 1 .. Len(Bytes(w)) - 1
         /\ ps = <<SubSeq(Bytes(w), 1, k), SubSeq(Bytes(w), k + 1, Len(Bytes(w)))>>

\* What is left of a write behind a cut of its own.
LEMMA PieceCuts ==
    ASSUME ~SplitTrailer, NEW w \in Writes, NEW ps \in Seq(Piece), CutInto(w, ps),
           NEW j \in 1 .. Len(ps)
    PROVE  LET l == Len(FlattenSeq(Suf(ps, j)))
           IN  l \in 0 .. Len(Bytes(w)) /\ ~OpenCut(w, l)
<1>0. PICK b \in Seq(Byte) : b = Bytes(w)
  BY TrafficAssumption
<1>1. ASSUME j = Len(ps) PROVE Len(FlattenSeq(Suf(ps, j))) = 0
  <2>1. Suf(ps, j) = <<>>
    BY <1>1, SufEnds
  <2>2. FlattenSeq(Suf(ps, j)) = <<>>
    BY <2>1, FlatPieces
  <2> QED BY <2>2
<1>2. CASE j = Len(ps)
  BY <1>0, <1>1, <1>2 DEF OpenCut
<1>3. CASE j # Len(ps)
  <2>1. PICK k \in CutPoints(w) :
          /\ k \in 1 .. Len(b) - 1
          /\ ps = <<SubSeq(b, 1, k), SubSeq(b, k + 1, Len(b))>>
    <3>1. ps # <<b>>
      <4>1. ps = <<b>> => Len(ps) = 1
        BY OneLong, Zenon
      <4>2. ASSUME NEW l, NEW i \in 1 .. l, i # l PROVE l # 1
        BY <4>2
      <4>3. Len(ps) # 1
        BY <1>3, <4>2, Zenon
      <4> QED BY <4>1, <4>3, Zenon
    <3> QED BY <1>0, <3>1, Zenon DEF CutInto
  <2>2. PICK x \in Piece, y \in Piece : ps = <<x, y>> /\ Len(y) = Len(b) - k
    <3>1. /\ SubSeq(b, 1, k) \in Seq(Byte) /\ SubSeq(b, k + 1, Len(b)) \in Seq(Byte)
          /\ Len(SubSeq(b, k + 1, Len(b))) = Len(b) - k
      BY <2>1
    <3> QED BY <2>1, <3>1, PieceIs, Zenon
  <2>3. Suf(ps, j) = <<y>>
    BY <1>3, <2>2, SufOfTwo, Zenon
  <2>4. FlattenSeq(Suf(ps, j)) = y
    BY <2>3, FlatPieces
  <2>5. Len(FlattenSeq(Suf(ps, j))) = Len(b) - k
    BY <2>2, <2>4, Zenon
  <2>6. k \in 1 .. Len(b) - 1 /\ Len(b) \in Nat
    BY <2>1
  <2>7. ~OpenCut(w, Len(b) - k)
    <3>1. CASE IsFrame(w)
      <4>1. k < Len(EncodeBody(w.type_byte, w.data)) \/ k >= Len(b) - 2
        BY <1>0, <3>1 DEF CutPoints
      <4>2. k < DataEndsAt(w) + 1 \/ k >= Len(b) - 2
        BY <3>1, <4>1, FrameLayout
      <4>3. /\ Len(b) = DataEndsAt(w) + Eofs1(w) + CHECKSUM_LEN + 2
            /\ DataEndsAt(w) \in Nat /\ Eofs1(w) \in {1, 2} /\ CHECKSUM_LEN \in Nat
        BY <1>0, <3>1, FrameLen
      <4>4. PICK d \in Nat, n \in Nat, l \in Nat :
              d = DataEndsAt(w) /\ n = Eofs1(w) /\ l = Len(b) /\ l = d + n + CHECKSUM_LEN + 2
        BY <2>6, <4>3
      <4>5. k \in Nat /\ CHECKSUM_LEN \in Nat
        BY <2>6, <4>3
      <4>6. k < d + 1 \/ k >= l - 2
        BY <4>2, <4>4, Zenon
      <4>7. ~(3 <= l - k /\ l - k <= n + CHECKSUM_LEN + 1)
        BY <4>4, <4>5, <4>6, CutOutside, Zenon
      <4> QED BY <4>4, <4>7, Zenon DEF OpenCut
    <3>2. CASE ~IsFrame(w)
      BY <3>2 DEF OpenCut
    <3> QED BY <3>1, <3>2
  <2>8. Len(b) - k \in 0 .. Len(b)
    BY <2>6
  <2> QED BY <1>0, <2>5, <2>7, <2>8, Zenon
<1> QED BY <1>2, <1>3

\* The bytes that are unread behind a cut of the line.
LEMMA UnreadWrite ==
    ASSUME ~SplitTrailer, ClientTypes, NEW w \in Traffic[stalls], DeviceWrites(w)
    PROVE  /\ Len(wire) \in Nat /\ Len(wire') \in Nat
           /\ \A m \in 0 .. Len(wire) :
                 Unread(m) \in Nat /\ Unread(m)' = Unread(m) + Len(Bytes(w))
           /\ \A m \in 0 .. Len(wire') : m > Len(wire) =>
                 Unread(m)' \in 0 .. Len(Bytes(w)) /\ ~OpenCut(w, Unread(m)')
<1>0. wire \in Seq(Piece) /\ w \in Writes /\ Bytes(w) \in Seq(Byte)
  BY WriteTypes DEF ClientTypes
<1>1. PICK ps \in Seq(Piece) :
        wire' = wire \o ps /\ FlattenSeq(ps) = Bytes(w) /\ CutInto(w, ps)
  BY WriteStream, Zenon DEF CutInto
<1>2. wire' = wire \o ps /\ FlattenSeq(ps) = Bytes(w)
  BY <1>1
<1>3. Len(wire') = Len(wire) + Len(ps) /\ Len(wire) \in Nat /\ Len(ps) \in Nat
  BY <1>0, <1>2, CatElements
<1>4. ASSUME NEW m \in 0 .. Len(wire)
      PROVE  Unread(m) \in Nat /\ Unread(m)' = Unread(m) + Len(Bytes(w))
  <2>1. m \in 0 .. Len(wire) + Len(ps) /\ m <= Len(wire)
    BY <1>3
  <2>2. Suf(wire \o ps, m) = Suf(wire, m) \o ps /\ Suf(wire, m) \in Seq(Piece)
    BY <1>0, <2>1, SufCat, SufIs
  <2>3. FlattenSeq(Suf(wire \o ps, m)) = FlattenSeq(Suf(wire, m)) \o Bytes(w)
    BY <1>2, <2>2, FlatPieces
  <2>4. FlattenSeq(Suf(wire, m)) \in Seq(Byte)
    BY <2>2, FlatPieces
  <2>5. Unread(m)' = Len(FlattenSeq(Suf(wire, m)) \o Bytes(w))
    BY <1>2, <2>3 DEF Unread
  <2> QED BY <1>0, <2>4, <2>5, CatElements DEF Unread
<1>5. ASSUME NEW m \in 0 .. Len(wire'), m > Len(wire)
      PROVE  Unread(m)' \in 0 .. Len(Bytes(w)) /\ ~OpenCut(w, Unread(m)')
  <2>1. PICK j \in 1 .. Len(ps) : j = m - Len(wire)
    BY <1>3, <1>5
  <2>2. m \in 0 .. Len(wire) + Len(ps) /\ m >= Len(wire)
    BY <1>3, <1>5
  <2>3. Suf(wire \o ps, m) = Suf(ps, j)
    BY <1>0, <2>1, <2>2, SufCat
  <2>4. Unread(m)' = Len(FlattenSeq(Suf(ps, j)))
    BY <1>2, <2>3 DEF Unread
  <2>5. LET l == Len(FlattenSeq(Suf(ps, j)))
        IN  l \in 0 .. Len(Bytes(w)) /\ ~OpenCut(w, l)
    BY <1>0, <1>1, PieceCuts
  <2> QED BY <2>4, <2>5
<1> QED BY <1>3, <1>4, <1>5

\* The bytes of the writes after one.
LEMMA LaterWrite ==
    ASSUME ClientTypes, NEW w \in Traffic[stalls], DeviceWrites(w)
    PROVE  /\ Len(sent) \in Nat /\ Len(sent') = Len(sent) + 1
           /\ \A n \in 1 .. Len(sent) :
                 /\ Later(n) \in Nat /\ Later(n)' = Later(n) + Len(Bytes(w))
                 /\ sent'[n] = sent[n]
           /\ \A n : n = Len(sent) + 1 => Later(n)' = 0 /\ sent'[n] = w
<1>0. /\ sent \in Seq(Writes) /\ w \in Writes /\ Bytes(w) \in Seq(Byte) /\ Len(sent) \in Nat
      /\ sent' = Append(sent, w)
  BY WriteTypes DEF ClientTypes, DeviceWrites
<1>1. <<w>> \in Seq(Writes) /\ sent' = sent \o <<w>> /\ Len(<<w>>) = 1
  BY <1>0
<1>2. Len(sent') = Len(sent) + 1 /\ sent'[Len(sent) + 1] = w /\ sent' \in Seq(Writes)
  BY <1>0
<1>3. ASSUME NEW n \in 1 .. Len(sent)
      PROVE  /\ Later(n) \in Nat /\ Later(n)' = Later(n) + Len(Bytes(w))
             /\ sent'[n] = sent[n]
  <2>1. n \in 0 .. Len(sent) + Len(<<w>>) /\ n <= Len(sent) /\ n \in 0 .. Len(sent)
    BY <1>0, <1>1
  <2>2. Suf(sent \o <<w>>, n) = Suf(sent, n) \o <<w>> /\ Suf(sent, n) \in Seq(Writes)
    BY <1>0, <1>1, <2>1, SufCat, SufIs
  <2>3. /\ AllBytes(Suf(sent \o <<w>>, n)) = AllBytes(Suf(sent, n)) \o Bytes(w)
        /\ AllBytes(Suf(sent, n)) \in Seq(Byte)
    BY <1>0, <1>1, <2>2, AllBytesCat
  <2>4. Later(n)' = Len(AllBytes(Suf(sent, n)) \o Bytes(w))
    BY <1>1, <2>3 DEF Later
  <2>5. Later(n) \in Nat /\ Later(n)' = Later(n) + Len(Bytes(w))
    BY <1>0, <2>3, <2>4, CatElements DEF Later
  <2> QED BY <1>0, <2>5
<1>4. ASSUME NEW n, n = Len(sent) + 1 PROVE Later(n)' = 0 /\ sent'[n] = w
  <2>1. Suf(sent', n) = <<>>
    BY <1>2, <1>4, SufEnds
  <2>2. AllBytes(Suf(sent', n)) = <<>>
    BY <2>1, AllBytesCat
  <2> QED BY <1>2, <1>4, <2>2 DEF Later
<1> QED BY <1>0, <1>2, <1>3, <1>4

\* A write adds no forbidden cut.
LEMMA CutsWrite ==
    ASSUME ~SplitTrailer, ClientTypes, CutsOK, NEW w \in Traffic[stalls], DeviceWrites(w)
    PROVE  CutsOK'
<1> SUFFICES ASSUME NEW m \in 0 .. Len(wire'), NEW n \in 1 .. Len(sent')
             PROVE  ~OpenCut(sent'[n], Unread(m)' - Later(n)')
  BY DEF CutsOK
<1>0. /\ w \in Writes /\ Len(Bytes(w)) \in Nat /\ Len(wire) \in Nat /\ Len(wire') \in Nat
      /\ Len(sent) \in Nat /\ Len(sent') = Len(sent) + 1
  BY WriteTypes, UnreadWrite, LaterWrite
<1>1. CASE m <= Len(wire) /\ n <= Len(sent)
  <2>1. m \in 0 .. Len(wire) /\ n \in 1 .. Len(sent)
    BY <1>0, <1>1
  <2>2. /\ Unread(m) \in Nat /\ Unread(m)' = Unread(m) + Len(Bytes(w))
        /\ Later(n) \in Nat /\ Later(n)' = Later(n) + Len(Bytes(w)) /\ sent'[n] = sent[n]
    BY <2>1, UnreadWrite, LaterWrite
  <2>3. Unread(m)' - Later(n)' = Unread(m) - Later(n)
    BY <1>0, <2>2
  <2> QED BY <2>1, <2>2, <2>3 DEF CutsOK
<1>2. CASE m <= Len(wire) /\ n = Len(sent) + 1
  <2>1. m \in 0 .. Len(wire)
    BY <1>0, <1>2
  <2>2. /\ Unread(m) \in Nat /\ Unread(m)' = Unread(m) + Len(Bytes(w))
        /\ Later(n)' = 0 /\ sent'[n] = w
    BY <1>2, <2>1, UnreadWrite, LaterWrite
  <2>3. CASE IsFrame(w)
    <3>0. /\ Len(Bytes(w)) >= Eofs1(w) + CHECKSUM_LEN + 4 /\ Len(Bytes(w)) \in Nat
          /\ Eofs1(w) \in Nat /\ CHECKSUM_LEN \in Nat
      BY <1>0, <2>3, FrameRoom
    <3>1. PICK l \in Nat, e \in Nat, u \in Nat :
            /\ l = Len(Bytes(w)) /\ e = Eofs1(w) /\ u = Unread(m)
            /\ l >= e + CHECKSUM_LEN + 4 /\ CHECKSUM_LEN \in Nat
      BY <2>2, <3>0, Zenon
    <3>2. Unread(m)' - Later(n)' = u + l
      BY <2>2, <3>1
    <3>3. ~(u + l <= e + CHECKSUM_LEN + 1)
      BY <3>1
    <3> QED BY <2>2, <3>1, <3>2, <3>3, Zenon DEF OpenCut
  <2>4. CASE ~IsFrame(w)
    BY <2>2, <2>4 DEF OpenCut
  <2> QED BY <2>3, <2>4
<1>3. CASE m > Len(wire) /\ n <= Len(sent)
  <2>1. n \in 1 .. Len(sent)
    BY <1>0, <1>3
  <2>2. /\ Unread(m)' \in 0 .. Len(Bytes(w))
        /\ Later(n) \in Nat /\ Later(n)' = Later(n) + Len(Bytes(w))
    BY <1>3, <2>1, UnreadWrite, LaterWrite
  <2>3. ~(3 <= Unread(m)' - Later(n)')
    BY <1>0, <2>2
  <2> QED BY <2>3 DEF OpenCut
<1>4. CASE m > Len(wire) /\ n = Len(sent) + 1
  <2>1. /\ Unread(m)' \in 0 .. Len(Bytes(w)) /\ ~OpenCut(w, Unread(m)')
        /\ Later(n)' = 0 /\ sent'[n] = w
    BY <1>4, UnreadWrite, LaterWrite
  <2>2. Unread(m)' - Later(n)' = Unread(m)'
    BY <1>0, <2>1
  <2> QED BY <2>1, <2>2
<1> QED BY <1>0, <1>1, <1>2, <1>3, <1>4

\* A read takes cuts away.
LEMMA CutsRead ==
    ASSUME ClientTypes, CutsOK, NEW m0 \in 0 .. Len(wire), PollRead(m0)
    PROVE  CutsOK'
<1> SUFFICES ASSUME NEW m \in 0 .. Len(wire'), NEW n \in 1 .. Len(sent')
             PROVE  ~OpenCut(sent'[n], Unread(m)' - Later(n)')
  BY DEF CutsOK
<1>0. wire \in Seq(Piece) /\ wire' = Suf(wire, m0) /\ sent' = sent
  BY DEF ClientTypes, PollRead, Suf
<1>1. PICK a \in Seq(Piece), b \in Seq(Piece) : wire = a \o b /\ wire' = b /\ Len(a) = m0
  <2>1. /\ SubSeq(wire, 1, m0) \in Seq(Piece) /\ SubSeq(wire, m0 + 1, Len(wire)) \in Seq(Piece)
        /\ wire = SubSeq(wire, 1, m0) \o SubSeq(wire, m0 + 1, Len(wire))
    BY <1>0, CutWire
  <2>2. Len(SubSeq(wire, 1, m0)) = m0
    BY <1>0
  <2> QED BY <1>0, <2>1, <2>2, Zenon DEF Suf
<1>2. Len(wire) = Len(a) + Len(b) /\ Len(a) \in Nat /\ Len(b) \in Nat
  <2>1. Len(a \o b) = Len(a) + Len(b)
    BY CatElements
  <2>2. Len(a) \in Nat /\ Len(b) \in Nat
    OBVIOUS
  <2> QED BY <1>1, <2>1, <2>2, Zenon
<1>3. m \in 0 .. Len(b) /\ n \in 1 .. Len(sent)
  BY <1>0, <1>1
<1>4. PICK j \in 0 .. Len(a) + Len(b) : j = Len(a) + m /\ j >= Len(a) /\ j - Len(a) = m
  BY <1>2, <1>3
<1>5. Suf(wire, j) = Suf(b, m) /\ j \in 0 .. Len(wire)
  <2>1. Suf(a \o b, j) = Suf(b, j - Len(a))
    BY <1>4, SufCat
  <2> QED BY <1>1, <1>2, <1>4, <2>1, Zenon
<1>6. Unread(m)' = Unread(j) /\ Later(n)' = Later(n)
  BY <1>0, <1>1, <1>5 DEF Unread, Later
<1> QED BY <1>0, <1>3, <1>5, <1>6 DEF CutsOK

\* No step adds one.
LEMMA CutsStep ==
    ASSUME ~SplitTrailer, ClientTypes, CutsOK, [ClientNext]_vars
    PROVE  CutsOK'
<1>1. CASE UNCHANGED <<wire, sent>>
  BY <1>1 DEF CutsOK, Unread, Later
<1>2. ASSUME NEW w \in Traffic[stalls], DeviceWrites(w) PROVE CutsOK'
  BY <1>2, CutsWrite
<1>3. ASSUME NEW m \in 0 .. Len(wire), PollRead(m) PROVE CutsOK'
  BY <1>3, CutsRead
<1>4. CASE Clock \/ PollInject \/ PollTick \/ PollGet \/ PollReturn \/ UNCHANGED vars
  BY <1>1, <1>4 DEF Clock, PollInject, PollTick, PollGet, PollReturn, vars, clientVars
<1> QED BY <1>2, <1>3, <1>4 DEF ClientNext, poll

-----------------------------------------------------------------------------
(* Some of a sequence, in order.                                           *)

Picks(out, all) ==
    \E g \in [DOMAIN out -> DOMAIN all] :
        /\ \A i, j \in DOMAIN g : i < j => g[i] < g[j]
        /\ \A i \in DOMAIN g : out[i] = all[g[i]]

\* Which of them, in terms of indices.
PickedBy(g, out, all) ==
    /\ \A i \in 1 .. Len(out) : g[i] \in 1 .. Len(all)
    /\ \A i, j \in 1 .. Len(out) : i < j => g[i] < g[j]
    /\ \A i \in 1 .. Len(out) : out[i] = all[g[i]]

\* That is the same.
LEMMA PicksIs ==
    ASSUME NEW S, NEW out \in Seq(S), NEW all \in Seq(S)
    PROVE  Picks(out, all) <=> \E g : PickedBy(g, out, all)
<1>0. DOMAIN out = 1 .. Len(out) /\ DOMAIN all = 1 .. Len(all)
  OBVIOUS
<1>1. ASSUME NEW g, PickedBy(g, out, all) PROVE Picks(out, all)
  <2> DEFINE h == [i \in 1 .. Len(out) |-> g[i]]
  <2>1. \A i \in 1 .. Len(out) : h[i] = g[i]
    OBVIOUS
  <2>2. h \in [1 .. Len(out) -> 1 .. Len(all)] /\ DOMAIN h = 1 .. Len(out)
    BY <1>1 DEF PickedBy
  <2> HIDE DEF h
  <2>3. /\ \A i, j \in DOMAIN h : i < j => h[i] < h[j]
        /\ \A i \in DOMAIN h : out[i] = all[h[i]]
    BY <1>1, <2>1, <2>2 DEF PickedBy
  <2> QED BY <1>0, <2>2, <2>3, Zenon DEF Picks
<1>2. ASSUME Picks(out, all)
      PROVE  \E g : PickedBy(g, out, all)
  <2>1. PICK g \in [1 .. Len(out) -> 1 .. Len(all)] :
          /\ \A i, j \in DOMAIN g : i < j => g[i] < g[j]
          /\ \A i \in DOMAIN g : out[i] = all[g[i]]
    BY <1>0, <1>2, Zenon DEF Picks
  <2>2. DOMAIN g = 1 .. Len(out) /\ \A i \in 1 .. Len(out) : g[i] \in 1 .. Len(all)
    OBVIOUS
  <2> QED BY <2>1, <2>2, Zenon DEF PickedBy
<1> QED BY <1>1, <1>2, Zenon

\* Nothing is some of anything.
LEMMA PicksNone == ASSUME NEW S, NEW all \in Seq(S) PROVE Picks(<<>>, all)
<1>1. <<>> \in Seq(S) /\ 1 .. Len(<<>>) = {}
  OBVIOUS
<1>2. PICK o \in Seq(S) : o = <<>> /\ 1 .. Len(o) = {}
  BY <1>1, Zenon
<1>3. Picks(o, all)
  BY <1>2, PicksIs, Zenon DEF PickedBy
<1> QED BY <1>2, <1>3, Zenon

\* Some of a sequence is some of a longer one.
LEMMA PicksMore ==
    ASSUME NEW S, NEW out \in Seq(S), NEW all \in Seq(S), NEW more \in Seq(S),
           Picks(out, all)
    PROVE  Picks(out, all \o more)
<1>1. PICK g : PickedBy(g, out, all)
  BY PicksIs, Zenon
<1>2. PICK c \in Seq(S) : c = all \o more
  BY CatElements, Zenon
<1>3. Len(c) = Len(all) + Len(more) /\ \A i \in 1 .. Len(all) : c[i] = all[i]
  BY <1>2, CatElements
<1>4. \A i \in 1 .. Len(all) : i \in 1 .. Len(c)
  BY <1>3
<1>5. /\ \A i \in 1 .. Len(out) : g[i] \in 1 .. Len(c)
      /\ \A i \in 1 .. Len(out) : out[i] = c[g[i]]
  BY <1>1, <1>3, <1>4, Zenon DEF PickedBy
<1>6. Picks(out, c)
  BY <1>1, <1>5, PicksIs, Zenon DEF PickedBy
<1> QED BY <1>2, <1>6, Zenon

\* So is a beginning of it.
LEMMA PicksFewer ==
    ASSUME NEW S, NEW out \in Seq(S), NEW tail \in Seq(S), NEW all \in Seq(S),
           Picks(out \o tail, all)
    PROVE  Picks(out, all)
<1>1. PICK c \in Seq(S) : c = out \o tail
  BY CatElements, Zenon
<1>2. Len(c) = Len(out) + Len(tail) /\ \A i \in 1 .. Len(out) : c[i] = out[i]
  BY <1>1, CatElements
<1>3. PICK g : PickedBy(g, c, all)
  BY <1>1, PicksIs, Zenon
<1>4. \A i \in 1 .. Len(out) : i \in 1 .. Len(c)
  BY <1>2
<1>5. /\ \A i \in 1 .. Len(out) : g[i] \in 1 .. Len(all)
      /\ \A i, j \in 1 .. Len(out) : i < j => g[i] < g[j]
      /\ \A i \in 1 .. Len(out) : out[i] = all[g[i]]
  BY <1>2, <1>3, <1>4, Zenon DEF PickedBy
<1> QED BY <1>5, PicksIs, Zenon DEF PickedBy

\* The same element may follow both.
LEMMA PicksBoth ==
    ASSUME NEW S, NEW out \in Seq(S), NEW all \in Seq(S), NEW x \in S, Picks(out, all)
    PROVE  Picks(out \o <<x>>, all \o <<x>>)
<1>1. PICK g : PickedBy(g, out, all)
  BY PicksIs, Zenon
<1>2. PICK c \in Seq(S), d \in Seq(S) : c = out \o <<x>> /\ d = all \o <<x>>
  <2>1. out \o <<x>> \in Seq(S) /\ all \o <<x>> \in Seq(S)
    OBVIOUS
  <2> QED BY <2>1, Zenon
<1>3. /\ Len(c) = Len(out) + 1 /\ c[Len(out) + 1] = x
      /\ \A i \in 1 .. Len(out) : c[i] = out[i]
      /\ Len(d) = Len(all) + 1 /\ d[Len(all) + 1] = x
      /\ \A i \in 1 .. Len(all) : d[i] = all[i]
  BY <1>2
<1> DEFINE h == [i \in 1 .. Len(out) + 1 |-> IF i = Len(out) + 1 THEN Len(all) + 1 ELSE g[i]]
<1>4. /\ h[Len(out) + 1] = Len(all) + 1
      /\ \A i \in 1 .. Len(out) : h[i] = g[i]
  OBVIOUS
<1> HIDE DEF h
<1>5. /\ Len(out) \in Nat /\ Len(all) \in Nat
      /\ \A i \in 1 .. Len(c) : i \in 1 .. Len(out) \/ i = Len(out) + 1
      /\ \A i \in 1 .. Len(all) : i \in 1 .. Len(d) /\ i < Len(all) + 1
      /\ Len(all) + 1 \in 1 .. Len(d)
  BY <1>3
<1>6. \A i \in 1 .. Len(c) : h[i] \in 1 .. Len(d)
  BY <1>1, <1>4, <1>5, Zenon DEF PickedBy
<1>7. \A i \in 1 .. Len(c) : c[i] = d[h[i]]
  <2> SUFFICES ASSUME NEW i \in 1 .. Len(c) PROVE c[i] = d[h[i]]
    OBVIOUS
  <2>1. CASE i \in 1 .. Len(out)
    <3>1. h[i] = g[i] /\ g[i] \in 1 .. Len(all) /\ out[i] = all[g[i]]
      BY <1>1, <1>4, <2>1, Zenon DEF PickedBy
    <3>2. c[i] = out[i] /\ d[g[i]] = all[g[i]]
      BY <1>3, <2>1, <3>1, Zenon
    <3> QED BY <3>1, <3>2, Zenon
  <2>2. CASE i = Len(out) + 1
    BY <1>3, <1>4, <2>2, Zenon
  <2> QED BY <1>5, <2>1, <2>2, Zenon
<1>8. ASSUME NEW i \in 1 .. Len(c), NEW j \in 1 .. Len(c), i < j PROVE h[i] < h[j]
  <2>1. i \in 1 .. Len(out)
    BY <1>3, <1>5, <1>8
  <2>2. CASE j \in 1 .. Len(out)
    BY <1>1, <1>4, <1>8, <2>1, <2>2, Zenon DEF PickedBy
  <2>3. CASE j = Len(out) + 1
    BY <1>1, <1>4, <1>5, <2>1, <2>3, Zenon DEF PickedBy
  <2> QED BY <1>5, <2>2, <2>3, Zenon
<1>9. Picks(c, d)
  BY <1>6, <1>7, <1>8, PicksIs, Zenon DEF PickedBy
<1> QED BY <1>2, <1>9, Zenon

-----------------------------------------------------------------------------
(* Where in the device's writes the decoder is.                            *)

\* Nothing was given up: no time passes on the line, and no byte was dropped.
Intact == ~stalls /\ drop_count = 0 /\ TIMEOUT > 0

\* What the traffic needs for the rest to hold.
Watched == Intact \/ (PlainText /\ NoFrameInside)

\* The bytes of a text, and the states they can lead to.
CalmByte == IF PlainText THEN Byte \ {EOF, ESC} ELSE Byte \ {SOF}
Calm == IF PlainText THEN {"Idle", "Sof", "Data"} ELSE {"Idle"}

\* The frames that left the decoder or wait in it, and the bytes that are settled.
Out == FramesOut \o frames
Settled == SubSeq(raw, 1, raw_head)

\* The writes of past are handed over, but for the text held.
Tally(out, text, intact, past, held) ==
    /\ Picks(out, Frames(past))
    /\ intact => out = Frames(past) /\ text \o held = Text(past)

Accounted(past, held) == Tally(Out, Text(delivered), Intact, past, held)

\* The last bytes of the open attempt are bytes of w, up to byte p.
Tracks(w, p) == \A i \in 1 .. OpenLen : raw[raw_head + i] = Bytes(w)[p - OpenLen + i]

\* In text.
Background(past, rest) ==
    state \in Calm /\ rest \in Seq(CalmByte) /\ Accounted(past, raw \o rest)

\* Behind a frame, but for its display-only CR LF.
After(past, rest) ==
    /\ \/ state = "PostFrame" /\ rest = <<CR, LF>>
       \/ state = "PostFrameCr" /\ rest = <<LF>>
    /\ Accounted(past, raw)

\* In a frame whose attempt was given up: another may be open, but its SOF is not
\* the frame's.
MissedAt(past, w, p) ==
    /\ ~Intact /\ Picks(Out, Frames(past))
    /\ IsFrame(w) /\ state \notin {"PostFrame", "PostFrameCr"}
    /\ OpenLen < p /\ Tracks(w, p)

Missed(past, rest) ==
    \E w \in Writes : \E p \in 1 .. Len(Bytes(w)) - 1 :
        rest = Suf(Bytes(w), p) /\ MissedAt(past, w, p)

\* In a frame whose bytes are those of the attempt.
GenuineState(w) ==
    \/ state = "Sof"
    \/ state \in {"Data", "DataEsc"} /\ OpenLen <= DataEndsAt(w)
    \/ /\ state = "Eof" /\ OpenLen = DataEndsAt(w) + 1 /\ Eofs1(w) = 2
       /\ data_end = raw_head + DataEndsAt(w) /\ data_len = Len(w.data)
    \/ /\ state = "Checksum" /\ OpenLen = DataEndsAt(w) + Eofs1(w) + Len(checksum_bytes)
       /\ data_end = raw_head + DataEndsAt(w) /\ data_len = Len(w.data)

GenuineAt(before, w) ==
    /\ IsFrame(w) /\ Tracks(w, OpenLen) /\ GenuineState(w) /\ Accounted(before, Settled)

Genuine(past, rest) ==
    \E before \in Seq(Writes), w \in Writes :
        /\ past = before \o <<w>> /\ rest = Suf(Bytes(w), OpenLen)
        /\ GenuineAt(before, w)

Position(past, rest) ==
    \/ Background(past, rest) \/ After(past, rest)
    \/ Missed(past, rest) \/ Genuine(past, rest)

\* The writes of future are still on the line, after the rest of the last of past.
Flow ==
    \E past \in Seq(Writes), future \in Seq(Writes), rest \in Seq(Byte) :
        /\ sent = past \o future
        /\ Stream = rest \o AllBytes(future)
        /\ Position(past, rest)

FlowInv == Watched => ~panicked /\ Flow

-----------------------------------------------------------------------------
(* What is accounted for.                                                  *)

\* Sequences of writes are sequences of items.
LEMMA WritesSeq == \A s \in Seq(Writes) : s \in Seq(Item)
<1>1. \A w \in Writes : w \in Item
  BY WritesAreItems
<1> QED BY <1>1

\* Frames are items.
LEMMA FramesSeq == \A s \in Seq(Frame) : s \in Seq(Item)
<1>1. \A w \in Frame : w \in Item
  BY DEF Frame, Item
<1> QED BY <1>1

\* The types of what is handed over.
LEMMA OutTypes ==
    ASSUME BaseInv
    PROVE  /\ FramesOut \in Seq(Item) /\ frames \in Seq(Item) /\ Out \in Seq(Item)
           /\ Text(delivered) \in Seq(Byte) /\ delivered \in Seq(Item)
           /\ raw \in Seq(Byte) /\ raw_head \in Nat /\ raw_head <= Len(raw)
           /\ Len(raw) \in Nat
           /\ state \in State
<1>1. /\ delivered \in Seq(Item) /\ frames \in Seq(Frame) /\ raw \in Seq(Byte)
      /\ raw_head \in Nat /\ raw_head <= Len(raw) /\ state \in State
  BY DEF BaseInv, ClientTypes, DecoderHolds, TypeInv, DecoderInv, StateOK, AttemptInv
<1>2. frames \in Seq(Item)
  BY <1>1, FramesSeq
<1>3. FramesOut \in Seq(Item)
  BY <1>1, FramesCat DEF FramesOut
<1>4. Out \in Seq(Item)
  BY <1>2, <1>3, CatElements DEF Out
<1>5. Text(delivered) \in Seq(Byte)
  BY <1>1, TextCat
<1>6. Len(raw) \in Nat
  BY <1>1
<1> QED BY <1>1, <1>2, <1>3, <1>4, <1>5, <1>6

\* As long as no frame moves, only the text held may differ.
LEMMA AccountedKept ==
    ASSUME NEW past, NEW held, NEW held2, Accounted(past, held),
           frames' = frames, delivered' = delivered, Intact' => Intact,
           Intact' => held = held2
    PROVE  Tally(Out', Text(delivered)', Intact', past, held2)
<1>1. Out' = Out /\ Text(delivered)' = Text(delivered)
  BY DEF Out, FramesOut
<1>2. Picks(Out', Frames(past))
  BY <1>1 DEF Accounted, Tally
<1>3. CASE Intact'
  BY <1>1, <1>2, <1>3 DEF Accounted, Tally
<1>4. CASE ~Intact'
  BY <1>2, <1>4 DEF Tally
<1> QED BY <1>3, <1>4

\* What was some of the frames stays so when more is written.
LEMMA PicksLater ==
    ASSUME BaseInv, NEW past \in Seq(Writes), NEW w \in Writes, Picks(Out, Frames(past))
    PROVE  Picks(Out, Frames(past \o <<w>>))
<1>1. past \in Seq(Item) /\ <<w>> \in Seq(Item) /\ w \in Item
  BY WritesSeq, WritesAreItems
<1>2. Frames(past \o <<w>>) = Frames(past) \o Frames(<<w>>)
  BY <1>1, FramesCat
<1>3. Frames(past) \in Seq(Item) /\ Frames(<<w>>) \in Seq(Item) /\ Out \in Seq(Item)
  BY <1>1, FramesCat, OutTypes
<1>4. Picks(Out, Frames(past) \o Frames(<<w>>))
  BY <1>3, PicksMore
<1> QED BY <1>2, <1>4, Zenon

\* Texts and frames of one more write.
LEMMA OneMore ==
    ASSUME NEW past \in Seq(Writes), NEW w \in Writes
    PROVE  /\ Frames(past \o <<w>>) = Frames(past) \o FrameOf(w)
           /\ Text(past \o <<w>>) = Text(past) \o TextOf(w)
           /\ Frames(past) \in Seq(Item) /\ Text(past) \in Seq(Byte)
           /\ past \o <<w>> \in Seq(Writes) /\ w \in Item
           /\ FrameOf(w) \in Seq(Item) /\ TextOf(w) \in Seq(Byte)
<1>1. past \in Seq(Item) /\ <<w>> \in Seq(Item) /\ w \in Item /\ past \o <<w>> \in Seq(Writes)
  BY WritesSeq, WritesAreItems
<1>2. /\ Frames(past \o <<w>>) = Frames(past) \o Frames(<<w>>) /\ Frames(<<w>>) = FrameOf(w)
      /\ Frames(past) \in Seq(Item) /\ Frames(<<w>>) \in Seq(Item)
  BY <1>1, FramesCat
<1>3. /\ Text(past \o <<w>>) = Text(past) \o Text(<<w>>) /\ Text(<<w>>) = TextOf(w)
      /\ Text(past) \in Seq(Byte) /\ Text(<<w>>) \in Seq(Byte)
  BY <1>1, TextCat
<1> QED BY <1>1, <1>2, <1>3

\* A frame that is decoded is handed over.
LEMMA AccountedFrame ==
    ASSUME BaseInv, NEW past \in Seq(Writes), NEW w \in Writes, NEW held, IsFrame(w),
           Accounted(past, held), frames' = Append(frames, w), delivered' = delivered,
           Intact' => Intact
    PROVE  Tally(Out', Text(delivered)', Intact', past \o <<w>>, held)
<1>1. /\ Frames(past \o <<w>>) = Frames(past) \o <<w>>
      /\ Text(past \o <<w>>) = Text(past) \o <<>>
      /\ Frames(past) \in Seq(Item) /\ Text(past) \in Seq(Byte) /\ w \in Item
  BY OneMore DEF FrameOf, TextOf
<1>2. Text(past \o <<w>>) = Text(past)
  BY <1>1
<1>3. FramesOut' = FramesOut /\ Text(delivered)' = Text(delivered)
  BY DEF FramesOut
<1>4. FramesOut \in Seq(Item) /\ frames \in Seq(Item) /\ Out \in Seq(Item)
  BY OutTypes
<1>5. Out' = Out \o <<w>>
  <2>1. <<w>> \in Seq(Item) /\ Append(frames, w) = frames \o <<w>>
    BY <1>1, <1>4
  <2>2. Out' = FramesOut \o (frames \o <<w>>)
    BY <1>3, <2>1 DEF Out
  <2>3. FramesOut \o (frames \o <<w>>) = (FramesOut \o frames) \o <<w>>
    BY <1>4, <2>1, CatAssoc
  <2> QED BY <2>2, <2>3, Zenon DEF Out
<1>6. Picks(Out \o <<w>>, Frames(past) \o <<w>>)
  BY <1>1, <1>4, PicksBoth DEF Accounted, Tally
<1>7. Picks(Out', Frames(past \o <<w>>))
  BY <1>1, <1>5, <1>6
<1>8. CASE Intact'
  BY <1>1, <1>2, <1>3, <1>5, <1>7, <1>8 DEF Accounted, Tally
<1>9. CASE ~Intact'
  BY <1>7, <1>9 DEF Tally
<1> QED BY <1>8, <1>9

\* get moves content from the decoder to what is handed over.
LEMMA GetMoves ==
    ASSUME BaseInv, get, delivered' = Append(delivered, GetResult), stalls' = stalls
    PROVE  /\ Out' = Out /\ state' = state /\ panicked' = panicked /\ (Intact' <=> Intact)
           /\ \/ Text(delivered)' = Text(delivered) /\ raw' = raw /\ raw_head' = raw_head
              \/ /\ Text(delivered)' = Text(delivered) \o Settled
                 /\ raw' = Suf(raw, raw_head) /\ raw_head' = 0 /\ raw = Settled \o raw'
                 /\ Settled \in Seq(Byte) /\ raw' \in Seq(Byte)
<1>0. /\ delivered \in Seq(Item) /\ frames \in Seq(Item) /\ FramesOut \in Seq(Item)
      /\ raw \in Seq(Byte) /\ raw_head \in 0 .. Len(raw) /\ Text(delivered) \in Seq(Byte)
  BY OutTypes
<1>1. GetResult \in Item /\ (frames # <<>> => Head(frames) \in Item /\ IsFrame(Head(frames)))
  BY GetItem DEF BaseInv
<1>2. PICK x \in Item : x = GetResult
  BY <1>1
<1>3. <<x>> \in Seq(Item) /\ delivered' = delivered \o <<x>>
  BY <1>0, <1>2
<1>4. /\ FramesOut' = FramesOut \o FrameOf(x) /\ Text(delivered)' = Text(delivered) \o TextOf(x)
  <2>1. Frames(delivered \o <<x>>) = Frames(delivered) \o Frames(<<x>>) /\ Frames(<<x>>) = FrameOf(x)
    BY <1>0, <1>3, FramesCat
  <2>2. Text(delivered \o <<x>>) = Text(delivered) \o Text(<<x>>) /\ Text(<<x>>) = TextOf(x)
    BY <1>0, <1>3, TextCat
  <2>3. FramesOut' = Frames(delivered \o <<x>>) /\ Text(delivered)' = Text(delivered \o <<x>>)
    BY <1>3 DEF FramesOut
  <2> QED BY <2>1, <2>2, <2>3 DEF FramesOut
<1>5. state' = state /\ panicked' = panicked /\ drop_count' = drop_count
  BY DEF get
<1>6. Intact' <=> Intact
  BY <1>5 DEF Intact
<1>7. CASE frames # <<>>
  <2>1. /\ x = Head(frames) /\ IsFrame(x) /\ frames' = Tail(frames)
        /\ raw' = raw /\ raw_head' = raw_head
    BY <1>1, <1>2, <1>7 DEF get, GetResult
  <2>2. FramesOut' = FramesOut \o <<x>> /\ Text(delivered)' = Text(delivered) \o <<>>
    BY <1>4, <2>1 DEF FrameOf, TextOf
  <2>3. Text(delivered)' = Text(delivered)
    BY <1>0, <2>2
  <2>4. frames = <<x>> \o Tail(frames) /\ Tail(frames) \in Seq(Item)
    BY <1>0, <1>7, <2>1
  <2>5. Joins(FramesOut, <<x>>, Tail(frames))
    BY <1>0, <1>3, <2>4, CatJoins
  <2>6. Out' = (FramesOut \o <<x>>) \o Tail(frames)
    BY <2>1, <2>2 DEF Out
  <2>7. Out' = Out
    BY <2>4, <2>5, <2>6, Zenon DEF Out, Joins
  <2> QED BY <1>5, <1>6, <2>1, <2>3, <2>7
<1>8. CASE frames = <<>>
  <2>1. /\ x = [type_byte |-> TYPE_RAW, data |-> Settled] /\ frames' = frames
        /\ raw' = Suf(raw, raw_head) /\ raw_head' = 0
    BY <1>2, <1>8 DEF get, GetResult, Settled, Suf
  <2>2. ~IsFrame(x) /\ x.data = Settled
    BY <2>1 DEF IsFrame
  <2>3. FramesOut' = FramesOut \o <<>> /\ Text(delivered)' = Text(delivered) \o Settled
    BY <1>4, <2>2 DEF FrameOf, TextOf
  <2>4. FramesOut' = FramesOut
    BY <1>0, <2>3
  <2>5. Out' = Out
    BY <2>1, <2>4 DEF Out
  <2>6. /\ Settled \in Seq(Byte) /\ Suf(raw, raw_head) \in Seq(Byte)
        /\ raw = Settled \o Suf(raw, raw_head)
    BY <1>0, CutWire DEF Settled, Suf
  <2> QED BY <1>5, <1>6, <2>1, <2>3, <2>5, <2>6
<1> QED BY <1>7, <1>8

\* A text that begins is held.
LEMMA TextBegins ==
    ASSUME BaseInv, PlainText \/ TextWithoutSof, NEW past \in Seq(Writes), NEW w \in Writes,
           ~IsFrame(w), Background(past, <<>>)
    PROVE  /\ Background(past \o <<w>>, Bytes(w)) /\ past \o <<w>> \in Seq(Writes)
           /\ Bytes(w) \in Seq(Byte) /\ Bytes(w) # <<>>
<1>1. Bytes(w) = w.data /\ w.data \in Seq(Byte) /\ w.data # <<>> /\ TextOf(w) = w.data
      /\ FrameOf(w) = <<>>
  BY TrafficAssumption DEF Bytes, TextOf, FrameOf
<1>2. w.data \in Seq(CalmByte)
  <2>1. \A i \in 1 .. Len(w.data) : w.data[i] \in Byte
    BY <1>1, ElementOfSeq
  <2>2. DOMAIN w.data = 1 .. Len(w.data)
    BY <1>1
  <2>3. CASE PlainText
    <3>1. \A i \in 1 .. Len(w.data) : w.data[i] \in Byte \ {EOF, ESC}
      BY <2>1, <2>2, <2>3 DEF PlainText
    <3>2. w.data \in Seq(Byte \ {EOF, ESC})
      BY <1>1, <3>1
    <3> QED BY <2>3, <3>2 DEF CalmByte
  <2>4. CASE ~PlainText
    <3>1. \A i \in 1 .. Len(w.data) : w.data[i] \in Byte \ {SOF}
      BY <2>1, <2>2, <2>4 DEF TextWithoutSof
    <3>2. w.data \in Seq(Byte \ {SOF})
      BY <1>1, <3>1
    <3> QED BY <2>4, <3>2 DEF CalmByte
  <2> QED BY <2>3, <2>4
<1>3. PICK d \in Seq(Byte) : d = w.data
  BY <1>1
<1>4. /\ Frames(past \o <<w>>) = Frames(past) \o <<>> /\ Text(past \o <<w>>) = Text(past) \o d
      /\ Frames(past) \in Seq(Item) /\ Text(past) \in Seq(Byte)
      /\ past \o <<w>> \in Seq(Writes)
  BY <1>1, <1>3, OneMore
<1>5. Frames(past \o <<w>>) = Frames(past)
  BY <1>4
<1>6. raw \in Seq(Byte) /\ Text(delivered) \in Seq(Byte)
  BY OutTypes
<1>7. Picks(Out, Frames(past)) /\ state \in Calm
  BY DEF Background, Accounted, Tally
<1>8. ASSUME Intact PROVE Out = Frames(past) /\ Text(delivered) \o (raw \o d) = Text(past) \o d
  <2>1. Out = Frames(past) /\ Text(delivered) \o (raw \o <<>>) = Text(past)
    BY <1>8 DEF Background, Accounted, Tally
  <2>2. raw \o <<>> = raw
    BY <1>6
  <2>3. (Text(delivered) \o raw) \o d = Text(delivered) \o (raw \o d)
    BY <1>6, CatAssoc
  <2> QED BY <2>1, <2>2, <2>3
<1>9. Accounted(past \o <<w>>, raw \o Bytes(w))
  BY <1>1, <1>3, <1>4, <1>5, <1>7, <1>8 DEF Accounted, Tally
<1> QED BY <1>1, <1>2, <1>4, <1>7, <1>9 DEF Background

-----------------------------------------------------------------------------
(* A byte, in each of these positions.                                     *)

\* What was lost stays lost.
LEMMA IntactBefore ==
    ASSUME BaseInv, stalls' = stalls
    PROVE  /\ drop_count' = drop_count => (Intact' <=> Intact)
           /\ Dropped => ~Intact'
<1>1. drop_count \in Nat
  BY DEF BaseInv, DecoderHolds, TypeInv, DecoderInv, StateOK
<1>2. ASSUME drop_count' = drop_count PROVE Intact' <=> Intact
  BY <1>2 DEF Intact
<1>3. ASSUME Dropped PROVE ~Intact'
  BY <1>1, <1>3 DEF Intact, Dropped
<1> QED BY <1>2, <1>3

\* A byte appended to raw is no longer to come.
LEMMA MoveByte ==
    ASSUME NEW S, NEW a \in Seq(S), NEW x \in S, NEW r \in Seq(S)
    PROVE  a \o (<<x>> \o r) = Append(a, x) \o r
<1>1. <<x>> \in Seq(S) /\ Append(a, x) = a \o <<x>>
  OBVIOUS
<1>2. (a \o <<x>>) \o r = a \o (<<x>> \o r)
  BY <1>1, CatAssoc
<1> QED BY <1>1, <1>2

\* A byte of text is held or settled.
LEMMA BackgroundInject ==
    ASSUME BaseInv, NEW past, NEW ch \in Byte, NEW r \in Seq(Byte), inject(ch),
           delivered' = delivered, stalls' = stalls, Background(past, <<ch>> \o r)
    PROVE  Background(past, r)' /\ panicked' = panicked
<1>0. raw \in Seq(Byte) /\ state \in Calm /\ Accounted(past, raw \o (<<ch>> \o r))
  BY OutTypes DEF Background
<1>1. ch \in CalmByte /\ r \in Seq(CalmByte)
  <2>1. PICK c \in Seq(CalmByte) : c = <<ch>> \o r
    BY DEF Background
  <2>2. /\ Len(c) = 1 + Len(r) /\ c[1] = ch /\ \A i \in 1 .. Len(r) : c[1 + i] = r[i]
    BY <2>1
  <2>3. \A i \in 1 .. Len(c) : c[i] \in CalmByte
    BY ElementOfSeq
  <2>4. 1 \in 1 .. Len(c) /\ \A i \in 1 .. Len(r) : 1 + i \in 1 .. Len(c)
    BY <2>2
  <2>5. ch \in CalmByte /\ \A i \in 1 .. Len(r) : r[i] \in CalmByte
    BY <2>2, <2>3, <2>4
  <2> QED BY <2>5
<1>2. /\ \/ Dropped \/ Swallowed(ch) \/ Opened(ch) \/ Grown(ch) \/ Refused(ch)
         \/ Ended(ch)
  BY InjectKinds DEF BaseInv, DecoderHolds, TypeInv
<1>3. state \notin {"PostFrame", "PostFrameCr", "Checksum"} /\ "Idle" \in Calm
  BY <1>0 DEF Calm
<1>4. CASE Dropped
  <2>1. /\ state' = "Idle" /\ frames' = frames /\ panicked' = panicked /\ ~Intact'
    BY <1>4, IntactBefore DEF Dropped
  <2>2. Tally(Out', Text(delivered)', Intact', past, raw' \o r)
    BY <1>0, <2>1, AccountedKept
  <2> QED BY <1>1, <1>3, <2>1, <2>2 DEF Background, Accounted, Calm, CalmByte
<1>5. CASE Opened(ch) \/ Grown(ch) \/ Refused(ch)
  <2>1. /\ raw' = Append(raw, ch) /\ frames' = frames /\ panicked' = panicked
        /\ drop_count' = drop_count
    BY <1>5 DEF Opened, Grown, Refused, Kept
  <2>2. raw \o (<<ch>> \o r) = raw' \o r
    BY <1>0, <2>1, MoveByte
  <2>3. Intact' => Intact
    BY <2>1, IntactBefore
  <2>4. Tally(Out', Text(delivered)', Intact', past, raw' \o r)
    BY <1>0, <2>1, <2>2, <2>3, AccountedKept
  <2>5. state' \in Calm
    <3>1. CASE PlainText
      BY <1>0, <1>1, <1>5, <3>1 DEF Opened, Grown, Refused, Calm, CalmByte
    <3>2. CASE ~PlainText
      BY <1>0, <1>1, <1>5, <3>2 DEF Opened, Grown, Refused, Calm, CalmByte
    <3> QED BY <3>1, <3>2
  <2> QED BY <1>1, <2>1, <2>4, <2>5 DEF Background, Accounted, Calm, CalmByte
<1>6. CASE Swallowed(ch) \/ Ended(ch)
  BY <1>3, <1>6 DEF Swallowed, Ended
<1> QED BY <1>2, <1>4, <1>5, <1>6

\* The bytes of a trailer.
LEMMA TrailerBytes ==
    ASSUME NEW ch \in Byte, NEW r \in Seq(Byte)
    PROVE  /\ <<ch>> \o r = <<CR, LF>> => ch = CR /\ r = <<LF>>
           /\ <<ch>> \o r = <<LF>> => ch = LF /\ r = <<>>
<1>1. PICK c \in Seq(Byte) : c = <<ch>> \o r
  <2>1. <<ch>> \o r \in Seq(Byte)
    OBVIOUS
  <2> QED BY <2>1, Zenon
<1>2. Len(c) = 1 + Len(r) /\ c[1] = ch /\ \A i \in 1 .. Len(r) : c[1 + i] = r[i]
  BY <1>1
<1>3. ASSUME NEW x \in Byte, NEW y \in Byte, Len(c) = 2, c[1] = x, c[2] = y PROVE ch = x /\ r = <<y>>
  <2>0. Len(r) \in Nat /\ Len(c) = 1 + Len(r) /\ c[1] = ch
    BY <1>2
  <2>1. Len(r) = 1 /\ ch = x
    <3>1. \A n \in Nat : 2 = 1 + n => n = 1
      OBVIOUS
    <3>3. Len(r) = 1
      BY <1>3, <2>0, <3>1, Zenon
    <3>2. ch = x
      BY <1>3, <2>0, Zenon
    <3> QED BY <3>2, <3>3
  <2>2. r[1] = y
    BY <1>2, <1>3, <2>1
  <2> QED BY <2>1, <2>2
<1>4. ASSUME NEW x, c = <<x>> PROVE ch = x /\ r = <<>>
  <2>1. Len(c) = 1 /\ c[1] = x
    BY <1>4
  <2>2. Len(r) = 0 /\ ch = x
    BY <1>2, <2>1
  <2> QED BY <2>2
<1>5. c = <<CR, LF>> => Len(c) = 2 /\ c[1] = CR /\ c[2] = LF
  OBVIOUS
<1> QED BY <1>1, <1>3, <1>4, <1>5, ByteAssumption, Zenon

\* The display-only trailer disappears.
LEMMA AfterInject ==
    ASSUME BaseInv, NEW past, NEW ch \in Byte, NEW r \in Seq(Byte), inject(ch),
           delivered' = delivered, stalls' = stalls, After(past, <<ch>> \o r)
    PROVE  (After(past, r) \/ Background(past, r))' /\ panicked' = panicked
<1>0. raw \in Seq(Byte) /\ Accounted(past, raw)
  BY OutTypes DEF After
<1>1. \/ state = "PostFrame" /\ ch = CR /\ r = <<LF>>
      \/ state = "PostFrameCr" /\ ch = LF /\ r = <<>>
  BY TrailerBytes DEF After
<1>2. Dropped \/ Swallowed(ch)
  BY <1>1, InjectKinds DEF IsTrailer, BaseInv, DecoderHolds, TypeInv
<1>3. <<LF>> \in Seq(CalmByte) /\ <<>> \in Seq(CalmByte) /\ "Idle" \in Calm
  <2>1. LF \in CalmByte
    BY ByteAssumption DEF CalmByte, LF, SOF, EOF, ESC
  <2> QED BY <2>1 DEF Calm
<1>4. r \in Seq(CalmByte)
  BY <1>1, <1>3
<1>5. CASE Dropped
  <2>1. /\ state' = "Idle" /\ frames' = frames /\ panicked' = panicked /\ ~Intact'
    BY <1>5, IntactBefore DEF Dropped
  <2>2. Tally(Out', Text(delivered)', Intact', past, raw' \o r)
    BY <1>0, <2>1, AccountedKept
  <2> QED BY <1>3, <1>4, <2>1, <2>2 DEF Background, Accounted, Calm, CalmByte
<1>6. CASE Swallowed(ch)
  <2>1. /\ raw' = raw /\ frames' = frames /\ panicked' = panicked /\ drop_count' = drop_count
    BY <1>6 DEF Swallowed, Kept
  <2>2. Intact' => Intact
    BY <2>1, IntactBefore
  <2>3. CASE state = "PostFrame"
    <3>1. state' = "PostFrameCr" /\ r = <<LF>>
      BY <1>1, <1>6, <2>3 DEF Swallowed
    <3>2. Tally(Out', Text(delivered)', Intact', past, raw')
      BY <1>0, <2>1, <2>2, AccountedKept
    <3> QED BY <2>1, <3>1, <3>2 DEF After, Accounted
  <2>4. CASE state = "PostFrameCr"
    <3>1. state' = "Idle" /\ r = <<>>
      BY <1>1, <1>6, <2>4 DEF Swallowed
    <3>2. raw' \o r = raw
      BY <1>0, <2>1, <3>1
    <3>3. Tally(Out', Text(delivered)', Intact', past, raw' \o r)
      BY <1>0, <2>1, <2>2, <3>2, AccountedKept
    <3> QED BY <1>3, <1>4, <2>1, <3>1, <3>3 DEF Background, Accounted, Calm, CalmByte
  <2> QED BY <1>1, <2>3, <2>4
<1> QED BY <1>2, <1>5, <1>6

-----------------------------------------------------------------------------
(* What is accepted looks like a frame.                                    *)

\* Equal parts of two byte strings.
LEMMA SamePart ==
    ASSUME NEW a \in Seq(Byte), NEW b \in Seq(Byte), NEW h \in Nat, NEW i \in Nat \ {0},
           NEW j \in Nat, j <= Len(a), h + j <= Len(b),
           \A k \in i .. j : a[k] = b[h + k]
    PROVE  SubSeq(a, i, j) = SubSeq(b, h + i, h + j)
<1>1. CASE j < i
  <2>1. SubSeq(a, i, j) = <<>> /\ SubSeq(b, h + i, h + j) = <<>>
    BY <1>1
  <2> QED BY <2>1
<1>2. CASE i <= j
  <2>1. /\ SubSeq(a, i, j) \in Seq(Byte) /\ Len(SubSeq(a, i, j)) = j - i + 1
        /\ \A k \in 1 .. j - i + 1 : SubSeq(a, i, j)[k] = a[i + k - 1]
    BY <1>2
  <2>2. /\ SubSeq(b, h + i, h + j) \in Seq(Byte) /\ Len(SubSeq(b, h + i, h + j)) = j - i + 1
        /\ \A k \in 1 .. j - i + 1 : SubSeq(b, h + i, h + j)[k] = b[h + i + k - 1]
    BY <1>2
  <2>3. PICK x \in Seq(Byte), y \in Seq(Byte) :
          /\ x = SubSeq(a, i, j) /\ y = SubSeq(b, h + i, h + j)
          /\ Len(x) = j - i + 1 /\ Len(y) = j - i + 1
          /\ \A k \in 1 .. j - i + 1 : x[k] = a[i + k - 1]
          /\ \A k \in 1 .. j - i + 1 : y[k] = b[h + i + k - 1]
    BY <2>1, <2>2, Zenon
  <2>4. ASSUME NEW k \in 1 .. j - i + 1 PROVE x[k] = y[k]
    <3>1. x[k] = a[i + k - 1] /\ y[k] = b[h + i + k - 1]
      BY <2>3, Zenon
    <3>2. i + k - 1 \in i .. j /\ h + i + k - 1 = h + (i + k - 1)
      BY <1>2
    <3> QED BY <3>1, <3>2
  <2>5. Len(x) = Len(y) /\ \A k \in 1 .. Len(x) : x[k] = y[k]
    BY <2>3, <2>4, Zenon
  <2>6. x = y
    BY <2>5, SameSeq
  <2> QED BY <2>3, <2>6, Zenon
<1> QED BY <1>1, <1>2

\* The parts that make bytes look like a frame.
LEMMA LooksIntro ==
    ASSUME NEW z, NEW e \in 3 .. Len(z), NEW x, NEW n, NEW c,
           x = SubSeq(z, 3, e - 1), ~Unescape(x).esc, n = EofCount(Len(Unescape(x).out)),
           c = SubSeq(z, e + n, Len(z)), z[1] = SOF, Len(z) = e + n - 1 + CHECKSUM_LEN,
           \A i \in e .. e + n - 1 : z[i] = EOF,
           c \in CsumSentinels \/ c = CsumFinalize(RunOver(z[2], Unescape(x).out, n))
    PROVE  LooksLikeFrame(z)
BY Zenon DEF LooksLikeFrame

\* The bytes of the open attempt and one more.
AttemptAnd(z, ch) ==
    /\ Len(z) = OpenLen + 1 /\ z[OpenLen + 1] = ch
    /\ \A i \in 1 .. OpenLen : z[i] = raw[raw_head + i]

\* An attempt whose checksum is accepted is one.
LEMMA AcceptedLooks ==
    ASSUME DecoderHolds, NEW ch \in Byte, Ended(ch), NEW z \in Seq(Byte),
           AttemptAnd(z, ch)
    PROVE  LooksLikeFrame(z)
<1>0. DecoderInv /\ CoverInv /\ TrailerShape /\ state = "Checksum"
  BY DEF DecoderHolds, TypeInv, Ended
<1>1. /\ raw \in Seq(Byte) /\ Len(raw) \in Nat /\ raw_head \in Nat
      /\ checksum_bytes \in Seq(Byte) /\ Len(checksum_bytes) \in Nat
      /\ Len(checksum_bytes) + 1 = CHECKSUM_LEN /\ CHECKSUM_LEN \in Nat
      /\ raw[raw_head + 1] = SOF /\ OpenLen = Len(raw) - raw_head
      /\ InTrailer /\ Len(z) = OpenLen + 1
  <2>1. raw \in Seq(Byte) /\ raw_head \in Nat /\ checksum_bytes \in Seq(Byte)
    BY <1>0 DEF DecoderInv, StateOK
  <2>2. raw[raw_head + 1] = SOF /\ Len(checksum_bytes) < CHECKSUM_LEN
    BY <1>0 DEF DecoderInv, AttemptInv, InAttempt
  <2>3. Len(checksum_bytes) + 1 >= CHECKSUM_LEN
    BY Zenon DEF Ended
  <2>4. Len(raw) \in Nat /\ Len(checksum_bytes) \in Nat
    BY <2>1
  <2>5. Len(checksum_bytes) + 1 = CHECKSUM_LEN /\ CHECKSUM_LEN \in Nat
    BY <2>2, <2>3, <2>4, SizeAssumption
  <2> QED BY <1>0, <2>1, <2>2, <2>4, <2>5, Zenon DEF InTrailer, OpenLen, AttemptAnd
<1>2. PICK n \in {1, 2} : n = EofCount(data_len)
  BY EofCountValues
<1>3. PICK d \in Nat : d = TrueDataEnd /\ d >= raw_head + 2 /\ d < Len(raw)
  BY <1>0, <1>1, AttemptIndices
<1>4. d = Len(raw) - Len(checksum_bytes) - n
  BY <1>0, <1>2, <1>3 DEF TrueDataEnd
<1>5. PICK e \in 3 .. Len(z) : e = d - raw_head + 1
  <2>1. d - raw_head + 1 \in 3 .. Len(z)
    BY <1>1, <1>3
  <2> QED BY <2>1
<1>6. PICK x \in Seq(Byte) : x = SubSeq(raw, raw_head + 3, d)
  <2>1. SubSeq(raw, raw_head + 3, d) \in Seq(Byte)
    BY <1>1, <1>3, PartType
  <2> QED BY <2>1, Zenon
<1>7. SubSeq(z, 3, e - 1) = x
  <2>1. /\ e - 1 \in Nat /\ e - 1 <= Len(z) /\ raw_head + (e - 1) = d
        /\ d <= Len(raw) /\ 3 \in Nat \ {0}
    BY <1>1, <1>3, <1>5
  <2>2. \A k \in 3 .. e - 1 : k \in 1 .. OpenLen
    BY <1>1, <1>3, <1>5
  <2>3. \A k \in 3 .. e - 1 : z[k] = raw[raw_head + k]
    BY <2>2, Zenon DEF AttemptAnd
  <2>4. SubSeq(z, 3, e - 1) = SubSeq(raw, raw_head + 3, raw_head + (e - 1))
    BY <1>1, <2>1, <2>3, SamePart
  <2> QED BY <1>6, <2>1, <2>4, Zenon
<1>8. TrailerCovered(x, TypeByte, running, data_len, n)
  BY <1>0, <1>1, <1>2, <1>3, <1>6 DEF CoverInv, TrailerOK
<1>9. /\ ~Unescape(x).esc /\ n = EofCount(Len(Unescape(x).out))
      /\ running = RunOver(TypeByte, Unescape(x).out, n)
  BY <1>2, <1>8, Zenon DEF TrailerCovered
<1>10. z[1] = SOF /\ z[2] = TypeByte
  <2>1. 1 \in 1 .. OpenLen /\ 2 \in 1 .. OpenLen
    BY <1>1, <1>3
  <2>2. z[1] = raw[raw_head + 1] /\ z[2] = raw[raw_head + 2]
    BY <2>1, Zenon DEF AttemptAnd
  <2> QED BY <1>1, <2>2, Zenon DEF TypeByte
<1>11. Len(z) = e + n - 1 + CHECKSUM_LEN
  <2>1. /\ Len(raw) \in Nat /\ raw_head \in Nat /\ Len(checksum_bytes) \in Nat
        /\ CHECKSUM_LEN = Len(checksum_bytes) + 1
        /\ Len(z) = Len(raw) - raw_head + 1
    BY <1>1, Zenon
  <2>2. e = (Len(raw) - Len(checksum_bytes) - n) - raw_head + 1 /\ n \in Nat
    BY <1>4, <1>5
  <2> QED BY <2>1, <2>2
<1>12. ASSUME NEW i \in e .. e + n - 1 PROVE z[i] = EOF
  <2>1. i \in 1 .. OpenLen
    BY <1>1, <1>4, <1>5
  <2>2. PICK j \in 1 .. n : j = i - e + 1
    BY <1>5
  <2>3. raw[Len(raw) - Len(checksum_bytes) - n + j] = EOF
    BY <1>0, <1>2 DEF TrailerShape
  <2>4. Len(raw) - Len(checksum_bytes) - n + j = raw_head + i
    BY <1>1, <1>4, <1>5, <2>2
  <2>5. z[i] = raw[raw_head + i]
    BY <2>1, Zenon DEF AttemptAnd
  <2> QED BY <2>3, <2>4, <2>5, Zenon
<1>13. PICK c \in Seq(Byte) : c = Append(checksum_bytes, ch)
  <2>1. Append(checksum_bytes, ch) \in Seq(Byte)
    BY <1>1
  <2> QED BY <2>1, Zenon
<1>14. /\ Len(c) = CHECKSUM_LEN /\ c[CHECKSUM_LEN] = ch
       /\ \A i \in 1 .. Len(checksum_bytes) : c[i] = checksum_bytes[i]
  BY <1>1, <1>13
<1>15. SubSeq(z, e + n, Len(z)) = c
  <2>1. PICK y \in Seq(Byte) :
          /\ y = SubSeq(z, e + n, Len(z)) /\ Len(y) = CHECKSUM_LEN
          /\ \A k \in 1 .. CHECKSUM_LEN : y[k] = z[e + n + k - 1]
    <3>1. /\ SubSeq(z, e + n, Len(z)) \in Seq(Byte)
          /\ Len(SubSeq(z, e + n, Len(z))) = CHECKSUM_LEN
          /\ \A k \in 1 .. CHECKSUM_LEN : SubSeq(z, e + n, Len(z))[k] = z[e + n + k - 1]
      <4>1. ASSUME NEW i \in Nat, NEW m \in Nat, i >= 1, Len(z) = i + m - 1
            PROVE  /\ SubSeq(z, i, Len(z)) \in Seq(Byte)
                   /\ Len(SubSeq(z, i, Len(z))) = m
                   /\ \A k \in 1 .. m : SubSeq(z, i, Len(z))[k] = z[i + k - 1]
        BY <4>1
      <4>2. /\ e + n \in Nat /\ e + n >= 1 /\ Len(z) = (e + n) + CHECKSUM_LEN - 1
            /\ CHECKSUM_LEN \in Nat
        <5>1. e \in Nat /\ n \in Nat /\ e >= 3 /\ CHECKSUM_LEN \in Nat
          BY SizeAssumption
        <5> QED BY <1>11, <5>1
      <4> QED BY <4>1, <4>2
    <3> QED BY <3>1, Zenon
  <2>2. ASSUME NEW k \in 1 .. CHECKSUM_LEN PROVE y[k] = c[k]
    <3>1. y[k] = z[e + n + k - 1]
      BY <2>1, Zenon
    <3>2. CASE k = CHECKSUM_LEN
      <4>1. e + n + k - 1 = OpenLen + 1
        <5>1. ASSUME NEW f \in Int, NEW m \in Int, NEW l \in Int
              PROVE  f + m - 1 + l = f + m + l - 1
          OBVIOUS
        <5>2. e \in Int /\ n \in Int /\ CHECKSUM_LEN \in Int
          BY <1>1
        <5> QED BY <1>1, <1>11, <3>2, <5>1, <5>2, Zenon
      <4> QED BY <1>14, <3>1, <3>2, <4>1, Zenon DEF AttemptAnd
    <3>3. CASE k # CHECKSUM_LEN
      <4>1. /\ k \in 1 .. Len(checksum_bytes) /\ e + n + k - 1 \in 1 .. OpenLen
            /\ raw_head + (e + n + k - 1) = Len(raw) - Len(checksum_bytes) + k
        <5>0. OpenLen \in Nat
          BY <1>1, <1>3
        <5>1. PICK p \in Nat, q \in Nat, l \in Nat, o \in Nat, s \in Nat :
                /\ p = raw_head /\ q = Len(raw) /\ l = Len(checksum_bytes) /\ o = OpenLen
                /\ s = CHECKSUM_LEN
          BY <1>1, <5>0, Zenon
        <5>2. s = l + 1 /\ o = q - p
          BY <1>1, <5>1
        <5>3. e = (q - l - n) - p + 1 /\ e \in Nat /\ n \in Nat /\ e >= 3 /\ n >= 1
          BY <1>4, <1>5, <5>1
        <5>4. k \in 1 .. s /\ k # s
          BY <3>3, <5>1
        <5>5. k \in 1 .. l /\ e + n + k - 1 \in 1 .. o /\ p + (e + n + k - 1) = q - l + k
          BY <5>2, <5>3, <5>4
        <5> QED BY <5>1, <5>5, Zenon
      <4>2. raw[Len(raw) - Len(checksum_bytes) + k] = checksum_bytes[k]
        BY <1>0, <4>1 DEF TrailerShape
      <4> QED BY <1>14, <3>1, <4>1, <4>2, Zenon DEF AttemptAnd
    <3> QED BY <3>2, <3>3
  <2>3. Len(y) = Len(c) /\ \A k \in 1 .. Len(y) : y[k] = c[k]
    BY <1>14, <2>1, <2>2, Zenon
  <2>4. y = c
    BY <2>3, SameSeq
  <2> QED BY <2>1, <2>4, Zenon
<1>16. c \in CsumSentinels \/ c = CsumFinalize(RunOver(z[2], Unescape(x).out, n))
  BY <1>9, <1>10, <1>13, Zenon DEF Ended, checksum_ok
<1> QED BY <1>7, <1>9, <1>10, <1>11, <1>12, <1>15, <1>16, LooksIntro, Zenon

-----------------------------------------------------------------------------
(* A byte of a frame that was given up.                                    *)

\* The last bytes of a frame: its checksum, CR and LF.
LEMMA FrameTail ==
    ASSUME NEW w \in Writes, IsFrame(w)
    PROVE  /\ Bytes(w)[Len(Bytes(w))] = LF
           /\ \A k \in 0 .. CHECKSUM_LEN + 1 : Bytes(w)[Len(Bytes(w)) - k] # EOF
<1>1. PICK b \in Seq(Byte) : b = Bytes(w)
  BY FrameTypes, Zenon
<1>2. PICK c \in Seq(Byte) : c = SumOf(w)
  BY FrameTypes, Zenon
<1>3. Len(c) = CHECKSUM_LEN /\ \A i \in 1 .. CHECKSUM_LEN : c[i] # EOF
  BY <1>2, FrameTypes, Zenon
<1>4. PICK m \in Nat : m = 2 + Len(Escape(w.data)) + Eofs1(w)
  BY FrameLen DEF DataEndsAt
<1>5. LaidOut(b, SOF, w.type_byte, Escape(w.data), Eofs1(w), EOF, c, CR, LF)
  BY <1>1, <1>2, FrameLayout, Zenon
<1>6. /\ Len(b) = m + CHECKSUM_LEN + 2 /\ b[Len(b) - 1] = CR /\ b[Len(b)] = LF
      /\ \A i \in 1 .. CHECKSUM_LEN : b[m + i] = c[i]
  BY <1>3, <1>4, <1>5, Zenon DEF LaidOut
<1>7. ASSUME NEW k \in 0 .. CHECKSUM_LEN + 1 PROVE b[Len(b) - k] # EOF
  <2>0. CHECKSUM_LEN \in Nat
    BY SizeAssumption
  <2>1. CASE k = 0
    BY <1>6, <2>1 DEF LF, EOF
  <2>2. CASE k = 1
    BY <1>6, <2>2 DEF CR, EOF
  <2>3. CASE k > 1
    <3>1. PICK i \in 1 .. CHECKSUM_LEN : i = CHECKSUM_LEN + 2 - k
      <4>1. CHECKSUM_LEN + 2 - k \in 1 .. CHECKSUM_LEN
        BY <2>0, <2>3
      <4> QED BY <4>1
    <3>2. Len(b) - k = m + i
      BY <1>6, <2>0, <3>1
    <3> QED BY <1>3, <1>6, <3>2
  <2> QED BY <2>1, <2>2, <2>3
<1> QED BY <1>1, <1>6, <1>7, Zenon

\* What an attempt in a frame that was given up is not: a frame of its own.
LEMMA MissedNotEnded ==
    ASSUME BaseInv, NoFrameInside, NEW past, NEW ch \in Byte, NEW w \in Writes,
           NEW p \in 1 .. Len(Bytes(w)) - 1, MissedAt(past, w, p), ch = Bytes(w)[p + 1]
    PROVE  ~Ended(ch)
<1> SUFFICES ASSUME Ended(ch) PROVE FALSE
  OBVIOUS
<1>1. PICK b \in Seq(Byte) : b = Bytes(w)
  BY TrafficAssumption
<1>2. OpenLen \in Nat /\ OpenLen < p /\ p \in 1 .. Len(b) - 1 /\ Len(b) \in Nat
  <2>1. raw_head \in Nat /\ raw_head <= Len(raw) /\ Len(raw) \in Nat
    BY OutTypes
  <2> QED BY <1>1, <2>1 DEF MissedAt, OpenLen
<1>3. \A i \in 1 .. OpenLen : raw[raw_head + i] = b[p - OpenLen + i]
  BY <1>1, Zenon DEF MissedAt, Tracks
<1>4. PICK o \in Nat : o = OpenLen
  BY <1>2
<1>5. PICK z \in Seq(Byte) :
        /\ z = SubSeq(b, p - o + 1, p + 1) /\ Len(z) = o + 1
        /\ \A i \in 1 .. o + 1 : z[i] = b[p - o + i]
  <2>1. /\ SubSeq(b, p - o + 1, p + 1) \in Seq(Byte)
        /\ Len(SubSeq(b, p - o + 1, p + 1)) = o + 1
        /\ \A i \in 1 .. o + 1 : SubSeq(b, p - o + 1, p + 1)[i] = b[p - o + i]
    BY <1>2, <1>4
  <2> QED BY <2>1, Zenon
<1>6. AttemptAnd(z, ch)
  <2>1. o + 1 \in 1 .. o + 1 /\ p - o + (o + 1) = p + 1 /\ \A i \in 1 .. o : i \in 1 .. o + 1
    BY <1>2, <1>4
  <2>2. z[o + 1] = ch
    BY <1>1, <1>5, <2>1, Zenon
  <2>3. \A i \in 1 .. o : z[i] = raw[raw_head + i]
    BY <1>3, <1>4, <1>5, <2>1, Zenon
  <2> QED BY <1>4, <1>5, <2>2, <2>3, Zenon DEF AttemptAnd
<1>7. LooksLikeFrame(z)
  BY <1>6, AcceptedLooks DEF BaseInv
<1>8. p - o + 1 \in 2 .. Len(b) /\ p + 1 \in p - o + 1 .. Len(b)
  BY <1>2, <1>4
<1>9. ~LooksLikeFrame(SubSeq(b, p - o + 1, p + 1))
  BY <1>1, <1>8, Zenon DEF NoFrameInside, MissedAt
<1> QED BY <1>5, <1>7, <1>9, Zenon

\* The bytes of the open attempt after one more that is not the last of a checksum.
LEMMA TracksOn ==
    ASSUME BaseInv, NEW ch \in Byte, NEW w \in Writes, NEW p \in Nat,
           ch = Bytes(w)[p + 1], OpenLen <= p, Tracks(w, p)
    PROVE  /\ Dropped \/ Refused(ch) => OpenLen' = 0 /\ Tracks(w, p + 1)'
           /\ Opened(ch) => OpenLen' = 1 /\ Tracks(w, p + 1)'
           /\ Grown(ch) => OpenLen' = OpenLen + 1 /\ Tracks(w, p + 1)'
<1>0. raw \in Seq(Byte) /\ raw_head \in Nat /\ raw_head <= Len(raw) /\ Len(raw) \in Nat
  BY OutTypes
<1>2. ASSUME Dropped \/ Refused(ch) PROVE OpenLen' = 0 /\ Tracks(w, p + 1)'
  <2>1. OpenLen' = 0
    BY <1>0, <1>2 DEF Dropped, Refused, OpenLen
  <2> QED BY <2>1 DEF Tracks
<1>3. /\ Append(raw, ch) \in Seq(Byte) /\ Len(Append(raw, ch)) = Len(raw) + 1
      /\ Append(raw, ch)[Len(raw) + 1] = ch
      /\ \A i \in 1 .. Len(raw) : Append(raw, ch)[i] = raw[i]
  BY <1>0
<1>4. ASSUME Opened(ch) PROVE OpenLen' = 1 /\ Tracks(w, p + 1)'
  <2>1. raw' = Append(raw, ch) /\ raw_head' = Len(raw)
    BY <1>4 DEF Opened
  <2>2. OpenLen' = 1 /\ raw'[raw_head' + 1] = ch
    BY <1>0, <1>3, <2>1 DEF OpenLen
  <2>3. \A i \in 1 .. 1 : i = 1 /\ p + 1 - 1 + i = p + 1
    OBVIOUS
  <2>4. \A i \in 1 .. OpenLen' : raw'[raw_head' + i] = Bytes(w)[p + 1 - OpenLen' + i]
    BY <2>2, <2>3
  <2> QED BY <2>2, <2>4 DEF Tracks
<1>5. ASSUME Grown(ch) PROVE OpenLen' = OpenLen + 1 /\ Tracks(w, p + 1)'
  <2>1. raw' = Append(raw, ch) /\ raw_head' = raw_head
    BY <1>5 DEF Grown
  <2>2. OpenLen' = OpenLen + 1 /\ OpenLen \in Nat /\ OpenLen = Len(raw) - raw_head
    BY <1>0, <1>3, <2>1 DEF OpenLen
  <2>3. ASSUME NEW i \in 1 .. OpenLen + 1
        PROVE  raw'[raw_head + i] = Bytes(w)[p + 1 - OpenLen' + i]
    <3>1. p + 1 - OpenLen' + i = p - OpenLen + i
      BY <2>2
    <3>2. CASE i \in 1 .. OpenLen
      <4>1. raw_head + i \in 1 .. Len(raw)
        BY <1>0, <2>2, <3>2
      <4>2. raw'[raw_head + i] = raw[raw_head + i]
        BY <1>3, <2>1, <4>1
      <4>3. raw[raw_head + i] = Bytes(w)[p - OpenLen + i]
        BY <3>2, Zenon DEF Tracks
      <4> QED BY <3>1, <4>2, <4>3, Zenon
    <3>3. CASE i = OpenLen + 1
      <4>1. raw_head + i = Len(raw) + 1 /\ p - OpenLen + i = p + 1
        BY <1>0, <2>2, <3>3
      <4> QED BY <1>3, <2>1, <3>1, <4>1, Zenon
    <3> QED BY <2>2, <3>2, <3>3
  <2>4. \A i \in 1 .. OpenLen' : raw'[raw_head' + i] = Bytes(w)[p + 1 - OpenLen' + i]
    BY <2>1, <2>2, <2>3
  <2> QED BY <2>2, <2>4 DEF Tracks
<1> QED BY <1>2, <1>4, <1>5, Zenon

\* At the end of such a frame no attempt waits for an escaped byte or a trailer.
LEMMA MissedEnds ==
    ASSUME BaseInv, BaseInv', PlainText, NEW ch \in Byte, NEW w \in Writes, IsFrame(w),
           ch = LF, Dropped \/ Opened(ch) \/ Grown(ch) \/ Refused(ch),
           Tracks(w, Len(Bytes(w)))'
    PROVE  state' \in Calm
<1>0. Calm = {"Idle", "Sof", "Data"}
  BY DEF Calm
<1>1. CASE Dropped \/ Refused(ch) \/ Opened(ch)
  BY <1>0, <1>1 DEF Dropped, Refused, Opened
<1>2. CASE Grown(ch) /\ state' # "Checksum"
  BY <1>0, <1>2 DEF Grown, LF, ESC, EOF
<1>3. CASE state' = "Checksum"
  <2>1. DecoderInv' /\ TrailerShape'
    BY DEF BaseInv, DecoderHolds, TypeInv
  <2>2. /\ raw_head' \in Nat /\ Len(raw') \in Nat /\ Len(checksum_bytes') \in Nat
        /\ EofCount(data_len') \in {1, 2} /\ Len(checksum_bytes') < CHECKSUM_LEN
        /\ Len(raw') - Len(checksum_bytes') - EofCount(data_len') >= raw_head' + 2
    BY <1>3, <2>1, EofCountValues
       DEF DecoderInv, StateOK, AttemptInv, InTrailer, TrueDataEnd
  <2>3. raw'[Len(raw') - Len(checksum_bytes') - EofCount(data_len') + EofCount(data_len')] = EOF
    BY <1>3, <2>1, <2>2 DEF TrailerShape
  <2>4. PICK k \in Nat, o \in Nat, h \in Nat :
          /\ k = Len(checksum_bytes') /\ o = OpenLen' /\ h = raw_head'
          /\ k < CHECKSUM_LEN /\ o - k \in 1 .. o /\ h + (o - k) = Len(raw') - k
    <3>1. /\ OpenLen' = Len(raw') - raw_head' /\ OpenLen' \in Nat
          /\ OpenLen' - Len(checksum_bytes') \in 1 .. OpenLen'
          /\ raw_head' + (OpenLen' - Len(checksum_bytes')) = Len(raw') - Len(checksum_bytes')
      BY <2>2 DEF OpenLen
    <3> QED BY <2>2, <3>1, Zenon
  <2>5. raw'[h + (o - k)] = EOF
    <3>1. Len(raw') - Len(checksum_bytes') - EofCount(data_len') + EofCount(data_len')
            = Len(raw') - Len(checksum_bytes')
      BY <2>2
    <3> QED BY <2>3, <2>4, <3>1, Zenon
  <2>6. raw'[h + (o - k)] = Bytes(w)[Len(Bytes(w)) - o + (o - k)]
    <3>1. \A i \in 1 .. OpenLen' : raw'[raw_head' + i] = Bytes(w)[Len(Bytes(w)) - OpenLen' + i]
      BY DEF Tracks
    <3> QED BY <2>4, <3>1, Zenon
  <2>7. Len(Bytes(w)) - o + (o - k) = Len(Bytes(w)) - k /\ k \in 0 .. CHECKSUM_LEN + 1
    <3>1. Len(Bytes(w)) \in Nat /\ CHECKSUM_LEN \in Nat
      BY FrameLen
    <3>2. k < CHECKSUM_LEN
      BY <2>4, Zenon
    <3> QED BY <3>1, <3>2
  <2> QED BY <2>5, <2>6, <2>7, FrameTail, Zenon
<1> QED BY <1>1, <1>2, <1>3

\* A byte of a frame that was given up is not the end of another.
LEMMA MissedInject ==
    ASSUME BaseInv, BaseInv', PlainText, NoFrameInside, NEW past, NEW ch \in Byte,
           inject(ch), delivered' = delivered, stalls' = stalls, NEW w \in Writes,
           NEW p \in 1 .. Len(Bytes(w)) - 1, MissedAt(past, w, p), ch = Bytes(w)[p + 1]
    PROVE  /\ panicked' = panicked
           /\ p + 1 = Len(Bytes(w)) => Background(past, <<>>)'
           /\ p + 1 # Len(Bytes(w)) => MissedAt(past, w, p + 1)'
<1>0. /\ ~Intact /\ Picks(Out, Frames(past)) /\ IsFrame(w) /\ OpenLen < p /\ Tracks(w, p)
      /\ state \notin {"PostFrame", "PostFrameCr"}
  BY DEF MissedAt
<1>1. Dropped \/ Opened(ch) \/ Grown(ch) \/ Refused(ch)
  <2>1. /\ \/ Dropped \/ Swallowed(ch) \/ Opened(ch) \/ Grown(ch) \/ Refused(ch)
           \/ Ended(ch)
    BY InjectKinds DEF BaseInv, DecoderHolds, TypeInv
  <2>2. ~Ended(ch)
    BY MissedNotEnded
  <2>3. ~Swallowed(ch)
    BY <1>0 DEF Swallowed
  <2> QED BY <2>1, <2>2, <2>3
<1>2. /\ frames' = frames /\ panicked' = panicked
      /\ state' \notin {"PostFrame", "PostFrameCr"}
  BY <1>1 DEF Dropped, Opened, Grown, Refused, Kept
<1>3. ~Intact'
  <2>1. CASE Dropped
    BY <2>1, IntactBefore
  <2>2. CASE drop_count' = drop_count
    BY <1>0, <2>2, IntactBefore
  <2> QED BY <1>1, <2>1, <2>2 DEF Opened, Grown, Refused, Kept
<1>4. Picks(Out', Frames(past))
  BY <1>0, <1>2 DEF Out, FramesOut
<1>5. p \in Nat /\ OpenLen \in Nat /\ OpenLen <= p
  <2>1. raw_head \in Nat /\ raw_head <= Len(raw) /\ Len(raw) \in Nat
    BY OutTypes
  <2> QED BY <1>0, <2>1 DEF OpenLen
<1>6. OpenLen' < p + 1 /\ Tracks(w, p + 1)'
  <2>1. /\ Dropped \/ Refused(ch) => OpenLen' = 0 /\ Tracks(w, p + 1)'
        /\ Opened(ch) => OpenLen' = 1 /\ Tracks(w, p + 1)'
        /\ Grown(ch) => OpenLen' = OpenLen + 1 /\ Tracks(w, p + 1)'
    BY <1>0, <1>5, TracksOn
  <2>2. OpenLen' \in {0, 1, OpenLen + 1} /\ Tracks(w, p + 1)'
    BY <1>1, <2>1
  <2> QED BY <1>0, <1>5, <2>2
<1>7. ASSUME p + 1 # Len(Bytes(w)) PROVE MissedAt(past, w, p + 1)'
  BY <1>0, <1>2, <1>3, <1>4, <1>6 DEF MissedAt
<1>8. ASSUME p + 1 = Len(Bytes(w)) PROVE Background(past, <<>>)'
  <2>1. ch = LF
    BY <1>0, <1>8, FrameTail
  <2>2. Tracks(w, Len(Bytes(w)))'
    BY <1>6, <1>8
  <2>3. state' \in Calm
    BY <1>0, <1>1, <2>1, <2>2, MissedEnds
  <2>4. <<>> \in Seq(CalmByte)
    OBVIOUS
  <2>5. Tally(Out', Text(delivered)', Intact', past, raw' \o <<>>)
    BY <1>3, <1>4 DEF Tally
  <2> QED BY <2>3, <2>4, <2>5 DEF Background, Accounted, Calm, CalmByte
<1> QED BY <1>2, <1>7, <1>8

-----------------------------------------------------------------------------
(* A byte of a frame that is being decoded.                                *)

\* Where the bytes of a frame come from.
LEMMA FrameBytes ==
    ASSUME NEW w \in Writes, IsFrame(w)
    PROVE  /\ Bytes(w)[1] = SOF /\ Bytes(w)[2] = w.type_byte
           /\ DataEndsAt(w) = 2 + Len(Escape(w.data)) /\ Len(Escape(w.data)) \in Nat
           /\ \A i \in 1 .. Len(Escape(w.data)) : Bytes(w)[2 + i] = Escape(w.data)[i]
           /\ \A i \in 1 .. Eofs1(w) : Bytes(w)[DataEndsAt(w) + i] = EOF
           /\ \A i \in 1 .. CHECKSUM_LEN :
                 Bytes(w)[DataEndsAt(w) + Eofs1(w) + i] = SumOf(w)[i]
<1>1. /\ LaidOut(Bytes(w), SOF, w.type_byte, Escape(w.data), Eofs1(w), EOF, SumOf(w), CR, LF)
      /\ Escape(w.data) \in Seq(Byte)
  BY FrameLayout
<1>2. Len(SumOf(w)) = CHECKSUM_LEN
  BY FrameTypes
<1>3. Len(Escape(w.data)) \in Nat
  BY <1>1
<1> QED BY <1>1, <1>2, <1>3, Zenon DEF LaidOut, DataEndsAt

\* The data part of an attempt on the frame w is a part of its escaped data.
LEMMA TrackedData ==
    ASSUME BaseInv, NEW w \in Writes, IsFrame(w), NEW j \in 0 .. Len(Escape(w.data)),
           OpenLen >= j + 2, Tracks(w, OpenLen)
    PROVE  SubSeq(raw, raw_head + 3, raw_head + 2 + j) = SubSeq(Escape(w.data), 1, j)
<1>0. /\ raw \in Seq(Byte) /\ raw_head \in Nat /\ raw_head <= Len(raw) /\ Len(raw) \in Nat
      /\ OpenLen = Len(raw) - raw_head
  BY OutTypes DEF OpenLen
<1>1. PICK x \in Seq(Byte) : x = Escape(w.data)
  BY FrameLayout, Zenon
<1>2. \A i \in 1 .. Len(x) : Bytes(w)[2 + i] = x[i]
  BY <1>1, FrameBytes, Zenon
<1>3. j \in 0 .. Len(x)
  BY <1>1
<1>4. ASSUME NEW k \in 1 .. j PROVE x[k] = raw[(raw_head + 2) + k]
  <2>1. /\ k \in 1 .. Len(x) /\ 2 + k \in 1 .. OpenLen /\ OpenLen - OpenLen + (2 + k) = 2 + k
        /\ raw_head + (2 + k) = (raw_head + 2) + k
    BY <1>0, <1>3
  <2>2. raw[raw_head + (2 + k)] = Bytes(w)[OpenLen - OpenLen + (2 + k)]
    BY <2>1, Zenon DEF Tracks
  <2> QED BY <1>2, <2>1, <2>2, Zenon
<1>5. /\ raw_head + 2 \in Nat /\ j \in Nat /\ j <= Len(x) /\ (raw_head + 2) + j <= Len(raw)
      /\ 1 \in Nat \ {0} /\ (raw_head + 2) + 1 = raw_head + 3
  BY <1>0, <1>3
<1>6. SubSeq(x, 1, j) = SubSeq(raw, (raw_head + 2) + 1, (raw_head + 2) + j)
  BY <1>0, <1>4, <1>5, SamePart
<1> QED BY <1>1, <1>5, <1>6, Zenon

\* A frame's data is read up to its end: nothing in it ends it or opens an attempt.
LEMMA GenuineData ==
    ASSUME BaseInv, NEW w \in Writes, IsFrame(w), state \in {"Data", "DataEsc"},
           OpenLen <= DataEndsAt(w), Tracks(w, OpenLen)
    PROVE  /\ OpenLen < DataEndsAt(w) =>
                state = "DataEsc" \/ Bytes(w)[OpenLen + 1] \notin {SOF, EOF}
           /\ OpenLen = DataEndsAt(w) =>
                state = "Data" /\ data_len = Len(w.data) /\ Bytes(w)[OpenLen + 1] = EOF
<1>0. /\ raw \in Seq(Byte) /\ raw_head \in Nat /\ raw_head <= Len(raw) /\ Len(raw) \in Nat
      /\ OpenLen = Len(raw) - raw_head
  BY OutTypes DEF OpenLen
<1>1. Len(raw) >= raw_head + 2
  BY AttemptIndices DEF BaseInv, DecoderHolds, TypeInv
<1>2. DataCovered(state = "DataEsc", DataPart, TypeByte, running, data_len)
  BY Zenon DEF BaseInv, DecoderHolds, CoverInv, DataOK
<1>3. DataEndsAt(w) = 2 + Len(Escape(w.data)) /\ Len(Escape(w.data)) \in Nat
  BY FrameBytes, Zenon
<1>4. PICK j \in 0 .. Len(Escape(w.data)) : j = OpenLen - 2
  <2>1. OpenLen - 2 \in 0 .. Len(Escape(w.data))
    BY <1>0, <1>1, <1>3
  <2> QED BY <2>1
<1>5. OpenLen = j + 2 /\ OpenLen >= j + 2 /\ raw_head + 2 + j = Len(raw)
  BY <1>0, <1>4
<1>6. DataPart = SubSeq(Escape(w.data), 1, j)
  BY <1>5, TrackedData, Zenon DEF DataPart
<1>7. /\ Unescape(SubSeq(Escape(w.data), 1, j)).esc <=> state = "DataEsc"
      /\ data_len = Len(Unescape(SubSeq(Escape(w.data), 1, j)).out)
  BY <1>2, <1>6 DEF DataCovered
<1>8. EscapeGood(w.data) /\ Escape(w.data) \in Seq(Byte)
  BY FrameLayout, Zenon
<1>9. ASSUME OpenLen < DataEndsAt(w)
      PROVE  state = "DataEsc" \/ Bytes(w)[OpenLen + 1] \notin {SOF, EOF}
  <2>1. /\ j \in 0 .. Len(Escape(w.data)) - 1 /\ j + 1 \in 1 .. Len(Escape(w.data))
        /\ 2 + (j + 1) = OpenLen + 1
    BY <1>3, <1>4, <1>5, <1>9
  <2>2. Bytes(w)[2 + (j + 1)] = Escape(w.data)[j + 1]
    BY <2>1, FrameBytes, Zenon
  <2>3. \/ Unescape(SubSeq(Escape(w.data), 1, j)).esc
        \/ Escape(w.data)[j + 1] \notin {SOF, EOF}
    BY <1>8, <2>1, Zenon DEF EscapeGood
  <2> QED BY <1>7, <2>1, <2>2, <2>3
<1>10. ASSUME OpenLen = DataEndsAt(w)
       PROVE  state = "Data" /\ data_len = Len(w.data) /\ Bytes(w)[OpenLen + 1] = EOF
  <2>1. j = Len(Escape(w.data))
    BY <1>3, <1>4, <1>10
  <2>2. SubSeq(Escape(w.data), 1, j) = Escape(w.data)
    BY <1>8, <2>1
  <2>3. Unescape(Escape(w.data)) = [out |-> w.data, esc |-> FALSE]
    BY <1>8, Zenon DEF EscapeGood
  <2>4. Unescape(Escape(w.data)).out = w.data /\ ~Unescape(Escape(w.data)).esc
    BY <2>3, UnescapeParts
  <2>5. state # "DataEsc" /\ data_len = Len(w.data)
    BY <1>7, <2>2, <2>4, Zenon
  <2>6. 1 \in 1 .. Eofs1(w)
    BY FrameTypes
  <2>7. Bytes(w)[DataEndsAt(w) + 1] = EOF
    BY <2>6, FrameBytes, Zenon
  <2> QED BY <1>10, <2>5, <2>7, Zenon
<1> QED BY <1>9, <1>10

-----------------------------------------------------------------------------
(* The end of such a frame.                                                *)

\* The state behind the data of a frame, in numbers.
LEMMA GenuineIndices ==
    ASSUME BaseInv, NEW w \in Writes, IsFrame(w), state = "Checksum", GenuineState(w)
    PROVE  /\ raw \in Seq(Byte) /\ raw_head \in Nat /\ Len(raw) \in Nat /\ OpenLen \in Nat
           /\ Len(raw) = raw_head + OpenLen /\ checksum_bytes \in Seq(Byte)
           /\ Len(checksum_bytes) \in Nat /\ CHECKSUM_LEN \in Nat
           /\ Len(checksum_bytes) < CHECKSUM_LEN
           /\ OpenLen = DataEndsAt(w) + Eofs1(w) + Len(checksum_bytes)
           /\ DataEndsAt(w) \in Nat /\ DataEndsAt(w) >= 2 /\ Eofs1(w) \in Nat
           /\ data_end = raw_head + DataEndsAt(w) /\ data_len = Len(w.data)
           /\ EofCount(data_len) = Eofs1(w) /\ TrueDataEnd = data_end
<1>1. /\ raw \in Seq(Byte) /\ raw_head \in Nat /\ Len(raw) \in Nat /\ OpenLen \in Nat
      /\ Len(raw) = raw_head + OpenLen
  BY OutTypes DEF OpenLen
<1>2. checksum_bytes \in Seq(Byte) /\ Len(checksum_bytes) < CHECKSUM_LEN
  BY DEF BaseInv, DecoderHolds, TypeInv, DecoderInv, StateOK, AttemptInv
<1>3. Len(checksum_bytes) \in Nat
  BY <1>2
<1>4. /\ OpenLen = DataEndsAt(w) + Eofs1(w) + Len(checksum_bytes)
      /\ data_end = raw_head + DataEndsAt(w) /\ data_len = Len(w.data)
  BY DEF GenuineState
<1>5. DataEndsAt(w) \in Nat /\ DataEndsAt(w) >= 2 /\ Eofs1(w) \in Nat /\ CHECKSUM_LEN \in Nat
  BY FrameLen
<1>6. EofCount(data_len) = Eofs1(w)
  BY <1>4 DEF Eofs1
<1>7. TrueDataEnd = data_end
  <2>1. PICK r \in Nat, d \in Nat, n \in Nat, k \in Nat :
          r = raw_head /\ d = DataEndsAt(w) /\ n = Eofs1(w) /\ k = Len(checksum_bytes)
    BY <1>1, <1>3, <1>5, Zenon
  <2>2. PICK l \in Nat : l = Len(raw) /\ l = r + (d + n + k)
    BY <1>1, <1>4, <2>1, Zenon
  <2>3. TrueDataEnd = l - k - n
    BY <1>6, <2>1, <2>2 DEF TrueDataEnd
  <2>4. l - k - n = r + d
    BY <2>2
  <2> QED BY <1>4, <2>1, <2>3, <2>4, Zenon
<1> QED BY <1>1, <1>2, <1>3, <1>4, <1>5, <1>6, <1>7

\* The data that the attempt holds is the frame's, and so is its checksum.
LEMMA GenuineHolds ==
    ASSUME BaseInv, NEW w \in Writes, IsFrame(w), state = "Checksum", GenuineState(w),
           Tracks(w, OpenLen)
    PROVE  /\ SubSeq(raw, raw_head + 3, data_end) = Escape(w.data)
           /\ TypeByte = w.type_byte /\ running = RunOver(w.type_byte, w.data, Eofs1(w))
<1>0. /\ raw_head \in Nat /\ OpenLen \in Nat /\ DataEndsAt(w) \in Nat /\ Eofs1(w) \in Nat
      /\ OpenLen = DataEndsAt(w) + Eofs1(w) + Len(checksum_bytes) /\ DataEndsAt(w) >= 2
      /\ Len(checksum_bytes) \in Nat
      /\ data_end = raw_head + DataEndsAt(w) /\ TrueDataEnd = data_end
      /\ EofCount(data_len) = Eofs1(w)
  BY GenuineIndices
<1>1. PICK x \in Seq(Byte) : x = Escape(w.data)
  BY FrameLayout, Zenon
<1>2. PICK j \in Nat : j = Len(x)
  OBVIOUS
<1>3. DataEndsAt(w) = 2 + j /\ j \in 0 .. Len(Escape(w.data))
  BY <1>1, <1>2 DEF DataEndsAt
<1>4. OpenLen >= j + 2 /\ raw_head + 2 + j = data_end
  BY <1>0, <1>3
<1>5. SubSeq(raw, raw_head + 3, raw_head + 2 + j) = SubSeq(Escape(w.data), 1, j)
  BY <1>3, <1>4, TrackedData
<1>6. SubSeq(x, 1, j) = x
  BY <1>2
<1>7. SubSeq(raw, raw_head + 3, data_end) = Escape(w.data)
  BY <1>1, <1>4, <1>5, <1>6, Zenon
<1>8. TypeByte = w.type_byte
  <2>1. 2 \in 1 .. OpenLen /\ OpenLen - OpenLen + 2 = 2
    BY <1>0
  <2>2. raw[raw_head + 2] = Bytes(w)[OpenLen - OpenLen + 2]
    BY <2>1, Zenon DEF Tracks
  <2> QED BY <2>1, <2>2, FrameBytes, Zenon DEF TypeByte
<1>9. TrailerCovered(SubSeq(raw, raw_head + 3, TrueDataEnd), TypeByte, running, data_len,
                     EofCount(data_len))
  BY DEF BaseInv, DecoderHolds, CoverInv, TrailerOK, InTrailer
<1>10. running = RunOver(TypeByte, Unescape(Escape(w.data)).out, Eofs1(w))
  BY <1>0, <1>7, <1>9, Zenon DEF TrailerCovered
<1>11. Unescape(Escape(w.data)).out = w.data
  BY FrameLayout, UnescapeParts, Zenon DEF EscapeGood
<1> QED BY <1>7, <1>8, <1>10, <1>11, Zenon

\* The last byte of its checksum makes it the one the sender computed.
LEMMA GenuineSum ==
    ASSUME BaseInv, NEW w \in Writes, IsFrame(w), state = "Checksum", GenuineState(w),
           Tracks(w, OpenLen), NEW ch \in Byte, ch = Bytes(w)[OpenLen + 1],
           Len(checksum_bytes) + 1 >= CHECKSUM_LEN
    PROVE  Append(checksum_bytes, ch) = SumOf(w)
<1>0. /\ raw_head \in Nat /\ OpenLen \in Nat /\ DataEndsAt(w) \in Nat /\ Eofs1(w) \in Nat
      /\ OpenLen = DataEndsAt(w) + Eofs1(w) + Len(checksum_bytes) /\ DataEndsAt(w) >= 2
      /\ Len(checksum_bytes) \in Nat /\ Len(checksum_bytes) < CHECKSUM_LEN
      /\ Len(raw) = raw_head + OpenLen /\ CHECKSUM_LEN \in Nat /\ checksum_bytes \in Seq(Byte)
  BY GenuineIndices
<1>1. PICK k \in Nat : k = Len(checksum_bytes) /\ CHECKSUM_LEN = k + 1
  BY <1>0
<1>2. PICK a \in Seq(Byte) : /\ a = Append(checksum_bytes, ch) /\ Len(a) = k + 1
                             /\ a[k + 1] = ch /\ \A i \in 1 .. k : a[i] = checksum_bytes[i]
  <2>1. /\ Append(checksum_bytes, ch) \in Seq(Byte)
        /\ Len(Append(checksum_bytes, ch)) = k + 1
        /\ Append(checksum_bytes, ch)[k + 1] = ch
        /\ \A i \in 1 .. k : Append(checksum_bytes, ch)[i] = checksum_bytes[i]
    BY <1>0, <1>1
  <2> QED BY <2>1, Zenon
<1>3. PICK s \in Seq(Byte) : s = SumOf(w) /\ Len(s) = CHECKSUM_LEN
  BY FrameTypes, Zenon
<1>4. \A i \in 1 .. CHECKSUM_LEN : Bytes(w)[DataEndsAt(w) + Eofs1(w) + i] = s[i]
  BY <1>3, FrameBytes, Zenon
<1>5. ASSUME NEW i \in 1 .. k PROVE checksum_bytes[i] = s[i]
  <2>1. /\ DataEndsAt(w) + Eofs1(w) + i \in 1 .. OpenLen /\ i \in 1 .. CHECKSUM_LEN
        /\ OpenLen - OpenLen + (DataEndsAt(w) + Eofs1(w) + i) = DataEndsAt(w) + Eofs1(w) + i
        /\ raw_head + (DataEndsAt(w) + Eofs1(w) + i) = Len(raw) - Len(checksum_bytes) + i
        /\ i \in 1 .. Len(checksum_bytes)
    <3>1. PICK r \in Nat, d \in Nat, n \in Nat, o \in Nat :
            r = raw_head /\ d = DataEndsAt(w) /\ n = Eofs1(w) /\ o = OpenLen /\ o = d + n + k
      BY <1>0, <1>1, Zenon
    <3>2. PICK l \in Nat : l = Len(raw) /\ l = r + o
      BY <1>0, <3>1
    <3>3. /\ d + n + i \in 1 .. o /\ i \in 1 .. k + 1 /\ o - o + (d + n + i) = d + n + i
          /\ r + (d + n + i) = l - k + i
      <4>1. o = d + n + k /\ l = r + o
        BY <3>1, <3>2, Zenon
      <4>2. d + n + i \in 1 .. o
        BY <4>1
      <4>3. i \in 1 .. k + 1 /\ o - o + (d + n + i) = d + n + i
        OBVIOUS
      <4>4. r + (d + n + i) = l - k + i
        BY <4>1
      <4> QED BY <4>2, <4>3, <4>4
    <3> QED BY <1>1, <3>1, <3>2, <3>3, Zenon
  <2>2. raw[raw_head + (DataEndsAt(w) + Eofs1(w) + i)]
          = Bytes(w)[OpenLen - OpenLen + (DataEndsAt(w) + Eofs1(w) + i)]
    BY <2>1, Zenon DEF Tracks
  <2>3. raw[Len(raw) - Len(checksum_bytes) + i] = checksum_bytes[i]
    BY <2>1 DEF BaseInv, DecoderHolds, TrailerShape
  <2> QED BY <1>4, <2>1, <2>2, <2>3, Zenon
<1>6. ch = s[k + 1]
  <2>1. ASSUME NEW d \in Nat, NEW n \in Nat
        PROVE  d + n + k + 1 = d + n + (k + 1) /\ k + 1 \in 1 .. k + 1
    OBVIOUS
  <2>2. OpenLen + 1 = DataEndsAt(w) + Eofs1(w) + (k + 1) /\ k + 1 \in 1 .. CHECKSUM_LEN
    BY <1>0, <1>1, <2>1, Zenon
  <2>3. Bytes(w)[DataEndsAt(w) + Eofs1(w) + (k + 1)] = s[k + 1]
    BY <1>4, <2>2, Zenon
  <2> QED BY <2>2, <2>3, Zenon
<1>7. ASSUME NEW i \in 1 .. k + 1 PROVE a[i] = s[i]
  <2>1. CASE i \in 1 .. k
    BY <1>2, <1>5, <2>1, Zenon
  <2>2. CASE i = k + 1
    BY <1>2, <1>6, <2>2, Zenon
  <2>3. i \in 1 .. k \/ i = k + 1
    OBVIOUS
  <2> QED BY <2>1, <2>2, <2>3
<1>8. Len(a) = Len(s) /\ \A i \in 1 .. Len(a) : a[i] = s[i]
  BY <1>1, <1>2, <1>3, <1>7, Zenon
<1>9. a = s
  BY <1>8, SameSeq
<1> QED BY <1>2, <1>3, <1>9, Zenon

\* Then the frame is decoded, as it was written.
LEMMA GenuineDecoded ==
    ASSUME BaseInv, NEW w \in Writes, IsFrame(w), state = "Checksum", GenuineState(w),
           Tracks(w, OpenLen), NEW ch \in Byte, ch = Bytes(w)[OpenLen + 1],
           Len(checksum_bytes) + 1 >= CHECKSUM_LEN
    PROVE  /\ checksum_ok(Append(checksum_bytes, ch)) /\ ~DecodePanics(Append(raw, ch))
           /\ [type_byte |-> Append(raw, ch)[raw_head + 2], data |-> Decoded(Append(raw, ch))] = w
           /\ SubSeq(Append(raw, ch), 1, raw_head) = Settled
           /\ OpenLen + 3 = Len(Bytes(w))
<1>0. /\ raw \in Seq(Byte) /\ Len(raw) \in Nat
      /\ raw_head \in Nat /\ OpenLen \in Nat /\ DataEndsAt(w) \in Nat /\ Eofs1(w) \in Nat
      /\ OpenLen = DataEndsAt(w) + Eofs1(w) + Len(checksum_bytes) /\ DataEndsAt(w) >= 2
      /\ Len(checksum_bytes) \in Nat /\ Len(checksum_bytes) < CHECKSUM_LEN
      /\ Len(raw) = raw_head + OpenLen /\ CHECKSUM_LEN \in Nat
      /\ data_end = raw_head + DataEndsAt(w)
  BY GenuineIndices
<1>1. /\ SubSeq(raw, raw_head + 3, data_end) = Escape(w.data)
      /\ TypeByte = w.type_byte /\ running = RunOver(w.type_byte, w.data, Eofs1(w))
  BY GenuineHolds
<1>2. checksum_ok(Append(checksum_bytes, ch))
  <2>1. Append(checksum_bytes, ch) = SumOf(w)
    BY GenuineSum
  <2> QED BY <1>1, <2>1, Zenon DEF checksum_ok, SumOf
<1>3. SubSeq(Append(raw, ch), raw_head + 3, data_end) = Escape(w.data)
  <2>1. raw_head + 3 \in Nat \ {0} /\ data_end \in Nat /\ data_end <= Len(raw)
    <3>1. PICK p \in Nat, d \in Nat, n \in Nat, k \in Nat, l \in Nat :
            /\ p = raw_head /\ d = DataEndsAt(w) /\ n = Eofs1(w) /\ k = Len(checksum_bytes)
            /\ l = Len(raw)
      BY <1>0, Zenon
    <3>2. l = p + (d + n + k) /\ data_end = p + d
      BY <1>0, <3>1, Zenon
    <3>3. p + 3 \in Nat \ {0} /\ p + d \in Nat /\ p + d <= l
      BY <3>2
    <3> QED BY <3>1, <3>2, <3>3, Zenon
  <2>2. PICK i \in Nat \ {0}, j \in Nat : i = raw_head + 3 /\ j = data_end /\ j <= Len(raw)
    BY <2>1, Zenon
  <2>3. PICK s \in Seq(Byte) : s = raw
    BY <1>0, Zenon
  <2>4. j <= Len(s)
    BY <2>2, <2>3, Zenon
  <2>5. SubSeq(Append(s, ch), i, j) = SubSeq(s, i, j)
    BY <2>4, PartOfAppend
  <2> QED BY <1>1, <2>2, <2>3, <2>5, Zenon
<1>4. Unescape(Escape(w.data)).out = w.data /\ ~Unescape(Escape(w.data)).esc
  BY FrameLayout, UnescapeParts, Zenon DEF EscapeGood
<1>5. Decoded(Append(raw, ch)) = w.data
  BY <1>3, <1>4, Zenon DEF Decoded
<1>6. ~DecodePanics(Append(raw, ch))
  <2>1. ~(data_end > Len(Append(raw, ch)))
    BY <1>0
  <2> QED BY <1>3, <1>4, <2>1, Zenon DEF DecodePanics
<1>7. Append(raw, ch)[raw_head + 2] = w.type_byte
  <2>1. Append(raw, ch)[raw_head + 2] = raw[raw_head + 2]
    BY <1>0
  <2> QED BY <1>1, <2>1, Zenon DEF TypeByte
<1>8. [type_byte |-> w.type_byte, data |-> w.data] = w
  <2>1. w \in [type_byte : Byte \cup {TYPE_RAW}, data : Seq(Byte)]
    BY TrafficAssumption
  <2> QED BY <2>1
<1>9. SubSeq(Append(raw, ch), 1, raw_head) = Settled
  <2>1. 1 \in Nat \ {0} /\ raw_head <= Len(raw)
    BY <1>0
  <2> QED BY <1>0, <2>1, PartOfAppend DEF Settled
<1>10. OpenLen + 3 = Len(Bytes(w))
  <2>1. PICK d \in Nat, n \in Nat, k \in Nat :
          /\ d = DataEndsAt(w) /\ n = Eofs1(w) /\ k = Len(checksum_bytes)
          /\ OpenLen = d + n + k /\ k < CHECKSUM_LEN /\ k + 1 >= CHECKSUM_LEN
    BY <1>0, Zenon
  <2>2. PICK c \in Nat : c = CHECKSUM_LEN /\ c = k + 1
    BY <1>0, <2>1
  <2>3. Len(Bytes(w)) = d + n + c + 2
    BY <2>1, <2>2, FrameLen, Zenon
  <2>4. d + n + k + 3 = d + n + c + 2
    BY <2>2
  <2> QED BY <2>1, <2>3, <2>4, Zenon
<1> QED BY <1>2, <1>5, <1>6, <1>7, <1>8, <1>9, <1>10, Zenon

-----------------------------------------------------------------------------
(* Any byte of such a frame.                                               *)

\* A frame that is being decoded has its checksum's last byte, CR and LF to come.
LEMMA GenuineRoom ==
    ASSUME BaseInv, NEW w \in Writes, IsFrame(w), GenuineState(w)
    PROVE  /\ OpenLen \in Nat /\ OpenLen >= 1 /\ (state = "Sof" => OpenLen = 1)
           /\ OpenLen + 3 <= Len(Bytes(w))
<1>1. OpenLen \in Nat /\ OpenLen >= 1 /\ (state = "Sof" => OpenLen = 1)
  <2>1. raw_head \in Nat /\ Len(raw) \in Nat
    BY OutTypes
  <2>2. InAttempt
    BY DEF GenuineState, InAttempt
  <2>3. raw_head < Len(raw) /\ (state = "Sof" => Len(raw) = raw_head + 1)
    BY <2>2 DEF BaseInv, DecoderHolds, TypeInv, DecoderInv, AttemptInv
  <2> QED BY <2>1, <2>3 DEF OpenLen
<1>2. PICK d \in Nat, n \in Nat, c \in Nat :
        /\ d = DataEndsAt(w) /\ n = Eofs1(w) /\ c = CHECKSUM_LEN
        /\ d >= 2 /\ n >= 1 /\ c >= 1 /\ Len(Bytes(w)) = d + n + c + 2
  <2>1. Eofs1(w) \in Nat /\ Eofs1(w) >= 1
    BY FrameLen
  <2> QED BY <2>1, FrameLen, Zenon
<1>3. OpenLen + 3 <= d + n + c + 2
  <2>1. CASE state = "Sof"
    BY <1>1, <1>2, <2>1
  <2>2. CASE state \in {"Data", "DataEsc"}
    <3>1. OpenLen <= d
      BY <1>2, <2>2 DEF GenuineState
    <3> QED BY <1>1, <1>2, <3>1
  <2>3. CASE state = "Eof"
    <3>1. OpenLen = d + 1
      BY <1>2, <2>3 DEF GenuineState
    <3> QED BY <1>2, <3>1
  <2>4. CASE state = "Checksum"
    <3>1. PICK k \in Nat : k < c /\ OpenLen = d + n + k
      BY <1>2, <2>4, GenuineIndices, Zenon
    <3> QED BY <1>2, <3>1
  <2> QED BY <2>1, <2>2, <2>3, <2>4 DEF GenuineState
<1> QED BY <1>1, <1>2, <1>3, Zenon

\* The next byte, in each of the states.
LEMMA GenuineByte ==
    ASSUME BaseInv, NEW w \in Writes, IsFrame(w), GenuineState(w), Tracks(w, OpenLen),
           NEW ch \in Byte, ch = Bytes(w)[OpenLen + 1]
    PROVE  /\ OpenLen \in Nat /\ OpenLen >= 1 /\ OpenLen + 3 <= Len(Bytes(w))
           /\ state = "Sof" => ch \notin {SOF, EOF} /\ OpenLen = 1
           /\ state \in {"Data", "DataEsc"} =>
                \/ OpenLen < DataEndsAt(w) /\ (state = "DataEsc" \/ ch \notin {SOF, EOF})
                \/ OpenLen = DataEndsAt(w) /\ state = "Data" /\ ch = EOF /\ data_len = Len(w.data)
           /\ state = "Eof" => ch = EOF
<1>1. /\ OpenLen \in Nat /\ OpenLen >= 1 /\ (state = "Sof" => OpenLen = 1)
      /\ OpenLen + 3 <= Len(Bytes(w))
  BY GenuineRoom
<1>2. PICK d \in Nat, n \in Nat : d = DataEndsAt(w) /\ n = Eofs1(w)
  <2>1. Eofs1(w) \in Nat
    BY FrameLen
  <2> QED BY <2>1, FrameLen, Zenon
<1>3. ASSUME state = "Sof" PROVE ch \notin {SOF, EOF}
  <2>1. OpenLen + 1 = 2
    BY <1>1, <1>3
  <2>2. ch = w.type_byte
    BY <2>1, FrameBytes, Zenon
  <2> QED BY <2>2, FrameTypes, Zenon
<1>4. ASSUME state \in {"Data", "DataEsc"}
      PROVE  \/ OpenLen < DataEndsAt(w) /\ (state = "DataEsc" \/ ch \notin {SOF, EOF})
             \/ OpenLen = DataEndsAt(w) /\ state = "Data" /\ ch = EOF /\ data_len = Len(w.data)
  <2>1. OpenLen <= d
    BY <1>2, <1>4 DEF GenuineState
  <2>2. OpenLen < d \/ OpenLen = d
    BY <1>1, <2>1
  <2>3. OpenLen <= DataEndsAt(w) /\ (OpenLen < DataEndsAt(w) \/ OpenLen = DataEndsAt(w))
    BY <1>2, <2>1, <2>2, Zenon
  <2>4. /\ OpenLen < DataEndsAt(w) =>
             state = "DataEsc" \/ Bytes(w)[OpenLen + 1] \notin {SOF, EOF}
        /\ OpenLen = DataEndsAt(w) =>
             state = "Data" /\ data_len = Len(w.data) /\ Bytes(w)[OpenLen + 1] = EOF
    BY <1>4, <2>3, GenuineData, Zenon
  <2> QED BY <2>3, <2>4, Zenon
<1>5. ASSUME state = "Eof" PROVE ch = EOF
  <2>1. OpenLen = d + 1 /\ n = 2
    BY <1>2, <1>5 DEF GenuineState
  <2>2. OpenLen + 1 = d + 2 /\ 2 \in 1 .. n
    BY <2>1
  <2>3. Bytes(w)[DataEndsAt(w) + 2] = EOF
    BY <1>2, <2>2, FrameBytes, Zenon
  <2> QED BY <1>2, <2>2, <2>3, Zenon
<1> QED BY <1>1, <1>3, <1>4, <1>5, Zenon

\* A byte that continues the attempt continues the frame.
LEMMA GenuineGrows ==
    ASSUME BaseInv, NEW w \in Writes, IsFrame(w), GenuineState(w), Tracks(w, OpenLen),
           NEW ch \in Byte, ch = Bytes(w)[OpenLen + 1], Grown(ch), OpenLen' = OpenLen + 1
    PROVE  GenuineState(w)'
<1>1. PICK o \in Nat, d \in Nat, n \in {1, 2}, h \in Nat :
        /\ o = OpenLen /\ d = DataEndsAt(w) /\ n = Eofs1(w) /\ d >= 2 /\ h = raw_head
        /\ OpenLen' = o + 1 /\ raw_head' = h /\ Len(raw) = h + o
  <2>1. raw_head \in Nat /\ Len(raw) \in Nat /\ Len(raw) = raw_head + OpenLen /\ OpenLen \in Nat
    BY OutTypes, GenuineByte DEF OpenLen
  <2>2. raw_head' = raw_head
    BY DEF Grown
  <2> QED BY <2>1, <2>2, FrameLen, Zenon
<1>2. CASE state = "Sof"
  <2>1. state' = "Data" /\ o = 1
    BY <1>1, <1>2, GenuineByte DEF Grown
  <2>2. OpenLen' <= d
    BY <1>1, <2>1
  <2> QED BY <1>1, <2>1, <2>2 DEF GenuineState
<1>3. CASE state \in {"Data", "DataEsc"} /\ o < d
  <2>1. state = "DataEsc" \/ ch \notin {SOF, EOF}
    <3>1. o # d
      BY <1>3
    <3> QED BY <1>1, <1>3, <3>1, GenuineByte, Zenon
  <2>2. state' \in {"Data", "DataEsc"}
    BY <1>3, <2>1 DEF Grown
  <2>3. OpenLen' <= d
    BY <1>1, <1>3
  <2> QED BY <1>1, <2>2, <2>3 DEF GenuineState
<1>4. CASE state \in {"Data", "DataEsc"} /\ ~(o < d)
  <2>1. o = d /\ state = "Data" /\ ch = EOF /\ data_len = Len(w.data)
    BY <1>1, <1>4, GenuineByte, Zenon
  <2>2. /\ data_end' = Len(raw) /\ data_len' = data_len
        /\ \/ EofCount(data_len) = 2 /\ state' = "Eof"
           \/ EofCount(data_len) # 2 /\ state' = "Checksum" /\ checksum_bytes' = <<>>
    BY <2>1 DEF Grown, EOF, SOF, ESC
  <2>3. data_end' = h + d /\ OpenLen' = d + 1 /\ EofCount(data_len) = n /\ data_len' = Len(w.data)
    BY <1>1, <2>1, <2>2, Zenon DEF Eofs1
  <2>4. CASE state' = "Eof"
    <3>1. n = 2
      BY <2>2, <2>3, <2>4
    <3> QED BY <1>1, <2>3, <2>4, <3>1 DEF GenuineState
  <2>5. CASE state' = "Checksum"
    <3>1. n = 1 /\ Len(checksum_bytes') = 0
      BY <2>2, <2>3, <2>5
    <3>2. OpenLen' = d + n + Len(checksum_bytes')
      BY <2>3, <3>1
    <3> QED BY <1>1, <2>3, <2>5, <3>2 DEF GenuineState
  <2> QED BY <2>2, <2>4, <2>5
<1>5. CASE state = "Eof"
  <2>1. /\ state' = "Checksum" /\ checksum_bytes' = <<>> /\ data_end' = data_end
        /\ data_len' = data_len
    BY <1>5 DEF Grown
  <2>2. o = d + 1 /\ n = 2 /\ data_end = h + d /\ data_len = Len(w.data)
    BY <1>1, <1>5 DEF GenuineState
  <2>3. OpenLen' = d + n + Len(checksum_bytes')
    BY <1>1, <2>1, <2>2
  <2> QED BY <1>1, <2>1, <2>2, <2>3 DEF GenuineState
<1>6. CASE state = "Checksum"
  <2>1. /\ state' = "Checksum" /\ checksum_bytes' = Append(checksum_bytes, ch)
        /\ data_end' = data_end /\ data_len' = data_len
    BY <1>6 DEF Grown
  <2>2. PICK k \in Nat : /\ k = Len(checksum_bytes) /\ o = d + n + k /\ data_end = h + d
                         /\ data_len = Len(w.data) /\ checksum_bytes \in Seq(Byte)
    BY <1>1, <1>6, GenuineIndices, Zenon
  <2>3. Len(checksum_bytes') = k + 1
    BY <2>1, <2>2
  <2>4. OpenLen' = d + n + Len(checksum_bytes')
    <3>1. o = d + n + k /\ n \in Nat
      BY <2>2
    <3>2. o + 1 = d + n + (k + 1)
      BY <3>1
    <3> QED BY <1>1, <2>3, <3>2, Zenon
  <2> QED BY <1>1, <2>1, <2>2, <2>4 DEF GenuineState
<1> QED BY <1>2, <1>3, <1>4, <1>5, <1>6 DEF GenuineState

\* Such a byte is not taken for the beginning of a frame, nor is the attempt given up.
LEMMA GenuineKinds ==
    ASSUME BaseInv, NEW w \in Writes, IsFrame(w), GenuineState(w), Tracks(w, OpenLen),
           NEW ch \in Byte, ch = Bytes(w)[OpenLen + 1], inject(ch)
    PROVE  Dropped \/ Grown(ch) \/ Ended(ch)
<1>1. \/ Dropped \/ Swallowed(ch) \/ Opened(ch) \/ Grown(ch) \/ Refused(ch)
      \/ Ended(ch)
  BY InjectKinds DEF BaseInv, DecoderHolds, TypeInv
<1>2. ~Swallowed(ch)
  BY DEF Swallowed, GenuineState
<1>3. /\ state = "Sof" => ch \notin {SOF, EOF}
      /\ state = "Data" => ch # SOF
      /\ state = "Eof" => ch = EOF
  BY GenuineByte DEF SOF, EOF
<1>4. ~Opened(ch)
  BY <1>3 DEF Opened, GenuineState, SOF, EOF
<1>5. ~Refused(ch)
  <2>1. state = "Checksum" /\ Len(checksum_bytes) + 1 >= CHECKSUM_LEN
          => checksum_ok(Append(checksum_bytes, ch))
    BY GenuineDecoded
  <2> QED BY <1>3, <2>1 DEF Refused, GenuineState
<1> QED BY <1>1, <1>2, <1>4, <1>5

\* A byte of a frame that is being decoded.
LEMMA GenuineInject ==
    ASSUME BaseInv, NEW before \in Seq(Writes), NEW w \in Writes, GenuineAt(before, w),
           NEW ch \in Byte, NEW p \in Nat, p = OpenLen, ch = Bytes(w)[p + 1], inject(ch),
           delivered' = delivered, stalls' = stalls
    PROVE  /\ panicked' = panicked /\ p >= 1 /\ p + 3 <= Len(Bytes(w)) /\ (Intact' => Intact)
           /\ \/ ~Intact' /\ MissedAt(before \o <<w>>, w, p + 1)'
              \/ OpenLen' = p + 1 /\ GenuineAt(before, w)'
              \/ /\ p + 3 = Len(Bytes(w)) /\ state' = "PostFrame"
                 /\ Tally(Out', Text(delivered)', Intact', before \o <<w>>, raw')
<1>0. IsFrame(w) /\ Tracks(w, OpenLen) /\ GenuineState(w) /\ Accounted(before, Settled)
  BY DEF GenuineAt
<1>1. ch = Bytes(w)[OpenLen + 1]
  OBVIOUS
<1>2. p >= 1 /\ p + 3 <= Len(Bytes(w))
  BY <1>0, <1>1, GenuineByte
<1>3. Dropped \/ Grown(ch) \/ Ended(ch)
  BY <1>0, <1>1, GenuineKinds
<1>4. CASE Dropped
  <2>1. /\ state' = "Idle" /\ frames' = frames /\ panicked' = panicked /\ ~Intact'
    BY <1>4, IntactBefore DEF Dropped
  <2>2. Picks(Out, Frames(before \o <<w>>)) /\ Out' = Out
    <3>1. Picks(Out, Frames(before))
      BY <1>0 DEF Accounted, Tally
    <3> QED BY <2>1, <3>1, PicksLater DEF Out, FramesOut
  <2>3. OpenLen' = 0 /\ Tracks(w, p + 1)'
    BY <1>0, <1>4, TracksOn
  <2>4. MissedAt(before \o <<w>>, w, p + 1)'
    BY <1>0, <2>1, <2>2, <2>3 DEF MissedAt
  <2> QED BY <1>2, <2>1, <2>4
<1>5. CASE Grown(ch)
  <2>1. /\ raw' = Append(raw, ch) /\ raw_head' = raw_head /\ frames' = frames
        /\ panicked' = panicked /\ drop_count' = drop_count
    BY <1>5 DEF Grown, Kept
  <2>2. OpenLen' = p + 1 /\ Tracks(w, p + 1)'
    BY <1>0, <1>5, TracksOn
  <2>3. GenuineState(w)'
    <3>1. OpenLen' = OpenLen + 1
      BY <2>2
    <3> QED BY <1>0, <1>1, <1>5, <3>1, GenuineGrows
  <2>4. Intact' => Intact
    BY <2>1, IntactBefore
  <2>5. Settled' = Settled
    <3>1. raw \in Seq(Byte) /\ raw_head \in Nat /\ raw_head <= Len(raw) /\ 1 \in Nat \ {0}
      BY OutTypes
    <3>2. SubSeq(Append(raw, ch), 1, raw_head) = SubSeq(raw, 1, raw_head)
      BY <3>1, PartOfAppend
    <3> QED BY <2>1, <3>2 DEF Settled
  <2>6. Tally(Out', Text(delivered)', Intact', before, Settled')
    BY <1>0, <2>1, <2>4, <2>5, AccountedKept
  <2>7. Tracks(w, OpenLen)'
    BY <2>2 DEF Tracks
  <2>8. GenuineAt(before, w)'
    BY <1>0, <2>3, <2>6, <2>7 DEF GenuineAt, Accounted
  <2> QED BY <1>2, <2>1, <2>2, <2>4, <2>8
<1>6. CASE Ended(ch)
  <2>1. state = "Checksum" /\ Len(checksum_bytes) + 1 >= CHECKSUM_LEN /\ drop_count' = drop_count
    BY <1>6 DEF Ended
  <2>2. /\ ~DecodePanics(Append(raw, ch))
        /\ [type_byte |-> Append(raw, ch)[raw_head + 2], data |-> Decoded(Append(raw, ch))] = w
        /\ SubSeq(Append(raw, ch), 1, raw_head) = Settled
        /\ OpenLen + 3 = Len(Bytes(w))
    BY <1>0, <1>1, <2>1, GenuineDecoded
  <2>3. resolve_success(Append(raw, ch)) /\ panicked' = panicked
    BY <1>6, <2>2 DEF Ended
  <2>4. frames' = Append(frames, w) /\ raw' = Settled /\ state' = "PostFrame"
    BY <2>2, <2>3, Zenon DEF resolve_success
  <2>5. Intact' => Intact
    BY <2>1, IntactBefore
  <2>6. Tally(Out', Text(delivered)', Intact', before \o <<w>>, raw')
    BY <1>0, <2>4, <2>5, AccountedFrame
  <2> QED BY <1>2, <2>2, <2>3, <2>4, <2>5, <2>6
<1> QED BY <1>3, <1>4, <1>5, <1>6

\* The SOF of a frame opens an attempt, over whatever text came before it.
LEMMA FrameStart ==
    ASSUME BaseInv, NEW past \in Seq(Writes), NEW w \in Writes, IsFrame(w),
           Background(past, <<>>), NEW ch \in Byte, ch = Bytes(w)[1], inject(ch),
           delivered' = delivered, stalls' = stalls
    PROVE  /\ panicked' = panicked /\ (Intact' => Intact) /\ 2 <= Len(Bytes(w)) - 1
           /\ \/ ~Intact' /\ MissedAt(past \o <<w>>, w, 1)'
              \/ OpenLen' = 1 /\ GenuineAt(past, w)'
<1>0. /\ raw \in Seq(Byte) /\ Len(raw) \in Nat /\ state \in Calm /\ Accounted(past, raw \o <<>>)
      /\ raw \o <<>> = raw
  BY OutTypes DEF Background
<1>1. ch = SOF /\ state \in {"Idle", "Sof", "Data"}
  BY <1>0, FrameBytes DEF Calm
<1>2. \/ Dropped \/ Swallowed(ch) \/ Opened(ch) \/ Grown(ch) \/ Refused(ch)
      \/ Ended(ch)
  BY InjectKinds DEF BaseInv, DecoderHolds, TypeInv
<1>3. Dropped \/ Opened(ch)
  BY <1>1, <1>2 DEF Swallowed, Grown, Refused, Ended, SOF, EOF, ESC
<1>4. 2 <= Len(Bytes(w)) - 1
  BY FrameLen
<1>5. CASE Dropped
  <2>1. /\ state' = "Idle" /\ frames' = frames /\ panicked' = panicked /\ ~Intact'
    BY <1>5, IntactBefore DEF Dropped
  <2>2. Picks(Out, Frames(past \o <<w>>)) /\ Out' = Out
    <3>1. Picks(Out, Frames(past))
      BY <1>0 DEF Accounted, Tally
    <3> QED BY <2>1, <3>1, PicksLater DEF Out, FramesOut
  <2>3. OpenLen' = 0
    BY <1>0, <1>5 DEF Dropped, OpenLen
  <2>4. Tracks(w, 1)'
    BY <2>3 DEF Tracks
  <2>5. MissedAt(past \o <<w>>, w, 1)'
    BY <2>1, <2>2, <2>3, <2>4 DEF MissedAt
  <2> QED BY <1>4, <2>1, <2>5
<1>6. CASE Opened(ch)
  <2>1. /\ raw' = Append(raw, ch) /\ raw_head' = Len(raw) /\ frames' = frames
        /\ panicked' = panicked /\ drop_count' = drop_count /\ state' = "Sof"
    BY <1>6 DEF Opened, Kept
  <2>2. Intact' => Intact
    BY <2>1, IntactBefore
  <2>3. Settled' = raw
    <3>1. 1 \in Nat \ {0} /\ Len(raw) <= Len(raw)
      BY <1>0
    <3>2. SubSeq(Append(raw, ch), 1, Len(raw)) = SubSeq(raw, 1, Len(raw))
      BY <1>0, <3>1, PartOfAppend
    <3>3. SubSeq(raw, 1, Len(raw)) = raw
      BY <1>0
    <3> QED BY <2>1, <3>2, <3>3 DEF Settled
  <2>4. Tally(Out', Text(delivered)', Intact', past, Settled')
    BY <1>0, <2>1, <2>2, <2>3, AccountedKept
  <2>5. OpenLen' = 1 /\ raw'[raw_head' + 1] = ch
    BY <1>0, <2>1 DEF OpenLen
  <2>6. Tracks(w, OpenLen)'
    <3>1. \A i \in 1 .. 1 : i = 1 /\ 1 - 1 + i = 1
      OBVIOUS
    <3>2. \A i \in 1 .. OpenLen' : raw'[raw_head' + i] = Bytes(w)[OpenLen' - OpenLen' + i]
      BY <2>5, <3>1
    <3> QED BY <3>2 DEF Tracks
  <2>7. GenuineAt(past, w)'
    BY <2>1, <2>4, <2>6 DEF GenuineAt, GenuineState, Accounted
  <2> QED BY <1>4, <2>1, <2>2, <2>5, <2>7
<1> QED BY <1>3, <1>5, <1>6

-----------------------------------------------------------------------------
(* A byte, wherever the decoder is.                                        *)

\* The first element and the others.
LEMMA FirstOf ==
    ASSUME NEW S, NEW x \in S, NEW y \in S, NEW s \in Seq(S), NEW t \in Seq(S),
           <<x>> \o s = <<y>> \o t
    PROVE  x = y /\ s = t
<1>1. PICK a \in Seq(S) : a = <<x>> \o s /\ a = <<y>> \o t
  <2>1. <<x>> \o s \in Seq(S)
    OBVIOUS
  <2> QED BY <2>1, Zenon
<1>2. Len(a) = 1 + Len(s) /\ a[1] = x /\ \A i \in 1 .. Len(s) : a[1 + i] = s[i]
  BY <1>1
<1>3. Len(a) = 1 + Len(t) /\ a[1] = y /\ \A i \in 1 .. Len(t) : a[1 + i] = t[i]
  BY <1>1
<1>4. Len(s) = Len(t)
  BY <1>2, <1>3
<1>5. \A i \in 1 .. Len(s) : s[i] = t[i]
  BY <1>2, <1>3, <1>4, Zenon
<1>6. s = t
  BY <1>4, <1>5, SameSeq
<1> QED BY <1>2, <1>3, <1>6

\* A byte and the bytes behind it.
Then(x, s) == <<x>> \o s

\* They determine both.
LEMMA FirstThen ==
    ASSUME NEW x \in Byte, NEW y \in Byte, NEW s \in Seq(Byte), NEW t \in Seq(Byte),
           Then(x, s) = Then(y, t)
    PROVE  x = y /\ s = t
BY FirstOf DEF Then

\* The byte that follows the first p of a write, and the rest.
LEMMA NextOf ==
    ASSUME NEW w \in Writes, NEW p \in Nat, p + 1 <= Len(Bytes(w)), NEW ch \in Byte,
           NEW r \in Seq(Byte), <<ch>> \o r = Suf(Bytes(w), p)
    PROVE  ch = Bytes(w)[p + 1] /\ r = Suf(Bytes(w), p + 1)
<1>1. PICK b \in Seq(Byte) : b = Bytes(w)
  BY TrafficAssumption
<1>2. p \in 0 .. Len(b) /\ p # Len(b) /\ p + 1 \in 0 .. Len(b)
  BY <1>1
<1>3. b[p + 1] \in Byte /\ Suf(b, p) = <<b[p + 1]>> \o Suf(b, p + 1)
  BY <1>2, SufStep
<1>4. PICK t \in Seq(Byte) : t = Suf(b, p + 1)
  BY <1>2, SufIs, Zenon
<1>5. PICK y \in Byte : y = b[p + 1]
  BY <1>3
<1>6. Then(ch, r) = Then(y, t)
  BY <1>1, <1>3, <1>4, <1>5, Zenon DEF Then
<1>7. ch = y /\ r = t
  BY <1>6, FirstThen
<1> QED BY <1>1, <1>4, <1>5, <1>7, Zenon

\* What is left of a write is nothing when all of it is gone, and CR LF after its checksum.
LEMMA LastOf ==
    ASSUME NEW w \in Writes
    PROVE  /\ Suf(Bytes(w), Len(Bytes(w))) = <<>>
           /\ \A p \in Nat : p + 1 <= Len(Bytes(w)) => Suf(Bytes(w), p) # <<>>
           /\ \A p \in Nat : IsFrame(w) /\ p + 2 = Len(Bytes(w)) => Suf(Bytes(w), p) = <<CR, LF>>
<1>1. PICK b \in Seq(Byte) : b = Bytes(w)
  BY TrafficAssumption
<1>2. Suf(b, Len(b)) = <<>>
  BY SufEnds
<1>3. ASSUME NEW p \in Nat, p + 1 <= Len(b) PROVE Suf(b, p) # <<>>
  <2>1. p \in 0 .. Len(b) /\ Len(b) - p # 0
    BY <1>3
  <2>2. Len(Suf(b, p)) = Len(b) - p
    BY <2>1, SufIs
  <2>3. Len(<<>>) = 0
    OBVIOUS
  <2> QED BY <2>1, <2>2, <2>3, Zenon
<1>4. ASSUME NEW p \in Nat, IsFrame(w), p + 2 = Len(b) PROVE Suf(b, p) = <<CR, LF>>
  <2>1. p \in 0 .. Len(b) /\ Len(b) - p = 2 /\ p + 1 = Len(b) - 1 /\ p + 2 = Len(b)
    BY <1>4
  <2>2. PICK a \in Seq(Byte) : a = Suf(b, p) /\ Len(a) = 2 /\ a[1] = b[p + 1] /\ a[2] = b[p + 2]
    <3>1. 1 \in 1 .. 2 /\ 2 \in 1 .. 2
      OBVIOUS
    <3>2. /\ Suf(b, p) \in Seq(Byte) /\ Len(Suf(b, p)) = Len(b) - p
          /\ \A i \in 1 .. Len(b) - p : Suf(b, p)[i] = b[p + i]
      BY <2>1, SufIs
    <3>3. Len(Suf(b, p)) = 2 /\ Suf(b, p)[1] = b[p + 1] /\ Suf(b, p)[2] = b[p + 2]
      BY <2>1, <3>1, <3>2, Zenon
    <3> QED BY <3>2, <3>3, Zenon
  <2>3. b[Len(b) - 1] = CR /\ b[Len(b)] = LF
    BY <1>1, <1>4, FrameLayout, Zenon DEF LaidOut
  <2>4. a[1] = CR /\ a[2] = LF
    BY <2>1, <2>2, <2>3, Zenon
  <2>5. PICK t \in Seq(Byte) : t = <<CR, LF>> /\ Len(t) = 2 /\ t[1] = CR /\ t[2] = LF
    <3>1. /\ <<CR, LF>> \in Seq(Byte) /\ Len(<<CR, LF>>) = 2 /\ <<CR, LF>>[1] = CR
          /\ <<CR, LF>>[2] = LF
      BY ByteAssumption
    <3> QED BY <3>1, Zenon
  <2>6. Len(a) = Len(t) /\ \A i \in 1 .. Len(a) : a[i] = t[i]
    BY <2>2, <2>4, <2>5
  <2>7. a = t
    BY <2>6, SameSeq
  <2> QED BY <2>2, <2>5, <2>7, Zenon
<1> QED BY <1>1, <1>2, <1>3, <1>4, Zenon

\* A write is never empty.
LEMMA WriteBegins ==
    ASSUME NEW w \in Writes
    PROVE  Bytes(w) \in Seq(Byte) /\ Bytes(w) # <<>>
<1>1. Bytes(w) \in Seq(Byte)
  BY TrafficAssumption
<1>2. CASE IsFrame(w)
  <2>1. Len(Bytes(w)) # 0
    BY <1>2, FrameLen
  <2> QED BY <1>1, <2>1
<1>3. CASE ~IsFrame(w)
  <2>1. Bytes(w) = w.data /\ w.data # <<>>
    BY <1>3, TrafficAssumption DEF Bytes
  <2> QED BY <1>1, <2>1
<1> QED BY <1>2, <1>3

\* A byte that is left of what the device wrote leaves one byte fewer.
LEMMA PositionInject ==
    ASSUME BaseInv, BaseInv', Watched', NEW past \in Seq(Writes), NEW ch \in Byte,
           NEW r \in Seq(Byte), Position(past, <<ch>> \o r), inject(ch),
           delivered' = delivered, stalls' = stalls, Intact' => Intact
    PROVE  panicked' = panicked /\ Position(past, r)'
<1>1. CASE Background(past, <<ch>> \o r)
  BY <1>1, BackgroundInject DEF Position
<1>2. CASE After(past, <<ch>> \o r)
  BY <1>2, AfterInject DEF Position
<1>3. CASE Missed(past, <<ch>> \o r)
  <2>1. PICK w \in Writes : \E p \in 1 .. Len(Bytes(w)) - 1 :
          <<ch>> \o r = Suf(Bytes(w), p) /\ MissedAt(past, w, p)
    BY <1>3, Zenon DEF Missed
  <2>2. PICK p \in 1 .. Len(Bytes(w)) - 1 :
          <<ch>> \o r = Suf(Bytes(w), p) /\ MissedAt(past, w, p)
    BY <2>1, Zenon
  <2>3. Len(Bytes(w)) \in Nat
    BY WriteBegins
  <2>4. PlainText /\ NoFrameInside
    <3>1. ~Intact
      BY <2>2, Zenon DEF MissedAt
    <3>2. ~Intact'
      BY <3>1
    <3> QED BY <3>2 DEF Watched, PlainText, NoFrameInside
  <2>5. p \in Nat /\ p + 1 <= Len(Bytes(w))
    BY <2>3
  <2>6. ch = Bytes(w)[p + 1] /\ r = Suf(Bytes(w), p + 1)
    BY <2>2, <2>5, NextOf
  <2>7. /\ panicked' = panicked
        /\ p + 1 = Len(Bytes(w)) => Background(past, <<>>)'
        /\ p + 1 # Len(Bytes(w)) => MissedAt(past, w, p + 1)'
    BY <2>2, <2>4, <2>6, MissedInject
  <2>8. CASE p + 1 = Len(Bytes(w))
    <3>1. r = <<>>
      BY <2>6, <2>8, LastOf
    <3> QED BY <2>7, <2>8, <3>1 DEF Position
  <2>9. CASE p + 1 # Len(Bytes(w))
    <3>1. PICK q \in 1 .. Len(Bytes(w)) - 1 : q = p + 1
      <4>1. p + 1 \in 1 .. Len(Bytes(w)) - 1
        BY <2>3, <2>5, <2>9
      <4> QED BY <4>1
    <3>2. r = Suf(Bytes(w), q) /\ MissedAt(past, w, q)'
      BY <2>6, <2>7, <2>9, <3>1
    <3>3. Missed(past, r)'
      BY <3>1, <3>2 DEF Missed
    <3> QED BY <2>7, <3>3 DEF Position
  <2> QED BY <2>8, <2>9
<1>4. CASE Genuine(past, <<ch>> \o r)
  <2>1. PICK before \in Seq(Writes), w \in Writes :
          /\ past = before \o <<w>> /\ <<ch>> \o r = Suf(Bytes(w), OpenLen)
          /\ GenuineAt(before, w)
    BY <1>4, Zenon DEF Genuine
  <2>2. IsFrame(w) /\ GenuineState(w)
    BY <2>1, Zenon DEF GenuineAt
  <2>3. PICK p \in Nat : p = OpenLen /\ p >= 1 /\ p + 3 <= Len(Bytes(w))
    BY <2>2, GenuineRoom
  <2>4. Len(Bytes(w)) \in Nat
    BY WriteBegins
  <2>5. p + 1 <= Len(Bytes(w)) /\ p + 1 \in Nat /\ p + 1 \in 1 .. Len(Bytes(w)) - 1
    BY <2>3, <2>4
  <2>6. <<ch>> \o r = Suf(Bytes(w), p)
    BY <2>1, <2>3, Zenon
  <2>7. ch = Bytes(w)[p + 1] /\ r = Suf(Bytes(w), p + 1)
    BY <2>5, <2>6, NextOf
  <2>8. /\ panicked' = panicked
        /\ \/ ~Intact' /\ MissedAt(before \o <<w>>, w, p + 1)'
           \/ OpenLen' = p + 1 /\ GenuineAt(before, w)'
           \/ /\ p + 3 = Len(Bytes(w)) /\ state' = "PostFrame"
              /\ Tally(Out', Text(delivered)', Intact', before \o <<w>>, raw')
    BY <2>1, <2>3, <2>7, GenuineInject
  <2>9. CASE MissedAt(before \o <<w>>, w, p + 1)'
    <3>1. PICK q \in 1 .. Len(Bytes(w)) - 1 : q = p + 1
      BY <2>5
    <3>2. r = Suf(Bytes(w), q) /\ MissedAt(past, w, q)'
      BY <2>1, <2>7, <2>9, <3>1
    <3>3. Missed(past, r)'
      BY <3>1, <3>2 DEF Missed
    <3> QED BY <2>8, <3>3 DEF Position
  <2>10. CASE OpenLen' = p + 1 /\ GenuineAt(before, w)'
    <3>1. r = Suf(Bytes(w), OpenLen')
      BY <2>7, <2>10
    <3>2. Genuine(past, r)'
      BY <2>1, <2>10, <3>1 DEF Genuine
    <3> QED BY <2>8, <3>2 DEF Position
  <2>11. CASE /\ p + 3 = Len(Bytes(w)) /\ state' = "PostFrame"
              /\ Tally(Out', Text(delivered)', Intact', before \o <<w>>, raw')
    <3>1. (p + 1) + 2 = Len(Bytes(w))
      BY <2>11
    <3>2. r = <<CR, LF>>
      BY <2>2, <2>5, <2>7, <3>1, LastOf
    <3>3. Tally(Out', Text(delivered)', Intact', past, raw')
      BY <2>1, <2>11, Zenon
    <3>4. After(past, r)'
      BY <2>11, <3>2, <3>3 DEF After, Accounted
    <3> QED BY <2>8, <3>4 DEF Position
  <2> QED BY <2>8, <2>9, <2>10, <2>11
<1> QED BY <1>1, <1>2, <1>3, <1>4 DEF Position

-----------------------------------------------------------------------------
(* A byte of the stream.                                                   *)

\* Only in text nothing may be left of what was begun.
LEMMA PositionEmpty ==
    ASSUME BaseInv, NEW past \in Seq(Writes), Position(past, <<>>)
    PROVE  Background(past, <<>>)
<1>1. ~After(past, <<>>)
  <2>1. <<>> # <<CR, LF>> /\ <<>> # <<LF>>
    OBVIOUS
  <2> QED BY <2>1 DEF After
<1>2. ~Missed(past, <<>>)
  <2>1. ASSUME NEW w \in Writes, NEW p \in 1 .. Len(Bytes(w)) - 1 PROVE <<>> # Suf(Bytes(w), p)
    <3>1. Len(Bytes(w)) \in Nat
      BY WriteBegins
    <3>2. p \in Nat /\ p + 1 <= Len(Bytes(w))
      BY <3>1
    <3> QED BY <3>2, LastOf, Zenon
  <2> QED BY <2>1, Zenon DEF Missed
<1>3. ~Genuine(past, <<>>)
  <2>1. ASSUME NEW before \in Seq(Writes), NEW w \in Writes, GenuineAt(before, w)
        PROVE  <<>> # Suf(Bytes(w), OpenLen)
    <3>1. IsFrame(w) /\ GenuineState(w)
      BY <2>1, Zenon DEF GenuineAt
    <3>2. OpenLen \in Nat /\ OpenLen + 3 <= Len(Bytes(w)) /\ Len(Bytes(w)) \in Nat
      BY <3>1, GenuineRoom, WriteBegins
    <3>3. OpenLen + 1 <= Len(Bytes(w))
      BY <3>2
    <3> QED BY <3>2, <3>3, LastOf, Zenon
  <2> QED BY <2>1, Zenon DEF Genuine
<1> QED BY <1>1, <1>2, <1>3 DEF Position

\* Where the stream, the past and the future meet.
FlowAt(past, future, rest) ==
    /\ sent = past \o future
    /\ Stream = rest \o AllBytes(future)
    /\ Position(past, rest)

\* A sequence that is not empty has a first element.
LEMMA FirstExists ==
    ASSUME NEW S, NEW s \in Seq(S), s # <<>>
    PROVE  \E x \in S, t \in Seq(S) : s = <<x>> \o t
<1>1. Head(s) \in S /\ Tail(s) \in Seq(S) /\ s = <<Head(s)>> \o Tail(s)
  OBVIOUS
<1> QED BY <1>1, Zenon

\* The next byte is one of what was begun, unless it begins a frame.
LEMMA FlowAhead ==
    ASSUME BaseInv, PlainText \/ TextWithoutSof, Flow, Stream # <<>>
    PROVE  \/ \E past \in Seq(Writes), future \in Seq(Writes), rest \in Seq(Byte) :
                 rest # <<>> /\ FlowAt(past, future, rest)
           \/ \E past \in Seq(Writes), future \in Seq(Writes), w \in Writes :
                 /\ sent = (past \o <<w>>) \o future
                 /\ Stream = Bytes(w) \o AllBytes(future)
                 /\ IsFrame(w) /\ Background(past, <<>>)
<1>1. PICK past \in Seq(Writes), future \in Seq(Writes), rest \in Seq(Byte) :
        FlowAt(past, future, rest)
  BY Zenon DEF Flow, FlowAt
<1>2. CASE rest # <<>>
  BY <1>1, <1>2, Zenon
<1>3. CASE rest = <<>>
  <2>1. PICK c \in Seq(Byte) : c = AllBytes(future)
    BY AllBytesCat
  <2>2. Stream = c
    BY <1>1, <1>3, <2>1 DEF FlowAt
  <2>3. future # <<>>
    BY <2>1, <2>2, AllBytesCat
  <2>4. PICK w \in Writes, f \in Seq(Writes) : future = <<w>> \o f
    BY <2>3, FirstExists
  <2>5. <<w>> \in Seq(Writes)
    OBVIOUS
  <2>6. Stream = Bytes(w) \o AllBytes(f)
    <3>1. AllBytes(<<w>> \o f) = AllBytes(<<w>>) \o AllBytes(f) /\ AllBytes(<<w>>) = Bytes(w)
      BY <2>5, AllBytesCat
    <3> QED BY <2>1, <2>2, <2>4, <3>1, Zenon
  <2>7. sent = (past \o <<w>>) \o f
    <3>1. (past \o <<w>>) \o f = past \o (<<w>> \o f)
      BY <2>5, CatAssoc
    <3> QED BY <1>1, <2>4, <3>1, Zenon DEF FlowAt
  <2>8. Background(past, <<>>)
    BY <1>1, <1>3, PositionEmpty DEF FlowAt
  <2>9. CASE IsFrame(w)
    BY <2>6, <2>7, <2>8, <2>9, Zenon
  <2>10. CASE ~IsFrame(w)
    <3>1. /\ Background(past \o <<w>>, Bytes(w)) /\ past \o <<w>> \in Seq(Writes)
          /\ Bytes(w) \in Seq(Byte) /\ Bytes(w) # <<>>
      BY <2>8, <2>10, TextBegins
    <3>2. FlowAt(past \o <<w>>, f, Bytes(w))
      BY <2>6, <2>7, <3>1, Zenon DEF FlowAt, Position
    <3> QED BY <3>1, <3>2, Zenon
  <2> QED BY <2>9, <2>10
<1> QED BY <1>2, <1>3

\* What is on its way does not change where it is not touched.
LEMMA FlowIntro ==
    ASSUME NEW past \in Seq(Writes), NEW future \in Seq(Writes), NEW rest \in Seq(Byte),
           sent' = past \o future, Stream' = rest \o AllBytes(future), Position(past, rest)'
    PROVE  Flow'
<1>1. \E a \in Seq(Writes), f \in Seq(Writes), r \in Seq(Byte) :
        sent' = a \o f /\ Stream' = r \o AllBytes(f) /\ Position(a, r)'
  BY Zenon
<1> QED BY <1>1 DEF Flow, AllBytes

\* The first byte of what was begun is the first byte of the stream.
LEMMA ThenCat ==
    ASSUME NEW y \in Byte, NEW r \in Seq(Byte), NEW c \in Seq(Byte)
    PROVE  r \o c \in Seq(Byte) /\ Then(y, r) \o c = Then(y, r \o c)
<1>1. <<y>> \in Seq(Byte) /\ r \o c \in Seq(Byte)
  BY CatElements
<1>2. (<<y>> \o r) \o c = <<y>> \o (r \o c)
  BY <1>1, CatAssoc
<1> QED BY <1>1, <1>2 DEF Then

\* A byte of the stream is taken by the decoder.
LEMMA FlowInject ==
    ASSUME BaseInv, BaseInv', PlainText \/ TextWithoutSof, Flow, Watched', PollInject,
           Intact' => Intact
    PROVE  panicked' = panicked /\ Flow'
<1>0. /\ sent' = sent /\ delivered' = delivered /\ stalls' = stalls
  BY DEF PollInject
<1>1. PICK ch \in Byte, s \in Seq(Byte) :
        inject(ch) /\ Stream = <<ch>> \o s /\ Stream' = s
  BY StreamInject, Zenon DEF BaseInv
<1>2. Stream # <<>>
  BY <1>1
<1>3. ASSUME NEW past \in Seq(Writes), NEW future \in Seq(Writes), NEW rest \in Seq(Byte),
             rest # <<>>, FlowAt(past, future, rest)
      PROVE  panicked' = panicked /\ Flow'
  <2>1. PICK c \in Seq(Byte) : c = AllBytes(future)
    BY AllBytesCat
  <2>2. PICK x \in Byte, r \in Seq(Byte) : rest = <<x>> \o r
    BY <1>3, FirstExists
  <2>3. Then(ch, s) = Then(x, r) \o c
    BY <1>1, <1>3, <2>1, <2>2, Zenon DEF FlowAt, Then
  <2>4. ch = x /\ s = r \o c
    <3>0. r \o c \in Seq(Byte) /\ Then(x, r) \o c = Then(x, r \o c)
      BY ThenCat
    <3>1. PICK t \in Seq(Byte) : t = r \o c /\ Then(x, r) \o c = Then(x, t)
      BY <3>0, Zenon
    <3>2. Then(ch, s) = Then(x, t)
      BY <2>3, <3>1, Zenon
    <3>3. ch = x /\ s = t
      BY <3>2, FirstThen
    <3> QED BY <3>1, <3>3, Zenon
  <2>5. Position(past, <<ch>> \o r)
    BY <1>3, <2>2, <2>4, Zenon DEF FlowAt
  <2>6. panicked' = panicked /\ Position(past, r)'
    BY <1>0, <1>1, <2>5, PositionInject
  <2>7. sent' = past \o future /\ Stream' = r \o AllBytes(future)
    BY <1>0, <1>1, <1>3, <2>1, <2>4, Zenon DEF FlowAt
  <2> QED BY <2>6, <2>7, FlowIntro
<1>4. ASSUME NEW past \in Seq(Writes), NEW future \in Seq(Writes), NEW w \in Writes,
             sent = (past \o <<w>>) \o future, Stream = Bytes(w) \o AllBytes(future),
             IsFrame(w), Background(past, <<>>)
      PROVE  panicked' = panicked /\ Flow'
  <2>1. PICK c \in Seq(Byte), b \in Seq(Byte), r \in Seq(Byte), x \in Byte :
          /\ c = AllBytes(future) /\ b = Bytes(w) /\ b = <<x>> \o r /\ x = b[1]
          /\ r = Suf(b, 1) /\ Len(b) \in Nat
    <3>1. PICK b \in Seq(Byte) : b = Bytes(w) /\ b # <<>>
      BY WriteBegins
    <3>2. 0 \in 0 .. Len(b) /\ 0 # Len(b) /\ 0 + 1 = 1 /\ 1 \in 0 .. Len(b) /\ Len(b) \in Nat
      BY <3>1
    <3>3. b[0 + 1] \in Byte /\ Suf(b, 0) = <<b[0 + 1]>> \o Suf(b, 0 + 1)
      BY <3>2, SufStep
    <3>4. Suf(b, 0) = b
      BY SufEnds
    <3>5. Suf(b, 1) \in Seq(Byte) /\ AllBytes(future) \in Seq(Byte)
      BY <3>2, SufIs, AllBytesCat
    <3> QED BY <3>1, <3>2, <3>3, <3>4, <3>5, Zenon
  <2>2. ch = x /\ s = r \o c
    <3>1. Then(ch, s) = Then(x, r) \o c
      BY <1>1, <1>4, <2>1, Zenon DEF Then
    <3>0. r \o c \in Seq(Byte) /\ Then(x, r) \o c = Then(x, r \o c)
      BY ThenCat
    <3>2. PICK t \in Seq(Byte) : t = r \o c /\ Then(x, r) \o c = Then(x, t)
      BY <3>0, Zenon
    <3>3. Then(ch, s) = Then(x, t)
      BY <3>1, <3>2, Zenon
    <3>4. ch = x /\ s = t
      BY <3>3, FirstThen
    <3> QED BY <3>2, <3>4, Zenon
  <2>3. ch = Bytes(w)[1]
    BY <2>1, <2>2, Zenon
  <2>4. /\ panicked' = panicked /\ 2 <= Len(Bytes(w)) - 1
        /\ \/ ~Intact' /\ MissedAt(past \o <<w>>, w, 1)'
           \/ OpenLen' = 1 /\ GenuineAt(past, w)'
    BY <1>0, <1>1, <1>4, <2>3, FrameStart
  <2>5. past \o <<w>> \in Seq(Writes)
    BY <1>4
  <2>6. Position(past \o <<w>>, r)'
    <3>1. CASE MissedAt(past \o <<w>>, w, 1)'
      <4>1. 1 \in 1 .. Len(Bytes(w)) - 1
        <5>1. Len(Bytes(w)) \in Nat
          BY WriteBegins
        <5> QED BY <2>4, <5>1
      <4>2. r = Suf(Bytes(w), 1)
        BY <2>1, Zenon
      <4>3. Missed(past \o <<w>>, r)'
        BY <3>1, <4>1, <4>2 DEF Missed
      <4> QED BY <4>3 DEF Position
    <3>2. CASE OpenLen' = 1 /\ GenuineAt(past, w)'
      <4>1. r = Suf(Bytes(w), OpenLen')
        BY <2>1, <3>2, Zenon
      <4>2. Genuine(past \o <<w>>, r)'
        BY <3>2, <4>1 DEF Genuine
      <4> QED BY <4>2 DEF Position
    <3> QED BY <2>4, <3>1, <3>2
  <2>7. sent' = (past \o <<w>>) \o future /\ Stream' = r \o AllBytes(future)
    BY <1>0, <1>1, <1>4, <2>1, <2>2, Zenon
  <2> QED BY <2>4, <2>5, <2>6, <2>7, FlowIntro
<1> QED BY <1>2, <1>3, <1>4, FlowAhead

-----------------------------------------------------------------------------
(* The other steps.                                                        *)

\* What a position depends on.
LEMMA PositionSame ==
    ASSUME NEW past, NEW rest, Position(past, rest), state' = state, raw' = raw,
           raw_head' = raw_head, data_end' = data_end, data_len' = data_len,
           checksum_bytes' = checksum_bytes, Out' = Out,
           Text(delivered)' = Text(delivered), Intact' <=> Intact
    PROVE  Position(past, rest)'
<1>1. \A a, h : Accounted(a, h) => Tally(Out', Text(delivered)', Intact', a, h)
  BY DEF Accounted, Tally
<1>2. OpenLen' = OpenLen /\ Settled' = Settled
  BY DEF OpenLen, Settled
<1>3. \A w, p : Tracks(w, p) => Tracks(w, p)'
  BY <1>2 DEF Tracks
<1>4. CASE Background(past, rest)
  <2>1. Background(past, rest)'
    BY <1>1, <1>4 DEF Background, Accounted, Calm, CalmByte
  <2> QED BY <2>1 DEF Position
<1>5. CASE After(past, rest)
  <2>1. After(past, rest)'
    BY <1>1, <1>5 DEF After, Accounted
  <2> QED BY <2>1 DEF Position
<1>6. CASE Missed(past, rest)
  <2>1. PICK w \in Writes : \E p \in 1 .. Len(Bytes(w)) - 1 :
          rest = Suf(Bytes(w), p) /\ MissedAt(past, w, p)
    BY <1>6, Zenon DEF Missed
  <2>2. PICK p \in 1 .. Len(Bytes(w)) - 1 : rest = Suf(Bytes(w), p) /\ MissedAt(past, w, p)
    BY <2>1, Zenon
  <2>3. MissedAt(past, w, p)'
    BY <1>2, <1>3, <2>2 DEF MissedAt
  <2>4. Missed(past, rest)'
    BY <2>2, <2>3 DEF Missed
  <2> QED BY <2>4 DEF Position
<1>7. CASE Genuine(past, rest)
  <2>1. PICK before \in Seq(Writes), w \in Writes :
          /\ past = before \o <<w>> /\ rest = Suf(Bytes(w), OpenLen)
          /\ GenuineAt(before, w)
    BY <1>7, Zenon DEF Genuine
  <2>2. rest = Suf(Bytes(w), OpenLen')
    BY <1>2, <2>1, Zenon
  <2>3. IsFrame(w) /\ Tracks(w, OpenLen) /\ GenuineState(w) /\ Accounted(before, Settled)
    BY <2>1, Zenon DEF GenuineAt
  <2>4. Tally(Out', Text(delivered)', Intact', before, Settled')
    BY <1>1, <1>2, <2>3
  <2>5. GenuineState(w)'
    BY <1>2, <2>3 DEF GenuineState
  <2>6. Tracks(w, OpenLen)'
    BY <1>2, <2>3 DEF Tracks
  <2>7. GenuineAt(before, w)'
    BY <2>3, <2>4, <2>5, <2>6 DEF GenuineAt, Accounted
  <2>8. Genuine(past, rest)'
    BY <2>1, <2>2, <2>7 DEF Genuine
  <2> QED BY <2>8 DEF Position
<1> QED BY <1>4, <1>5, <1>6, <1>7 DEF Position

\* Steps that leave the decoder and what it hands over alone.
LEMMA PositionIdle ==
    ASSUME NEW past, NEW rest, Position(past, rest), stalls' = stalls, delivered' = delivered,
           UNCHANGED <<state, raw, raw_head, attemptVars, frames, drop_count>>
    PROVE  Position(past, rest)'
<1>1. Out' = Out /\ Text(delivered)' = Text(delivered) /\ (Intact' <=> Intact)
  BY DEF Out, FramesOut, Intact
<1> QED BY <1>1, PositionSame DEF attemptVars

\* A tick settles an attempt only on a line that stalls.
LEMMA PositionTick ==
    ASSUME BaseInv, NEW past \in Seq(Writes), NEW rest, Position(past, rest), tick,
           stalls' = stalls, delivered' = delivered
    PROVE  Position(past, rest)' /\ panicked' = panicked
<1>0. UNCHANGED <<attemptVars, frames, drop_count, panicked>>
  BY DEF tick
<1>1. CASE ~TickExpires
  <2>1. UNCHANGED <<state, raw, raw_head>>
    BY <1>1 DEF tick
  <2> QED BY <1>0, <2>1, PositionIdle
<1>2. CASE TickExpires
  <2>0. raw \in Seq(Byte) /\ Len(raw) \in Nat /\ raw_head \in Nat
    BY OutTypes
  <2>1. /\ OpenLen > 0 /\ OpenLen \in Nat /\ raw' = raw /\ raw_head' = Len(raw) /\ state' = "Idle"
    <3>1. OpenLen = open_len_at_last_tick /\ OpenLen > 0
      BY <1>2 DEF TickExpires
    <3>2. resolve_raw(raw)
      BY <1>2, <3>1 DEF tick
    <3> QED BY <2>0, <3>1, <3>2 DEF resolve_raw, OpenLen
  <2>2. ~Intact
    <3>1. since_progress >= TIMEOUT /\ (~stalls => since_progress = 0) /\ TIMEOUT \in Nat
      BY <1>2, SizeAssumption DEF TickExpires, BaseInv, PollOK
    <3> QED BY <3>1 DEF Intact
  <2>3. Out' = Out /\ ~Intact'
    BY <1>0, <2>2 DEF Out, FramesOut, Intact
  <2>4. OpenLen' = 0
    BY <2>0, <2>1 DEF OpenLen
  <2>5. CASE Background(past, rest)
    <3>1. Tally(Out', Text(delivered)', Intact', past, raw' \o rest)
      BY <2>3, <2>5 DEF Background, Accounted, Tally
    <3>2. Background(past, rest)'
      BY <2>1, <2>5, <3>1 DEF Background, Accounted, Calm, CalmByte
    <3> QED BY <1>0, <3>2 DEF Position
  <2>6. CASE After(past, rest)
    <3>1. ~InAttempt
      BY <2>6 DEF After, InAttempt
    <3>2. raw_head = Len(raw)
      BY <3>1 DEF BaseInv, DecoderHolds, TypeInv, DecoderInv, AttemptInv
    <3> QED BY <2>0, <2>1, <3>2 DEF OpenLen
  <2>7. ASSUME NEW w \in Writes, NEW p \in 1 .. Len(Bytes(w)) - 1, IsFrame(w),
               rest = Suf(Bytes(w), p), Picks(Out, Frames(past))
        PROVE  Position(past, rest)' /\ panicked' = panicked
    <3>1. Tracks(w, p)'
      BY <2>4 DEF Tracks
    <3>2. OpenLen' < p
      BY <2>4
    <3>3. MissedAt(past, w, p)'
      BY <2>1, <2>3, <2>7, <3>1, <3>2 DEF MissedAt
    <3>4. Missed(past, rest)'
      BY <2>7, <3>3 DEF Missed
    <3> QED BY <1>0, <3>4 DEF Position
  <2>8. CASE Missed(past, rest)
    <3>1. PICK w \in Writes : \E p \in 1 .. Len(Bytes(w)) - 1 :
            rest = Suf(Bytes(w), p) /\ MissedAt(past, w, p)
      BY <2>8, Zenon DEF Missed
    <3>2. PICK p \in 1 .. Len(Bytes(w)) - 1 : rest = Suf(Bytes(w), p) /\ MissedAt(past, w, p)
      BY <3>1, Zenon
    <3>3. IsFrame(w) /\ Picks(Out, Frames(past))
      BY <3>2, Zenon DEF MissedAt
    <3> QED BY <2>7, <3>2, <3>3
  <2>9. CASE Genuine(past, rest)
    <3>1. PICK before \in Seq(Writes), w \in Writes :
            /\ past = before \o <<w>> /\ rest = Suf(Bytes(w), OpenLen)
            /\ GenuineAt(before, w)
      BY <2>9, Zenon DEF Genuine
    <3>2. IsFrame(w) /\ GenuineState(w) /\ Picks(Out, Frames(before))
      BY <3>1, Zenon DEF GenuineAt, Accounted, Tally
    <3>3. Picks(Out, Frames(past))
      BY <3>1, <3>2, PicksLater
    <3>4. PICK p \in 1 .. Len(Bytes(w)) - 1 : p = OpenLen
      <4>1. OpenLen \in Nat /\ OpenLen >= 1 /\ OpenLen + 3 <= Len(Bytes(w)) /\ Len(Bytes(w)) \in Nat
        BY <3>2, GenuineRoom, WriteBegins
      <4>2. OpenLen \in 1 .. Len(Bytes(w)) - 1
        BY <4>1
      <4> QED BY <4>2
    <3>5. rest = Suf(Bytes(w), p)
      BY <3>1, <3>4, Zenon
    <3> QED BY <2>7, <3>2, <3>3, <3>5
  <2> QED BY <2>5, <2>6, <2>8, <2>9 DEF Position
<1> QED BY <1>1, <1>2

\* There is an EOF.
LEMMA EofsNumber ==
    ASSUME NEW w \in Writes, IsFrame(w) PROVE Eofs1(w) \in Nat /\ Eofs1(w) >= 1
BY FrameLen

\* A cut that is not forbidden is not in the trailer.
LEMMA TrailerCut ==
    ASSUME NEW m \in Nat, NEW o \in Nat, NEW d \in Nat, NEW n \in Nat, NEW l \in Nat,
           m = d + n + l + 2, ~(3 <= m - o /\ m - o <= n + l + 1), n >= 1, l >= 1
    PROVE  ~(o = d + 1) /\ \A k \in Nat : k < l => ~(o = d + n + k)
OBVIOUS

\* Nothing is fetched while a frame that is being decoded waits for its trailer: no read
\* ends there.
LEMMA NoFetchInTrailer ==
    ASSUME BaseInv, CutsOK, buf = <<>>, NEW before \in Seq(Writes), NEW w \in Writes,
           NEW future \in Seq(Writes), IsFrame(w), GenuineState(w),
           sent = (before \o <<w>>) \o future,
           Stream = Suf(Bytes(w), OpenLen) \o AllBytes(future)
    PROVE  ~InTrailer
<1>1. PICK b \in Seq(Byte), c \in Seq(Byte) : b = Bytes(w) /\ c = AllBytes(future)
  BY WriteBegins, AllBytesCat
<1>2. PICK o \in Nat : o = OpenLen /\ o + 3 <= Len(b) /\ Len(b) \in Nat /\ o \in 0 .. Len(b)
  <2>1. OpenLen \in Nat /\ OpenLen + 3 <= Len(b) /\ Len(b) \in Nat
    BY <1>1, GenuineRoom
  <2>2. OpenLen \in 0 .. Len(b)
    BY <2>1
  <2> QED BY <2>1, <2>2
<1>3. PICK r \in Seq(Byte) : r = Suf(b, o) /\ Len(r) = Len(b) - o
  BY <1>2, SufIs, Zenon
<1>4. Unread(0) = Len(r) + Len(c)
  <2>1. wire \in Seq(Piece) /\ FlattenSeq(wire) \in Seq(Byte)
    BY StreamType DEF BaseInv, ClientTypes
  <2>2. Suf(wire, 0) = wire
    BY <2>1, SufEnds
  <2>3. Stream = FlattenSeq(wire)
    BY <2>1 DEF Stream
  <2>4. Stream = r \o c
    BY <1>1, <1>2, <1>3, Zenon
  <2>5. Len(r \o c) = Len(r) + Len(c)
    BY CatElements
  <2> QED BY <2>2, <2>3, <2>4, <2>5, Zenon DEF Unread
<1>5. PICK past \in Seq(Writes) : /\ past = before \o <<w>> /\ Len(past) = Len(before) + 1
                                  /\ past[Len(past)] = w /\ Len(past) \in Nat
  <2>1. /\ before \o <<w>> \in Seq(Writes) /\ Len(before \o <<w>>) = Len(before) + 1
        /\ (before \o <<w>>)[Len(before) + 1] = w /\ Len(before) + 1 \in Nat
    OBVIOUS
  <2> QED BY <2>1, Zenon
<1>6. /\ sent = past \o future /\ Len(past) \in 1 .. Len(sent) /\ sent[Len(past)] = w
      /\ 0 \in 0 .. Len(wire)
  <2>1. sent = past \o future
    BY <1>5, Zenon
  <2>2. Len(past) >= 1
    BY <1>5
  <2>3. Len(past \o future) = Len(past) + Len(future) /\ Len(future) \in Nat
    BY CatElements
  <2>4. Len(sent) = Len(past) + Len(future)
    BY <2>1, <2>3
  <2>5. Len(past) \in 1 .. Len(past) /\ Len(past) \in 1 .. Len(sent)
    BY <1>5, <2>2, <2>3, <2>4
  <2>6. (past \o future)[Len(past)] = past[Len(past)]
    BY <2>5, CatElements
  <2>7. 0 \in 0 .. Len(wire)
    BY DEF BaseInv, ClientTypes
  <2> QED BY <1>5, <2>1, <2>5, <2>6, <2>7, Zenon
<1>7. Later(Len(past)) = Len(c)
  <2>1. Len(past) \in 0 .. Len(past) + Len(future) /\ Len(past) >= Len(past) /\ Len(past) - Len(past) = 0
    BY <1>5
  <2>2. Suf(past \o future, Len(past)) = Suf(future, Len(past) - Len(past))
    BY <2>1, SufCat
  <2>3. Suf(future, 0) = future
    BY SufEnds
  <2> QED BY <1>1, <1>6, <2>1, <2>2, <2>3, Zenon DEF Later
<1>8. ~OpenCut(w, Unread(0) - Later(Len(past)))
  BY <1>6, Zenon DEF CutsOK
<1>9. Unread(0) - Later(Len(past)) = Len(b) - o
  <2>1. Len(c) \in Nat /\ Len(b) - o \in Int
    BY <1>2
  <2>3. Unread(0) = (Len(b) - o) + Len(c)
    BY <1>3, <1>4, Zenon
  <2>2. \A x \in Int, y \in Nat : (x + y) - y = x
    OBVIOUS
  <2>4. Unread(0) - Len(c) = Len(b) - o
    BY <2>1, <2>2, <2>3, Zenon
  <2> QED BY <1>7, <2>4, Zenon
<1>10. ~(3 <= Len(b) - o /\ Len(b) - o <= Eofs1(w) + CHECKSUM_LEN + 1)
  BY <1>8, <1>9, Zenon DEF OpenCut
<1>11. PICK d \in Nat, n \in Nat, l \in Nat :
         /\ d = DataEndsAt(w) /\ n = Eofs1(w) /\ l = CHECKSUM_LEN /\ n >= 1 /\ l >= 1
         /\ Len(b) = d + n + l + 2
  BY <1>1, EofsNumber, FrameLen, Zenon
<1>12. ~(3 <= Len(b) - o /\ Len(b) - o <= n + l + 1)
  BY <1>10, <1>11, Zenon
<1>13. ~(o = d + 1) /\ \A k \in Nat : k < l => ~(o = d + n + k)
  <2>1. PICK m \in Nat : m = Len(b)
    BY <1>2
  <2>2. m = d + n + l + 2 /\ ~(3 <= m - o /\ m - o <= n + l + 1) /\ n >= 1 /\ l >= 1
    BY <1>11, <1>12, <2>1, Zenon
  <2> QED BY <2>2, TrailerCut, Zenon
<1>14. state # "Eof"
  BY <1>2, <1>11, <1>13 DEF GenuineState
<1>15. state # "Checksum"
  <2>1. state = "Checksum" => /\ Len(checksum_bytes) \in Nat /\ Len(checksum_bytes) < l
                              /\ o = d + n + Len(checksum_bytes)
    BY <1>2, <1>11, GenuineIndices, Zenon
  <2> QED BY <1>13, <2>1
<1> QED BY <1>14, <1>15 DEF InTrailer

\* The open attempt is the same after its settled bytes are fetched.
LEMMA AttemptFetched ==
    ASSUME BaseInv, raw' = Suf(raw, raw_head), raw_head' = 0
    PROVE  /\ OpenLen' = OpenLen /\ OpenLen \in Nat /\ Settled' = <<>>
           /\ \A w, p : Tracks(w, p) => Tracks(w, p)'
<1>0. raw \in Seq(Byte) /\ Len(raw) \in Nat /\ raw_head \in Nat /\ raw_head <= Len(raw)
  BY OutTypes
<1>1. raw_head \in 0 .. Len(raw)
  BY <1>0
<1>2. /\ raw' \in Seq(Byte) /\ Len(raw') = Len(raw) - raw_head
      /\ \A i \in 1 .. Len(raw) - raw_head : raw'[i] = raw[raw_head + i]
  BY <1>0, <1>1, SufIs
<1>3. OpenLen' = OpenLen /\ OpenLen \in Nat /\ OpenLen = Len(raw) - raw_head
  BY <1>0, <1>2 DEF OpenLen
<1>4. Settled' = <<>>
  BY <1>2 DEF Settled
<1>5. \A i \in 1 .. OpenLen : 0 + i = i
  BY <1>3
<1>6. ASSUME NEW w, NEW p, Tracks(w, p) PROVE Tracks(w, p)'
  <2>1. \A i \in 1 .. OpenLen : raw[raw_head + i] = Bytes(w)[p - OpenLen + i]
    BY <1>6 DEF Tracks
  <2>2. \A i \in 1 .. OpenLen : raw'[raw_head' + i] = Bytes(w)[p - OpenLen' + i]
    BY <1>2, <1>3, <1>5, <2>1
  <2>3. \A i \in 1 .. OpenLen' : raw'[raw_head' + i] = Bytes(w)[p - OpenLen' + i]
    BY <1>3, <2>2
  <2> QED BY <2>3 DEF Tracks
<1> QED BY <1>3, <1>4, <1>6

\* Settled bytes are fetched.
Fetched ==
    /\ Text(delivered)' = Text(delivered) \o Settled
    /\ raw' = Suf(raw, raw_head) /\ raw_head' = 0 /\ raw = Settled \o raw'
    /\ Settled \in Seq(Byte) /\ raw' \in Seq(Byte)

\* It does not matter when bytes move from one part to the next.
Moves(t, a, c, r) ==
    /\ t \o ((a \o c) \o r) = (t \o a) \o (c \o r)
    /\ t \o (a \o c) = (t \o a) \o c
    /\ t \o a = (t \o a) \o <<>>

\* Joining is associative.
LEMMA MoveBytes ==
    ASSUME NEW t \in Seq(Byte), NEW a \in Seq(Byte), NEW c \in Seq(Byte), NEW r \in Seq(Byte)
    PROVE  Moves(t, a, c, r)
<1>1. c \o r \in Seq(Byte)
  OBVIOUS
<1>2. PICK e \in Seq(Byte) : e = c \o r
  BY <1>1, Zenon
<1>3. Joins(a, c, r) /\ Joins(t, a, e) /\ Joins(t, a, c)
  BY CatJoins
<1>4. t \o a = (t \o a) \o <<>>
  OBVIOUS
<1> QED BY <1>2, <1>3, <1>4, Zenon DEF Moves, Joins

\* The decoder stays where it is when its settled bytes are fetched.
LEMMA PositionFetched ==
    ASSUME BaseInv, NEW past, NEW rest \in Seq(Byte), Position(past, rest), Out' = Out,
           state' = state, Intact' <=> Intact, attemptVars' = attemptVars,
           Fetched, InTrailer => ~Genuine(past, rest)
    PROVE  Position(past, rest)'
<1>0. Text(delivered) \in Seq(Byte) /\ raw \in Seq(Byte)
  BY OutTypes
<1>1. PICK t \in Seq(Byte), a \in Seq(Byte), c \in Seq(Byte) :
        t = Text(delivered) /\ a = Settled /\ c = raw' /\ raw = a \o c
        /\ Text(delivered)' = t \o a
  BY <1>0, Zenon DEF Fetched
<1>2. \A p, h, h2 : Accounted(p, h) /\ (t \o h = (t \o a) \o h2)
                      => Tally(Out', Text(delivered)', Intact', p, h2)
  BY <1>1 DEF Accounted, Tally
<1>3. /\ OpenLen' = OpenLen /\ OpenLen \in Nat /\ Settled' = <<>>
      /\ \A w, p : Tracks(w, p) => Tracks(w, p)'
  BY AttemptFetched DEF Fetched
<1>4. Moves(t, a, c, rest)
  BY MoveBytes
<1>5. CASE Background(past, rest)
  <2>1. t \o (raw \o rest) = (t \o a) \o (raw' \o rest)
    BY <1>1, <1>4, Zenon DEF Moves
  <2>2. Tally(Out', Text(delivered)', Intact', past, raw' \o rest)
    BY <1>2, <1>5, <2>1, Zenon DEF Background
  <2>3. Background(past, rest)'
    BY <1>5, <2>2 DEF Background, Accounted, Calm, CalmByte
  <2> QED BY <2>3 DEF Position
<1>6. CASE After(past, rest)
  <2>1. t \o raw = (t \o a) \o raw'
    BY <1>1, <1>4, Zenon DEF Moves
  <2>2. Tally(Out', Text(delivered)', Intact', past, raw')
    BY <1>2, <1>6, <2>1, Zenon DEF After
  <2>3. After(past, rest)'
    BY <1>6, <2>2 DEF After, Accounted
  <2> QED BY <2>3 DEF Position
<1>7. CASE Missed(past, rest)
  <2>1. PICK w \in Writes : \E p \in 1 .. Len(Bytes(w)) - 1 :
          rest = Suf(Bytes(w), p) /\ MissedAt(past, w, p)
    BY <1>7, Zenon DEF Missed
  <2>2. PICK p \in 1 .. Len(Bytes(w)) - 1 : rest = Suf(Bytes(w), p) /\ MissedAt(past, w, p)
    BY <2>1, Zenon
  <2>3. MissedAt(past, w, p)'
    BY <1>3, <2>2 DEF MissedAt
  <2>4. Missed(past, rest)'
    BY <2>2, <2>3 DEF Missed
  <2> QED BY <2>4 DEF Position
<1>8. CASE Genuine(past, rest)
  <2>1. PICK before \in Seq(Writes), w \in Writes :
          /\ past = before \o <<w>> /\ rest = Suf(Bytes(w), OpenLen)
          /\ GenuineAt(before, w)
    BY <1>8, Zenon DEF Genuine
  <2>2. rest = Suf(Bytes(w), OpenLen')
    BY <1>3, <2>1, Zenon
  <2>3. IsFrame(w) /\ Tracks(w, OpenLen) /\ GenuineState(w) /\ Accounted(before, Settled)
    BY <2>1, Zenon DEF GenuineAt
  <2>4. Tally(Out', Text(delivered)', Intact', before, Settled')
    <3>1. t \o Settled = (t \o a) \o Settled'
      BY <1>1, <1>3, <1>4, Zenon DEF Moves
    <3> QED BY <1>2, <2>3, <3>1, Zenon
  <2>5. GenuineState(w)'
    <3>1. ~InTrailer
      BY <1>8
    <3>2. \/ state = "Sof"
          \/ state \in {"Data", "DataEsc"} /\ OpenLen <= DataEndsAt(w)
      BY <2>3, <3>1 DEF GenuineState, InTrailer
    <3> QED BY <1>3, <3>2 DEF GenuineState
  <2>6. Tracks(w, OpenLen)'
    <3>1. PICK o \in Nat : o = OpenLen /\ o = OpenLen'
      BY <1>3
    <3>2. Tracks(w, o)
      BY <2>3, <3>1, Zenon
    <3>3. Tracks(w, o)'
      BY <1>3, <3>2
    <3> QED BY <3>1, <3>3 DEF Tracks
  <2>7. GenuineAt(before, w)'
    BY <2>3, <2>4, <2>5, <2>6 DEF GenuineAt, Accounted
  <2>8. Genuine(past, rest)'
    BY <2>1, <2>2, <2>7 DEF Genuine
  <2> QED BY <2>8 DEF Position
<1> QED BY <1>5, <1>6, <1>7, <1>8 DEF Position

-----------------------------------------------------------------------------
(* The steps of the client and of the device.                              *)

\* The kinds of a byte change drop_count only when the byte is dropped.
LEMMA InjectDrops ==
    ASSUME BaseInv, NEW ch \in Byte, inject(ch)
    PROVE  Dropped \/ drop_count' = drop_count
<1>1. DecoderInv
  BY DEF BaseInv, DecoderHolds, TypeInv
<1>2. \/ Dropped \/ Swallowed(ch) \/ Opened(ch) \/ Grown(ch) \/ Refused(ch) \/ Ended(ch)
  BY <1>1, InjectKinds
<1> QED BY <1>2 DEF Swallowed, Opened, Grown, Refused, Ended, Kept

\* A line never begins to be intact.
LEMMA IntactStep ==
    ASSUME BaseInv, [ClientNext]_vars
    PROVE  stalls' = stalls /\ (Intact' => Intact)
<1>1. stalls' = stalls
  BY DEF ClientNext, DeviceWrites, Clock, poll, PollRead, PollInject, PollTick, PollGet,
         PollReturn, vars, clientVars
<1>2. drop_count' = drop_count \/ Dropped
  <2>1. CASE PollInject
    <3>1. PICK ch \in Byte, s \in Seq(Byte) :
            inject(ch) /\ Stream = <<ch>> \o s /\ Stream' = s
      BY <2>1, StreamInject, Zenon DEF BaseInv
    <3>2. inject(ch)
      BY <3>1
    <3> QED BY <3>2, InjectDrops
  <2>2. CASE PollTick
    BY <2>2 DEF PollTick, tick
  <2>3. CASE PollGet
    BY <2>3 DEF PollGet, get
  <2>4. CASE Clock
    BY <2>4 DEF Clock, ClockAdvances
  <2>5. CASE (\E w \in Traffic[stalls] : DeviceWrites(w)) \/ PollReturn
             \/ (\E m \in 0 .. Len(wire) : PollRead(m)) \/ UNCHANGED vars
    BY <2>5 DEF DeviceWrites, PollReturn, PollRead, vars, decoderVars
  <2> QED BY <2>1, <2>2, <2>3, <2>4, <2>5 DEF ClientNext, poll
<1> QED BY <1>1, <1>2, IntactBefore

\* Nothing about the decoder or the line changes.
LEMMA FlowIdle ==
    ASSUME BaseInv, Flow, stalls' = stalls, delivered' = delivered, sent' = sent,
           Stream' = Stream,
           UNCHANGED <<state, raw, raw_head, attemptVars, frames, drop_count>>
    PROVE  Flow'
<1>1. PICK past \in Seq(Writes), future \in Seq(Writes), rest \in Seq(Byte) :
        FlowAt(past, future, rest)
  BY Zenon DEF Flow, FlowAt
<1>2. Position(past, rest)
  BY <1>1 DEF FlowAt
<1>3. Position(past, rest)'
  BY <1>2, PositionIdle
<1>4. sent' = past \o future /\ Stream' = rest \o AllBytes(future)
  BY <1>1, Zenon DEF FlowAt
<1> QED BY <1>3, <1>4, FlowIntro

\* The device writes.
LEMMA FlowWrite ==
    ASSUME BaseInv, Flow, NEW w \in Traffic[stalls], DeviceWrites(w)
    PROVE  Flow' /\ panicked' = panicked
<1>0. ClientTypes
  BY DEF BaseInv
<1>1. PICK past \in Seq(Writes), future \in Seq(Writes), rest \in Seq(Byte) :
        FlowAt(past, future, rest)
  BY Zenon DEF Flow, FlowAt
<1>2. w \in Writes /\ <<w>> \in Seq(Writes) /\ AllBytes(<<w>>) = Bytes(w)
      /\ Bytes(w) \in Seq(Byte)
  BY <1>0, WriteTypes, AllBytesCat
<1>3. PICK f \in Seq(Writes) : f = future \o <<w>>
  <2>1. future \o <<w>> \in Seq(Writes)
    BY <1>2
  <2> QED BY <2>1, Zenon
<1>4. sent' = past \o f
  <2>1. sent \in Seq(Writes) /\ sent' = Append(sent, w)
    BY <1>0 DEF ClientTypes, DeviceWrites
  <2>2. sent' = sent \o <<w>>
    BY <1>2, <2>1
  <2>3. Joins(past, future, <<w>>)
    BY <1>2, CatJoins
  <2>4. sent = past \o future
    BY <1>1, Zenon DEF FlowAt
  <2> QED BY <1>3, <2>2, <2>3, <2>4, Zenon DEF Joins
<1>5. Stream' = rest \o AllBytes(f)
  <2>1. Stream' = Stream \o Bytes(w)
    BY <1>0, StreamWrite
  <2>2. Stream = rest \o AllBytes(future)
    BY <1>1, Zenon DEF FlowAt
  <2>3. PICK c \in Seq(Byte), d \in Seq(Byte) : c = AllBytes(future) /\ d = Bytes(w)
    BY <1>2, AllBytesCat
  <2>4. Joins(rest, c, d)
    BY CatJoins
  <2>5. AllBytes(future \o <<w>>) = AllBytes(future) \o AllBytes(<<w>>)
    BY <1>2, AllBytesCat
  <2> QED BY <1>2, <1>3, <2>1, <2>2, <2>3, <2>4, <2>5, Zenon DEF Joins
<1>6. Position(past, rest)
  BY <1>1 DEF FlowAt
<1>7. Position(past, rest)' /\ panicked' = panicked
  BY <1>6, PositionIdle DEF DeviceWrites, decoderVars
<1> QED BY <1>4, <1>5, <1>7, FlowIntro

\* poll ticks the decoder.
LEMMA FlowTick ==
    ASSUME BaseInv, Flow, PollTick
    PROVE  Flow' /\ panicked' = panicked
<1>1. PICK past \in Seq(Writes), future \in Seq(Writes), rest \in Seq(Byte) :
        FlowAt(past, future, rest)
  BY Zenon DEF Flow, FlowAt
<1>2. Position(past, rest)
  BY <1>1 DEF FlowAt
<1>3. tick /\ stalls' = stalls /\ delivered' = delivered
  BY DEF PollTick
<1>4. Position(past, rest)' /\ panicked' = panicked
  BY <1>2, <1>3, PositionTick
<1>5. Stream' = Stream /\ sent' = sent
  BY DEF PollTick, Stream
<1>6. sent' = past \o future /\ Stream' = rest \o AllBytes(future)
  BY <1>1, <1>5, Zenon DEF FlowAt
<1> QED BY <1>4, <1>6, FlowIntro

\* A frame that is being decoded is not in its trailer when poll fetches.
LEMMA GetOutsideTrailer ==
    ASSUME BaseInv, CutsOK, buf = <<>>, NEW past \in Seq(Writes), NEW future \in Seq(Writes),
           NEW rest \in Seq(Byte), FlowAt(past, future, rest)
    PROVE  InTrailer => ~Genuine(past, rest)
<1> SUFFICES ASSUME Genuine(past, rest) PROVE ~InTrailer
  OBVIOUS
<1>1. PICK before \in Seq(Writes), w \in Writes :
        /\ past = before \o <<w>> /\ rest = Suf(Bytes(w), OpenLen)
        /\ GenuineAt(before, w)
  BY Zenon DEF Genuine
<1>2. IsFrame(w) /\ GenuineState(w)
  BY <1>1 DEF GenuineAt
<1>3. sent = (before \o <<w>>) \o future
  BY <1>1, Zenon DEF FlowAt
<1>4. Stream = Suf(Bytes(w), OpenLen) \o AllBytes(future)
  BY <1>1, Zenon DEF FlowAt
<1> QED BY <1>2, <1>3, <1>4, NoFetchInTrailer

\* poll hands over what is ready.
LEMMA FlowGet ==
    ASSUME BaseInv, CutsOK, Flow, PollGet
    PROVE  Flow' /\ panicked' = panicked
<1>1. PICK past \in Seq(Writes), future \in Seq(Writes), rest \in Seq(Byte) :
        FlowAt(past, future, rest)
  BY Zenon DEF Flow, FlowAt
<1>2. Position(past, rest)
  BY <1>1 DEF FlowAt
<1>3. /\ get /\ stalls' = stalls /\ delivered' = Append(delivered, GetResult)
      /\ buf = <<>> /\ attemptVars' = attemptVars
  BY DEF PollGet, BaseInv, PollOK, get
<1>4. /\ Out' = Out /\ state' = state /\ panicked' = panicked /\ (Intact' <=> Intact)
      /\ \/ Text(delivered)' = Text(delivered) /\ raw' = raw /\ raw_head' = raw_head
         \/ Fetched
  BY <1>3, GetMoves DEF Fetched
<1>5. Stream' = Stream /\ sent' = sent
  BY DEF PollGet, Stream
<1>6. sent' = past \o future /\ Stream' = rest \o AllBytes(future)
  BY <1>1, <1>5, Zenon DEF FlowAt
<1>7. CASE Text(delivered)' = Text(delivered) /\ raw' = raw /\ raw_head' = raw_head
  <2>1. Position(past, rest)'
    BY <1>2, <1>3, <1>4, <1>7, PositionSame DEF attemptVars
  <2> QED BY <1>4, <1>6, <2>1, FlowIntro
<1>8. CASE Fetched
  <2>1. InTrailer => ~Genuine(past, rest)
    BY <1>1, <1>3, GetOutsideTrailer
  <2>2. Position(past, rest)'
    BY <1>2, <1>3, <1>4, <1>8, <2>1, PositionFetched
  <2> QED BY <1>4, <1>6, <2>2, FlowIntro
<1> QED BY <1>4, <1>7, <1>8

\* Every step keeps the decoder where it is in the writes.
LEMMA FlowStep ==
    ASSUME ~SplitTrailer, PlainText \/ TextWithoutSof, BaseInv, BaseInv', CutsOK, Flow,
           Watched', [ClientNext]_vars
    PROVE  Flow' /\ panicked' = panicked
<1>1. Intact' => Intact
  BY IntactStep
<1>2. CASE PollInject
  BY <1>1, <1>2, FlowInject
<1>3. CASE PollTick
  BY <1>3, FlowTick
<1>4. CASE PollGet
  BY <1>4, FlowGet
<1>5. ASSUME NEW w \in Traffic[stalls], DeviceWrites(w) PROVE Flow' /\ panicked' = panicked
  BY <1>5, FlowWrite
<1>6. CASE Clock \/ PollReturn \/ UNCHANGED vars
  <2>1. /\ stalls' = stalls /\ delivered' = delivered /\ sent' = sent /\ buf' = buf
        /\ wire' = wire /\ panicked' = panicked
        /\ UNCHANGED <<state, raw, raw_head, attemptVars, frames, drop_count>>
    BY <1>6 DEF Clock, ClockAdvances, PollReturn, vars, decoderVars, clientVars
  <2>2. Stream' = Stream
    BY <2>1 DEF Stream
  <2> QED BY <2>1, <2>2, FlowIdle
<1>7. ASSUME NEW m \in 0 .. Len(wire), PollRead(m) PROVE Flow' /\ panicked' = panicked
  <2>1. Stream' = Stream
    BY <1>7, StreamRead DEF BaseInv
  <2>2. /\ stalls' = stalls /\ delivered' = delivered /\ sent' = sent /\ panicked' = panicked
        /\ UNCHANGED <<state, raw, raw_head, attemptVars, frames, drop_count>>
    BY <1>7 DEF PollRead, decoderVars
  <2> QED BY <2>1, <2>2, FlowIdle
<1> QED BY <1>2, <1>3, <1>4, <1>5, <1>6, <1>7 DEF ClientNext, poll

-----------------------------------------------------------------------------
(* The beginning.                                                          *)

\* At first nothing is written.
LEMMA FlowInit ==
    ASSUME ClientInit, BaseInv
    PROVE  ~panicked /\ Flow /\ CutsOK
<1>1. /\ sent = <<>> /\ wire = <<>> /\ buf = <<>> /\ delivered = <<>> /\ frames = <<>>
      /\ raw = <<>> /\ state = "Idle" /\ ~panicked
  BY DEF ClientInit, DecoderInit
<1>2. /\ <<>> \in Seq(Writes) /\ <<>> \in Seq(Byte) /\ <<>> \in Seq(Item)
      /\ <<>> \o <<>> = <<>> /\ <<>> \in Seq(CalmByte)
  OBVIOUS
<1>3. /\ Frames(<<>>) = <<>> /\ Text(<<>>) = <<>> /\ AllBytes(<<>>) = <<>>
  BY FramesCat, TextCat, AllBytesCat
<1>4. FramesOut = <<>> /\ Text(delivered) = <<>>
  BY <1>1, <1>3, Zenon DEF FramesOut
<1>5. Out = <<>>
  BY <1>1, <1>2, <1>4, Zenon DEF Out
<1>6. Picks(<<>>, <<>>)
  BY <1>2, PicksNone
<1>7. Stream = <<>>
  <2>1. AllBytes(<<>>) = FlattenSeq(<<>>)
    <3>1. [i \in DOMAIN <<>> |-> Bytes(<<>>[i])] = <<>>
      OBVIOUS
    <3> QED BY <3>1, Zenon DEF AllBytes
  <2> QED BY <1>1, <1>2, <1>3, <2>1, Zenon DEF Stream
<1>8. Accounted(<<>>, raw \o <<>>)
  BY <1>1, <1>2, <1>3, <1>4, <1>5, <1>6, Zenon DEF Accounted, Tally
<1>9. Position(<<>>, <<>>)
  BY <1>1, <1>2, <1>8 DEF Position, Background, Calm
<1>10. Flow
  BY <1>1, <1>2, <1>3, <1>7, <1>9, Zenon DEF Flow
<1>11. CutsOK
  <2>1. Len(sent) = 0
    BY <1>1
  <2> QED BY <2>1 DEF CutsOK
<1> QED BY <1>1, <1>10, <1>11

-----------------------------------------------------------------------------
(* What the invariant says of the frames and the text handed over.         *)

\* What was joined begins with its first part.
LEMMA PrefixCat ==
    ASSUME NEW S, NEW s \in Seq(S), NEW t \in Seq(S) PROVE IsPrefix(s, s \o t)
<1>1. /\ s \o t \in Seq(S) /\ Len(s \o t) = Len(s) + Len(t) /\ Len(s) \in Nat /\ Len(t) \in Nat
      /\ \A i \in 1 .. Len(s) : (s \o t)[i] = s[i]
  BY CatElements
<1>2. PICK u \in Seq(S) : u = s \o t
  BY <1>1, Zenon
<1>3. SubSeq(s, 1, Len(s)) = SubSeq(u, 1, Len(s))
  <2>1. /\ Len(s) <= Len(u) /\ Len(s) \in Nat /\ Len(u) \in Nat
        /\ \A i \in 1 .. Len(s) : u[i] = s[i]
    BY <1>1, <1>2
  <2> QED BY <2>1
<1> QED BY <1>1, <1>2, <1>3 DEF IsPrefix

\* On an intact line the frames and the text of some first writes are handed over, but
\* for what the decoder holds.
LEMMA Handed ==
    ASSUME BaseInv, Intact, Flow
    PROVE  \E a \in Seq(Writes), f \in Seq(Writes), held \in Seq(Byte) :
             /\ sent = a \o f
             /\ Out = Frames(a) /\ Text(delivered) \o held = Text(a)
<1>0. raw \in Seq(Byte) /\ raw_head \in 0 .. Len(raw)
  BY OutTypes
<1>1. PICK past \in Seq(Writes), future \in Seq(Writes), rest \in Seq(Byte) :
        FlowAt(past, future, rest)
  BY Zenon DEF Flow, FlowAt
<1>2. sent = past \o future /\ Position(past, rest)
  BY <1>1, Zenon DEF FlowAt
<1>3. \A p, h : Accounted(p, h) => Out = Frames(p) /\ Text(delivered) \o h = Text(p)
  BY DEF Accounted, Tally
<1>4. CASE Background(past, rest)
  <2>1. raw \o rest \in Seq(Byte)
    BY <1>0
  <2>2. Accounted(past, raw \o rest)
    BY <1>4 DEF Background
  <2> QED BY <1>2, <1>3, <2>1, <2>2, Zenon
<1>5. CASE After(past, rest)
  <2>1. Accounted(past, raw)
    BY <1>5 DEF After
  <2> QED BY <1>0, <1>2, <1>3, <2>1, Zenon
<1>6. ~Missed(past, rest)
  BY Zenon DEF Missed, MissedAt
<1>7. CASE Genuine(past, rest)
  <2>1. PICK before \in Seq(Writes), w \in Writes :
          past = before \o <<w>> /\ GenuineAt(before, w)
    BY <1>7, Zenon DEF Genuine
  <2>2. Accounted(before, Settled)
    BY <2>1 DEF GenuineAt
  <2>3. Settled \in Seq(Byte)
    BY <1>0 DEF Settled
  <2>4. <<w>> \in Seq(Writes) /\ <<w>> \o future \in Seq(Writes)
    OBVIOUS
  <2>5. Joins(before, <<w>>, future)
    BY <2>4, CatJoins
  <2>6. sent = before \o (<<w>> \o future)
    BY <1>2, <2>1, <2>5, Zenon DEF Joins
  <2> QED BY <1>3, <2>2, <2>3, <2>4, <2>6, Zenon
<1> QED BY <1>2, <1>4, <1>5, <1>6, <1>7 DEF Position

\* The frames and the text that are handed over are the first of those written.
LEMMA HandedFirst ==
    ASSUME BaseInv, Intact, Flow
    PROVE  IsPrefix(FramesOut, FramesSent) /\ IsPrefix(Text(delivered), Text(sent))
<1>1. PICK a \in Seq(Writes), f \in Seq(Writes), held \in Seq(Byte) :
        sent = a \o f /\ Out = Frames(a) /\ Text(delivered) \o held = Text(a)
  BY Handed, Zenon
<1>2. a \in Seq(Item) /\ f \in Seq(Item)
  BY WritesSeq
<1>3. FramesOut \in Seq(Item) /\ frames \in Seq(Item) /\ Text(delivered) \in Seq(Byte)
  BY OutTypes
<1>4. PICK g \in Seq(Item) : g = Frames(f)
  BY <1>2, FramesCat
<1>5. PICK t \in Seq(Byte) : t = Text(f)
  BY <1>2, TextCat
<1>6. FramesSent = (FramesOut \o frames) \o g
  <2>1. Frames(a \o f) = Frames(a) \o Frames(f)
    BY <1>2, FramesCat
  <2> QED BY <1>1, <1>4, <2>1, Zenon DEF FramesSent, Out
<1>7. Joins(FramesOut, frames, g) /\ frames \o g \in Seq(Item)
  <2>1. Joins(FramesOut, frames, g)
    BY <1>3, CatJoins
  <2>2. frames \o g \in Seq(Item)
    BY <1>3
  <2> QED BY <2>1, <2>2
<1>8. Text(sent) = (Text(delivered) \o held) \o t
  <2>1. Text(a \o f) = Text(a) \o Text(f)
    BY <1>2, TextCat
  <2> QED BY <1>1, <1>5, <2>1, Zenon
<1>9. PICK d \in Seq(Byte) : d = Text(delivered)
  BY <1>3
<1>10. Joins(d, held, t) /\ held \o t \in Seq(Byte)
  <2>1. Joins(d, held, t)
    BY CatJoins
  <2>2. held \o t \in Seq(Byte)
    OBVIOUS
  <2> QED BY <2>1, <2>2
<1>11. IsPrefix(FramesOut, FramesOut \o (frames \o g)) /\ IsPrefix(d, d \o (held \o t))
  BY <1>3, <1>7, <1>10, PrefixCat
<1> QED BY <1>6, <1>7, <1>8, <1>9, <1>10, <1>11, Zenon DEF Joins

\* When all is read, all is handed over but the text of an open attempt.
LEMMA HandedAll ==
    ASSUME BaseInv, Intact, Flow, AllRead
    PROVE  FramesOut = FramesSent /\ Text(delivered) \o raw = Text(sent)
<1>1. wire = <<>> /\ buf = <<>> /\ frames = <<>>
  BY DEF AllRead, BaseInv, PollOK
<1>2. Stream = <<>>
  <2>1. [i \in DOMAIN <<>> |-> Bytes(<<>>[i])] = <<>>
    OBVIOUS
  <2>2. AllBytes(<<>>) = FlattenSeq(<<>>)
    BY <2>1, Zenon DEF AllBytes
  <2>3. AllBytes(<<>>) = <<>> /\ <<>> \o <<>> = <<>>
    BY AllBytesCat
  <2> QED BY <1>1, <2>2, <2>3, Zenon DEF Stream
<1>3. PICK past \in Seq(Writes), future \in Seq(Writes), rest \in Seq(Byte) :
        FlowAt(past, future, rest)
  BY Zenon DEF Flow, FlowAt
<1>4. PICK c \in Seq(Byte) : c = AllBytes(future)
  BY AllBytesCat
<1>5. rest \o c = <<>>
  BY <1>2, <1>3, <1>4, Zenon DEF FlowAt
<1>6. rest = <<>> /\ c = <<>>
  <2>1. Len(rest \o c) = Len(rest) + Len(c) /\ Len(rest) \in Nat /\ Len(c) \in Nat
    OBVIOUS
  <2>2. Len(rest) = 0 /\ Len(c) = 0
    BY <1>5, <2>1
  <2> QED BY <2>2
<1>7. future = <<>>
  <2> SUFFICES ASSUME future # <<>> PROVE FALSE
    OBVIOUS
  <2>1. PICK w \in Writes, later \in Seq(Writes) : future = <<w>> \o later
    BY FirstExists, Zenon
  <2>2. <<w>> \in Seq(Writes) /\ AllBytes(<<w>>) = Bytes(w)
    BY AllBytesCat
  <2>3. AllBytes(<<w>> \o later) = AllBytes(<<w>>) \o AllBytes(later)
    BY <2>2, AllBytesCat
  <2>4. PICK b \in Seq(Byte), e \in Seq(Byte) :
          b = Bytes(w) /\ e = AllBytes(later) /\ b # <<>>
    BY WriteBegins, AllBytesCat
  <2>5. b \o e = <<>>
    BY <1>4, <1>6, <2>1, <2>2, <2>3, <2>4, Zenon
  <2>6. Len(b \o e) = Len(b) + Len(e) /\ Len(b) \in Nat /\ Len(e) \in Nat /\ Len(b) # 0
    BY <2>4
  <2> QED BY <2>5, <2>6
<1>8. sent = past
  <2>1. past \o <<>> = past
    OBVIOUS
  <2> QED BY <1>3, <1>7, <2>1, Zenon DEF FlowAt
<1>9. Background(past, <<>>)
  <2>1. Position(past, <<>>)
    BY <1>3, <1>6, Zenon DEF FlowAt
  <2> QED BY <2>1, PositionEmpty
<1>10. Out = Frames(past) /\ Text(delivered) \o (raw \o <<>>) = Text(past)
  BY <1>9 DEF Background, Accounted, Tally
<1>11. raw \o <<>> = raw /\ FramesOut \o <<>> = FramesOut
  BY OutTypes
<1> QED BY <1>1, <1>8, <1>10, <1>11, Zenon DEF Out, FramesSent

\* Whatever becomes of a line, the frames that are handed over are some of those
\* written, in their order.
LEMMA HandedPicks ==
    ASSUME BaseInv, Flow PROVE FramesUnaltered
<1>0. /\ FramesOut \in Seq(Item) /\ frames \in Seq(Item) /\ Out \in Seq(Item)
  BY OutTypes
<1>1. PICK past \in Seq(Writes), future \in Seq(Writes), rest \in Seq(Byte) :
        FlowAt(past, future, rest)
  BY Zenon DEF Flow, FlowAt
<1>2. sent = past \o future /\ Position(past, rest)
  BY <1>1, Zenon DEF FlowAt
<1>3. Picks(Out, Frames(past))
  <2>1. CASE Genuine(past, rest)
    <3>1. PICK before \in Seq(Writes), w \in Writes :
            past = before \o <<w>> /\ GenuineAt(before, w)
      BY <2>1, Zenon DEF Genuine
    <3>2. Picks(Out, Frames(before))
      BY <3>1 DEF GenuineAt, Accounted, Tally
    <3>3. Picks(Out, Frames(before \o <<w>>))
      BY <3>2, PicksLater
    <3> QED BY <3>1, <3>3, Zenon
  <2>2. CASE Background(past, rest)
    BY <2>2 DEF Background, Accounted, Tally
  <2>3. CASE After(past, rest)
    BY <2>3 DEF After, Accounted, Tally
  <2>4. CASE Missed(past, rest)
    BY <2>4, Zenon DEF Missed, MissedAt
  <2> QED BY <1>2, <2>1, <2>2, <2>3, <2>4 DEF Position
<1>4. past \in Seq(Item) /\ future \in Seq(Item)
  BY WritesSeq
<1>5. PICK a \in Seq(Item), f \in Seq(Item) : a = Frames(past) /\ f = Frames(future)
  BY <1>4, FramesCat
<1>6. FramesSent = a \o f
  <2>1. Frames(past \o future) = Frames(past) \o Frames(future)
    BY <1>4, FramesCat
  <2> QED BY <1>2, <1>5, <2>1, Zenon DEF FramesSent
<1>7. Picks(FramesOut \o frames, a)
  BY <1>3, <1>5, Zenon DEF Out
<1>8. Picks(FramesOut, a)
  BY <1>0, <1>7, PicksFewer
<1>9. Picks(FramesOut, a \o f)
  BY <1>0, <1>8, PicksMore
<1>10. Picks(FramesOut, FramesSent)
  BY <1>6, <1>9, Zenon
<1> QED BY <1>10, Zenon DEF Picks, FramesUnaltered

-----------------------------------------------------------------------------
(* The theorems.                                                           *)

\* The invariant: what holds of the decoder and of poll, that no read ends in the
\* trailer of a frame, and where in the device's writes the decoder is.
StreamInv == BaseInv /\ CutsOK /\ FlowInv

\* It holds at first.
LEMMA StreamInvInit == ClientInit => StreamInv
<1> SUFFICES ASSUME ClientInit PROVE StreamInv
  OBVIOUS
<1>1. BaseInv
  BY BaseInvInit
<1> QED BY <1>1, FlowInit DEF StreamInv, FlowInv

\* Every step keeps it.
LEMMA StreamInvStep ==
    ASSUME ~SplitTrailer, PlainText \/ TextWithoutSof, StreamInv, [ClientNext]_vars
    PROVE  StreamInv'
<1>1. BaseInv /\ CutsOK /\ ClientTypes
  BY DEF StreamInv, BaseInv
<1>2. BaseInv'
  BY <1>1, BaseInvStep
<1>3. CutsOK'
  BY <1>1, CutsStep
<1>4. ASSUME Watched' PROVE ~panicked' /\ Flow'
  <2>1. Watched
    BY <1>1, <1>4, IntactStep DEF Watched
  <2>2. ~panicked /\ Flow
    BY <2>1 DEF StreamInv, FlowInv
  <2> QED BY <1>1, <1>2, <1>4, <2>2, FlowStep
<1> QED BY <1>2, <1>3, <1>4 DEF StreamInv, FlowInv

\* A device whose console text has no byte that ends an attempt, or none that begins
\* one, and whose line does not cut the trailer of a frame, keeps the decoder at a known
\* place in what was written.
THEOREM StreamInvariant ==
    ASSUME ~SplitTrailer, PlainText \/ TextWithoutSof
    PROVE  ClientSpec => []StreamInv
<1>1. ClientInit => StreamInv
  BY StreamInvInit
<1>2. StreamInv /\ [ClientNext]_vars => StreamInv'
  BY StreamInvStep
<1> QED BY <1>1, <1>2, PTL DEF ClientSpec

\* StreamIntact (poll and DeframeState in client.rs and frame.rs): as long as the decoder
\* dropped no byte, a line that does not stall loses and changes nothing, for any writes,
\* however reads cut and join them outside the trailers of frames.
THEOREM StreamsAreIntact ==
    ASSUME ~SplitTrailer, PlainText \/ TextWithoutSof, TIMEOUT > 0
    PROVE  ClientSpec => [](drop_count = 0 => StreamIntact)
<1>1. ClientSpec => []StreamInv
  BY StreamInvariant
<1>2. StreamInv => (drop_count = 0 => StreamIntact)
  <2> SUFFICES ASSUME StreamInv, drop_count = 0, ~stalls
               PROVE  /\ IsPrefix(FramesOut, FramesSent)
                      /\ IsPrefix(Text(delivered), Text(sent))
                      /\ AllRead => /\ FramesOut = FramesSent
                                    /\ Text(delivered) \o raw = Text(sent)
    BY Zenon DEF StreamIntact
  <2>1. Intact /\ BaseInv
    BY DEF Intact, StreamInv
  <2>2. Flow
    BY <2>1 DEF StreamInv, FlowInv, Watched
  <2>3. IsPrefix(FramesOut, FramesSent) /\ IsPrefix(Text(delivered), Text(sent))
    BY <2>1, <2>2, HandedFirst
  <2>4. ASSUME AllRead PROVE FramesOut = FramesSent /\ Text(delivered) \o raw = Text(sent)
    BY <2>1, <2>2, <2>4, HandedAll
  <2> QED BY <2>3, <2>4, Zenon
<1> QED BY <1>1, <1>2, PTL

\* FramesUnaltered (poll, and tick and inject in frame.rs): on a line that may stall
\* anywhere, with a decoder that may drop bytes, no frame is handed over that the device
\* did not write, none twice and none out of order.
THEOREM FramesStayUnaltered ==
    ASSUME ~SplitTrailer, PlainText, NoFrameInside
    PROVE  ClientSpec => []FramesUnaltered
<1>1. ClientSpec => []StreamInv
  BY StreamInvariant
<1>2. StreamInv => FramesUnaltered
  BY HandedPicks DEF StreamInv, FlowInv, Watched
<1> QED BY <1>1, <1>2, PTL

\* NoPanic (the slices of inject_checksum and get in frame.rs): behind poll the decoder
\* never slices outside its buffer.
THEOREM ClientNeverPanics ==
    ASSUME ~SplitTrailer, PlainText, NoFrameInside
    PROVE  ClientSpec => []NoPanic
<1>1. ClientSpec => []StreamInv
  BY StreamInvariant
<1>2. StreamInv => NoPanic
  BY DEF StreamInv, FlowInv, Watched, NoPanic
<1> QED BY <1>1, <1>2, PTL
=============================================================================
