---------------------------- MODULE MCMup1Client ----------------------------
EXTENDS Mup1Client

MCByte == {SOF, EOF, ESC, CR, LF, ESCAPED_00, ESCAPED_FF, ZERO, ONES, "a", "b"}

\* A residue of the bytes, sent as two digits.
MCWeight(b) ==
    CASE b = SOF -> 1 [] b = EOF -> 2 [] b = ZERO -> 3 [] b = "a" -> 4
      [] b = "b" -> 5 [] OTHER -> 0
MCUpdate(r, b) == (3 * r + MCWeight(b)) % 4
MCFinalize(r) ==
    << IF r \div 2 = 0 THEN ESCAPED_00 ELSE ESCAPED_FF,
       IF r % 2 = 0 THEN ESCAPED_00 ELSE ESCAPED_FF >>

FrameOf(t, d) == [type_byte |-> t, data |-> d]
Console(d) == [type_byte |-> TYPE_RAW, data |-> d]

\* Frames without data, with a byte that is escaped, with one that is both
\* escaped and looks like a frame of its own; console text that begins like the
\* trailer of a frame, and a prompt.
StreamTraffic ==
    { FrameOf("a", <<>>), FrameOf("b", <<SOF, ZERO>>), FrameOf("b", <<ONES>>),
      Console(<<CR, "a">>), Console(<<SOF, "b">>) }

\* Frames that stall, and a prompt.
StallTraffic ==
    { FrameOf("a", <<"b">>), FrameOf("b", <<SOF, EOF>>), Console(<<SOF>>) }

MCTraffic == [s \in BOOLEAN |-> IF s THEN StallTraffic ELSE StreamTraffic]
MCMaxWrites == [s \in MayStall |-> IF s THEN 2 ELSE 3]

\* The instance is one of those the theorems about the client are for.
ASSUME PlainText /\ NoFrameInside /\ TIMEOUT > 0
=============================================================================
