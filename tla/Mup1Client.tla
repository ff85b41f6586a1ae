----------------------------- MODULE Mup1Client -----------------------------
(***************************************************************************)
(* The MUP1 client (mup1/src/client.rs) on top of the decoder: poll reads  *)
(* what the transport has, feeds it to the decoder byte by byte, ticks it  *)
(* once and hands over everything get() returns.  poll is one thread, so   *)
(* only the traffic and the clock interleave with it; its steps are        *)
(* separate actions because the decoder's operations are.                  *)
(*                                                                         *)
(* The other end is a device that writes frames and, on the same line,     *)
(* console text.  The operating system hands a write over in one or two    *)
(* pieces, and may join pieces of several writes in one read.              *)
(***************************************************************************)
EXTENDS Mup1Frame

CONSTANTS
    READ_BUF,      \* size of the buffer poll reads into
    Traffic,       \* Traffic[stalls]: what the device may write
    SplitTrailer,  \* TRUE: a read may end between a frame's EOF and the end
                   \* of its checksum
    MayStall,      \* values of stalls
    MaxWrites      \* MaxWrites[stalls]: bound on the writes of the device

ASSUME ClientAssumption ==
    /\ READ_BUF \in Nat \ {0}
    /\ SplitTrailer \in BOOLEAN /\ MayStall \subseteq BOOLEAN
    /\ MaxWrites \in [MayStall -> Nat]

VARIABLES
    stalls,     \* whether time passes between the reads of this behaviour
    wire,       \* pieces of writes not yet read
    pc,         \* the statement poll is at
    buf,        \* bytes read and not yet injected
    delivered,  \* frames handed to on_frame, all polls together
    sent,       \* history: the device's writes, in order
    quiet       \* history: time since the last byte was read, at most TIMEOUT

clientVars == <<stalls, wire, pc, buf, delivered, sent, quiet>>
vars == <<decoderVars, clientVars>>

ClientInit ==
    /\ DecoderInit
    /\ stalls \in MayStall
    /\ wire = <<>> /\ pc = "read" /\ buf = <<>> /\ delivered = <<>>
    /\ sent = <<>> /\ quiet = 0

-----------------------------------------------------------------------------
(* The device and the line.                                                *)

IsFrame(w) == w.type_byte # TYPE_RAW

Bytes(w) == IF IsFrame(w) THEN encode(w.type_byte, w.data) ELSE w.data

\* Everything that may be written in some behaviour.
Writes == UNION {Traffic[s] : s \in MayStall}

\* A type byte is written as it is, so it can be neither SOF nor EOF; the
\* digits of a checksum (checksum.rs) are none of the bytes that mean something.
ASSUME TrafficAssumption ==
    \A w \in Writes :
        /\ w \in [type_byte : Byte \cup {TYPE_RAW}, data : Seq(Byte)]
        /\ Bytes(w) \in Seq(Byte)
        /\ IF IsFrame(w)
           THEN /\ w.type_byte \notin {SOF, EOF}
                /\ CsumFinalize(RunOver(w.type_byte, w.data, EofCount(Len(w.data))))
                     \in [1 .. CHECKSUM_LEN -> Byte \ {EOF}]
           ELSE w.data # <<>>

\* Where a write may be cut in two: before byte k + 1.
CutPoints(w) ==
    LET inner == 1 .. Len(Bytes(w)) - 1
        body  == Len(EncodeBody(w.type_byte, w.data))
    IN  IF SplitTrailer \/ ~IsFrame(w) THEN inner
        ELSE {k \in inner : k < body \/ k >= Len(Bytes(w)) - 2}

DeviceWrites(w) ==
    /\ Len(sent) < MaxWrites[stalls]
    /\ sent' = Append(sent, w)
    /\ \/ wire' = Append(wire, Bytes(w))
       \/ \E k \in CutPoints(w) :
             wire' = wire \o << SubSeq(Bytes(w), 1, k),
                                SubSeq(Bytes(w), k + 1, Len(Bytes(w))) >>
    /\ UNCHANGED <<stalls, decoderVars, pc, buf, delivered, quiet>>

Clock ==
    /\ stalls
    /\ ClockAdvances
    /\ quiet' = IF quiet < TIMEOUT THEN quiet + 1 ELSE TIMEOUT
    /\ UNCHANGED <<stalls, wire, pc, buf, delivered, sent>>

-----------------------------------------------------------------------------
(* poll.                                                                   *)

\* read: nothing at all when it times out, else some of what is there.
PollRead(m) ==
    LET bytes == FlattenSeq(SubSeq(wire, 1, m))
    IN  /\ ~panicked
        /\ pc = "read"
        /\ Len(bytes) <= READ_BUF
        /\ buf' = bytes
        /\ wire' = SubSeq(wire, m + 1, Len(wire))
        /\ pc' = "inject"
        /\ quiet' = IF m > 0 THEN 0 ELSE quiet
        /\ UNCHANGED <<stalls, decoderVars, delivered, sent>>

PollInject ==
    /\ ~panicked
    /\ pc = "inject" /\ buf # <<>>
    /\ inject(Head(buf))
    /\ buf' = Tail(buf)
    /\ UNCHANGED <<stalls, wire, pc, delivered, sent, quiet>>

PollTick ==
    /\ ~panicked
    /\ pc = "inject" /\ buf = <<>>
    /\ tick
    /\ pc' = "get"
    /\ UNCHANGED <<stalls, wire, buf, delivered, sent, quiet>>

\* Mutant: the ready content is fetched between the bytes of a read.
PollGet_Eager ==
    /\ ~panicked
    /\ pc \in {"inject", "get"}
    /\ get
    /\ delivered' = Append(delivered, GetResult)
    /\ UNCHANGED <<stalls, wire, pc, buf, sent, quiet>>

PollGet ==
    /\ ~panicked
    /\ pc = "get"
    /\ get
    /\ delivered' = Append(delivered, GetResult)
    /\ UNCHANGED <<stalls, wire, pc, buf, sent, quiet>>

PollReturn ==
    /\ pc = "get" /\ ~CanGet
    /\ pc' = "read"
    /\ UNCHANGED <<stalls, decoderVars, wire, buf, delivered, sent, quiet>>

poll ==
    \/ \E m \in 0 .. Len(wire) : PollRead(m)
    \/ PollInject
    \/ PollTick
    \/ PollGet
    \/ PollReturn

ClientNext ==
    \/ \E w \in Traffic[stalls] : DeviceWrites(w)
    \/ Clock
    \/ poll

ClientSpec == ClientInit /\ [][ClientNext]_vars

\* A caller that waits for something polls again and again, and its clock runs.
FairClientSpec == ClientSpec /\ WF_vars(poll) /\ WF_vars(Clock)

-----------------------------------------------------------------------------
(* Properties.                                                             *)

Frames(items) ==
    FlattenSeq([i \in DOMAIN items |->
                  IF IsFrame(items[i]) THEN <<items[i]>> ELSE <<>>])

FramesSent == Frames(sent)
FramesOut == Frames(delivered)

Text(items) ==
    FlattenSeq([i \in DOMAIN items |->
                  IF IsFrame(items[i]) THEN <<>> ELSE items[i].data])

AllRead == wire = <<>> /\ pc = "read"

\* Frames and console text that share the line are separated again: on_frame
\* gets every frame exactly as the device built it, in order, however reads cut
\* and join the stream, and every console byte in order; when all is read none
\* is missing but the text of an attempt that is still open.  This is for a
\* line that does not stall.
StreamIntact ==
    ~stalls => /\ IsPrefix(FramesOut, FramesSent)
               /\ IsPrefix(Text(delivered), Text(sent))
               /\ AllRead => /\ FramesOut = FramesSent
                             /\ Text(delivered) \o raw = Text(sent)

\* Even when the line stalls inside a frame, so that tick gives the frame up,
\* on_frame never sees a frame the device did not send, twice, or out of order.
FramesUnaltered ==
    \E g \in [DOMAIN FramesOut -> DOMAIN FramesSent] :
        /\ \A i, j \in DOMAIN g : i < j => g[i] < g[j]
        /\ \A i \in DOMAIN g : FramesOut[i] = FramesSent[g[i]]

\* Bytes of an unfinished frame do not stay in the decoder: they are decoded or
\* come back as raw content.
StallRecovered == (stalls /\ raw # <<>>) ~> (raw = <<>>)

\* tick gives an attempt up only "after `timeout_ms` of no forward progress".
NoEarlyRecovery == [][PollTick /\ TickExpires => quiet >= TIMEOUT]_vars

-----------------------------------------------------------------------------
(* What console text, and a checksum, can make of these properties: text   *)
(* is not escaped, and nothing but the checksum tells a frame from bytes   *)
(* that happen to look like one.                                           *)

\* No text has the bytes that end an attempt or continue one over a SOF.
PlainText ==
    \A w \in Writes : ~IsFrame(w) => \A i \in DOMAIN w.data : w.data[i] \notin {EOF, ESC}

\* No text opens an attempt.
TextWithoutSof ==
    \A w \in Writes : ~IsFrame(w) => \A i \in DOMAIN w.data : w.data[i] # SOF

\* The bytes have the form of a frame, and a checksum that is accepted.
LooksLikeFrame(bytes) ==
    \E e \in 3 .. Len(bytes) :
        LET u == Unescape(SubSeq(bytes, 3, e - 1))
            n == EofCount(Len(u.out))
            sum == SubSeq(bytes, e + n, Len(bytes))
        IN  /\ bytes[1] = SOF /\ ~u.esc
            /\ Len(bytes) = e + n - 1 + CHECKSUM_LEN
            /\ \A i \in e .. e + n - 1 : bytes[i] = EOF
            /\ \/ sum \in CsumSentinels
               \/ sum = CsumFinalize(RunOver(bytes[2], u.out, n))

\* No frame has another inside: the checksum tells when a decoder that missed
\* the beginning of a frame takes an escaped SOF for it.
NoFrameInside ==
    \A w \in Writes : IsFrame(w) =>
        \A k \in 2 .. Len(Bytes(w)) : \A m \in k .. Len(Bytes(w)) :
            ~LooksLikeFrame(SubSeq(Bytes(w), k, m))
=============================================================================
