----------------------------- MODULE Mup1Frame -----------------------------
(***************************************************************************)
(* MUP1 framing (mup1/src/frame.rs): encode, and the byte-fed Decoder with *)
(* its three operations inject, tick and get.                              *)
(*                                                                         *)
(* A byte is a member of Byte, which tells apart the bytes the decoder     *)
(* tests for and whatever else a model needs.  The checksum is a parameter *)
(* (its arithmetic is mup1/src/checksum.rs): CsumNew, CsumUpdate and       *)
(* CsumFinalize stand for Running::new, update and finalize, and           *)
(* CsumSentinels for the checksums is_ignore_sentinel accepts unverified.  *)
(*                                                                         *)
(* Indices are the code's: raw_head and data_end count from 0, so the byte *)
(* raw[i] of the code is raw[i + 1] here.                                  *)
(***************************************************************************)
EXTENDS Integers, Sequences, SequencesExt

CONSTANTS
    Byte,             \* the byte values told apart
    RAW_BUF_CAP,      \* capacity of the verbatim byte buffer
    TIMEOUT,          \* timeout_ms, in units of the model's clock
    INTERNET,         \* TRUE for ChecksumType::Internet, FALSE for CRC
    CHECKSUM_LEN,     \* checksum::encoded_len
    CsumNew,          \* Running::new
    CsumUpdate(_, _), \* Running::update
    CsumFinalize(_),  \* Running::finalize
    CsumSentinels     \* byte strings is_ignore_sentinel accepts

SOF == "SOF"
EOF == "EOF"
ESC == "ESC"
CR == "CR"
LF == "LF"
ESCAPED_00 == "0"
ESCAPED_FF == "F"
TYPE_RAW == "TYPE_RAW"

\* The bytes 0x00 and 0xFF, which never appear unescaped in a frame.
ZERO == "00"
ONES == "FF"

ASSUME ByteAssumption ==
    /\ {SOF, EOF, ESC, CR, LF} \subseteq Byte
    /\ ESCAPED_00 \in Byte => ZERO \in Byte
    /\ ESCAPED_FF \in Byte => ONES \in Byte
    /\ TYPE_RAW \notin Byte
ASSUME SizeAssumption ==
    /\ RAW_BUF_CAP \in Nat \ {0}
    /\ TIMEOUT \in Nat
    /\ INTERNET \in BOOLEAN
    /\ CHECKSUM_LEN \in Nat \ {0}

State == {"Idle", "Sof", "Data", "DataEsc", "Eof", "Checksum",
          "PostFrame", "PostFrameCr"}

-----------------------------------------------------------------------------
(* The wire format.                                                        *)

needs_escape(b) == b \in {SOF, EOF, ESC, ZERO, ONES}

escape_byte(b) ==
    CASE b = ZERO -> ESCAPED_00 [] b = ONES -> ESCAPED_FF [] OTHER -> b

unescape_byte(b) ==
    CASE b = ESCAPED_00 -> ZERO [] b = ESCAPED_FF -> ONES [] OTHER -> b

Escape(data) ==
    FlattenSeq([i \in DOMAIN data |->
        IF needs_escape(data[i]) THEN <<ESC, escape_byte(data[i])>>
                                 ELSE <<data[i]>>])

\* An Internet checksum covers whole 16-bit words: data of even length is
\* followed by a second EOF.
EofCount(len) == IF INTERNET /\ len % 2 = 0 THEN 2 ELSE 1

Eofs(n) == [i \in 1 .. n |-> EOF]

\* The checksum over SOF, type, the logical data and the EOFs.
RunOver(type_byte, data, eofs) ==
    FoldLeft(CsumUpdate, CsumNew, <<SOF, type_byte>> \o data \o Eofs(eofs))

\* What the sender puts before its display-only CR LF, up to the first EOF ...
EncodeBody(type_byte, data) == <<SOF, type_byte>> \o Escape(data) \o <<EOF>>

\* ... and from there on.
EncodeTrailer(type_byte, data) ==
    LET n == EofCount(Len(data))
    IN  Eofs(n - 1) \o CsumFinalize(RunOver(type_byte, data, n)) \o <<CR, LF>>

encode(type_byte, data) ==
    EncodeBody(type_byte, data) \o EncodeTrailer(type_byte, data)

\* Undo the escaping of a byte string, byte by byte; esc tells that it ends
\* inside an escape.
Nothing == [out |-> <<>>, esc |-> FALSE]
UnescapeStep(acc, b) ==
    IF acc.esc THEN [out |-> Append(acc.out, unescape_byte(b)), esc |-> FALSE]
    ELSE IF b = ESC THEN [out |-> acc.out, esc |-> TRUE]
    ELSE [out |-> Append(acc.out, b), esc |-> FALSE]

Unescape(bytes) == FoldLeft(UnescapeStep, Nothing, bytes)

-----------------------------------------------------------------------------
VARIABLES
    state,                  \* the decoder's State
    raw,                    \* verbatim bytes: settled, then the open attempt
    raw_head,               \* number of settled bytes
    data_end,               \* raw index where the attempt's DATA ends
    data_len,               \* logical data bytes of the open attempt
    running,                \* checksum of the open attempt so far
    checksum_bytes,         \* checksum bytes received
    frames,                 \* decoded frames not yet fetched
    drop_count,             \* bytes dropped because raw was full
    open_len_at_last_tick,  \* length of the open attempt at the last tick
    since_progress,         \* now - time_of_last_progress, at most TIMEOUT
    panicked                \* an index was out of range: the process is gone

attemptVars == <<data_end, data_len, running, checksum_bytes>>
timerVars == <<open_len_at_last_tick, since_progress>>
decoderVars == <<state, raw, raw_head, attemptVars, frames, drop_count,
                 timerVars, panicked>>

Frame == [type_byte : Byte, data : Seq(Byte)]

\* Everything but the payloads of decoded frames is of its type.
StateOK ==
    /\ state \in State
    /\ raw \in Seq(Byte)
    /\ raw_head \in Nat
    /\ data_end \in Nat
    /\ data_len \in Nat
    /\ checksum_bytes \in Seq(Byte)
    /\ drop_count \in Nat
    /\ open_len_at_last_tick \in Nat
    /\ since_progress \in 0 .. TIMEOUT
    /\ panicked \in BOOLEAN

\* The type invariant.
TypeOK == StateOK /\ frames \in Seq(Frame)

DecoderInit ==
    /\ state = "Idle"
    /\ raw = <<>> /\ raw_head = 0
    /\ data_end = 0 /\ data_len = 0
    /\ running = CsumNew /\ checksum_bytes = <<>>
    /\ frames = <<>> /\ drop_count = 0
    /\ open_len_at_last_tick = 0 /\ since_progress = 0
    /\ panicked = FALSE

-----------------------------------------------------------------------------
(* inject: one action per branch.                                          *)

\* The state in which an appended byte is processed: one that is not part of
\* the CR LF trailer of a decoded frame is processed as in Idle.
Entry == IF state \in {"PostFrame", "PostFrameCr"} THEN "Idle" ELSE state

IsTrailer(ch) == \/ state = "PostFrame" /\ ch = CR
                 \/ state = "PostFrameCr" /\ ch = LF

\* The byte is appended to raw and is not a trailer byte.
Accepts(ch) == Len(raw) < RAW_BUF_CAP /\ ~IsTrailer(ch)

resolve_raw(bytes) ==
    /\ raw' = bytes
    /\ raw_head' = Len(bytes)
    /\ state' = "Idle"

InjectOverflow(ch) ==
    /\ Len(raw) >= RAW_BUF_CAP
    /\ resolve_raw(raw)
    /\ drop_count' = drop_count + 1
    /\ UNCHANGED <<attemptVars, frames, timerVars, panicked>>

SwallowTrailer(ch) ==
    /\ Len(raw) < RAW_BUF_CAP
    /\ IsTrailer(ch)
    /\ state' = IF state = "PostFrame" THEN "PostFrameCr" ELSE "Idle"
    /\ UNCHANGED <<raw, raw_head, attemptVars, frames, drop_count, timerVars,
                   panicked>>

\* Mutant: every checksum passes.
checksum_ok_Always(bytes) == TRUE

checksum_ok(bytes) == bytes \in CsumSentinels \/ CsumFinalize(running) = bytes

\* The loop of resolve_success reads the bytes in raw_head+2 .. data_end-1, and
\* the one at data_end when an escape comes last.
DecodePanics(bytes) ==
    \/ data_end > Len(bytes)
    \/ /\ data_end = Len(bytes)
       /\ Unescape(SubSeq(bytes, raw_head + 3, data_end)).esc

Decoded(bytes) ==
    LET u == Unescape(SubSeq(bytes, raw_head + 3, data_end))
    IN  IF u.esc THEN Append(u.out, unescape_byte(bytes[data_end + 1]))
                 ELSE u.out

\* Mutant: the bytes of the decoded frame stay in raw.
resolve_success_Keep(bytes) ==
    /\ frames' = Append(frames, [type_byte |-> bytes[raw_head + 2],
                                 data |-> Decoded(bytes)])
    /\ raw' = bytes
    /\ state' = "PostFrame"
    /\ UNCHANGED raw_head

\* Mutant: the frame keeps the type of raw content.
resolve_success_Raw(bytes) ==
    /\ frames' = Append(frames, [type_byte |-> TYPE_RAW, data |-> Decoded(bytes)])
    /\ raw' = SubSeq(bytes, 1, raw_head)
    /\ state' = "PostFrame"
    /\ UNCHANGED raw_head

resolve_success(bytes) ==
    /\ frames' = Append(frames, [type_byte |-> bytes[raw_head + 2],
                                 data |-> Decoded(bytes)])
    /\ raw' = SubSeq(bytes, 1, raw_head)
    /\ state' = "PostFrame"
    /\ UNCHANGED raw_head

InjectChecksum(ch) ==
    LET bytes == Append(raw, ch)
        check == Append(checksum_bytes, ch)
        last == Len(check) >= CHECKSUM_LEN
    IN  /\ Accepts(ch)
        /\ Entry = "Checksum"
        /\ \/ /\ ~last
              /\ raw' = bytes
              /\ checksum_bytes' = check
              /\ UNCHANGED <<state, raw_head, frames, panicked>>
           \/ /\ last /\ checksum_ok(check) /\ ~DecodePanics(bytes)
              /\ resolve_success(bytes)
              /\ checksum_bytes' = check
              /\ UNCHANGED panicked
           \/ /\ last /\ checksum_ok(check) /\ DecodePanics(bytes)
              /\ panicked' = TRUE
              /\ UNCHANGED <<state, raw, raw_head, checksum_bytes, frames>>
           \/ /\ last /\ ~checksum_ok(check)
              /\ resolve_raw(bytes)
              /\ checksum_bytes' = check
              /\ UNCHANGED <<frames, panicked>>
        /\ UNCHANGED <<data_end, data_len, running, drop_count, timerVars>>

\* What every SOF that starts an attempt does.
OpenAttempt(head, len) ==
    /\ raw' = Append(raw, SOF)
    /\ raw_head' = head
    /\ running' = CsumUpdate(CsumNew, SOF)
    /\ data_len' = len
    /\ state' = "Sof"
    /\ UNCHANGED <<data_end, checksum_bytes, frames, drop_count, timerVars,
                   panicked>>

\* Mutants: data_len keeps its value; the attempt that is given up is not
\* settled.
InjectSof_KeepLen(ch) ==
    /\ Accepts(ch) /\ Entry \notin {"Checksum", "DataEsc"} /\ ch = SOF
    /\ OpenAttempt(Len(raw), data_len)
InjectSof_KeepHead(ch) ==
    /\ Accepts(ch) /\ Entry \notin {"Checksum", "DataEsc"} /\ ch = SOF
    /\ OpenAttempt(raw_head, 0)

\* SOF (re)starts an attempt, except right after ESC and inside a checksum.
InjectSof(ch) ==
    /\ Accepts(ch)
    /\ Entry \notin {"Checksum", "DataEsc"}
    /\ ch = SOF
    /\ OpenAttempt(Len(raw), 0)

InjectType(ch) ==
    /\ Accepts(ch)
    /\ Entry = "Sof" /\ ch # SOF
    /\ IF ch = EOF
       THEN /\ resolve_raw(Append(raw, ch))
            /\ UNCHANGED running
       ELSE /\ raw' = Append(raw, ch)
            /\ running' = CsumUpdate(running, ch)
            /\ state' = "Data"
            /\ UNCHANGED raw_head
    /\ UNCHANGED <<data_end, data_len, checksum_bytes, frames, drop_count,
                   timerVars, panicked>>

InjectEsc(ch) ==
    /\ Accepts(ch)
    /\ Entry = "Data" /\ ch = ESC
    /\ raw' = Append(raw, ch)
    /\ state' = "DataEsc"
    /\ UNCHANGED <<raw_head, attemptVars, frames, drop_count, timerVars, panicked>>

\* The EOF that ends DATA, or the second one that pads an Internet checksum.
InjectEof(ch) ==
    /\ Accepts(ch)
    /\ Entry \in {"Data", "Eof"} /\ ch = EOF
    /\ raw' = Append(raw, ch)
    /\ data_end' = IF Entry = "Data" THEN Len(raw) ELSE data_end
    /\ running' = CsumUpdate(running, EOF)
    /\ IF Entry = "Data" /\ EofCount(data_len) = 2
       THEN state' = "Eof" /\ UNCHANGED checksum_bytes
       ELSE state' = "Checksum" /\ checksum_bytes' = <<>>
    /\ UNCHANGED <<raw_head, data_len, frames, drop_count, timerVars, panicked>>

\* Anything but the second EOF spoils the attempt.
InjectBadPad(ch) ==
    /\ Accepts(ch)
    /\ Entry = "Eof" /\ ch \notin {SOF, EOF}
    /\ resolve_raw(Append(raw, ch))
    /\ UNCHANGED <<attemptVars, frames, drop_count, timerVars, panicked>>

\* A data byte, escaped or not.
InjectData(ch) ==
    /\ Accepts(ch)
    /\ \/ Entry = "DataEsc"
       \/ Entry = "Data" /\ ch \notin {SOF, ESC, EOF}
    /\ raw' = Append(raw, ch)
    /\ running' = CsumUpdate(running,
                    IF Entry = "DataEsc" THEN unescape_byte(ch) ELSE ch)
    /\ data_len' = data_len + 1
    /\ state' = "Data"
    /\ UNCHANGED <<raw_head, data_end, checksum_bytes, frames, drop_count,
                   timerVars, panicked>>

\* Outside a frame every byte but SOF is settled at once.
InjectIdle(ch) ==
    /\ Accepts(ch)
    /\ Entry = "Idle" /\ ch # SOF
    /\ resolve_raw(Append(raw, ch))
    /\ UNCHANGED <<attemptVars, frames, drop_count, timerVars, panicked>>

inject(ch) ==
    \/ InjectOverflow(ch)
    \/ SwallowTrailer(ch)
    \/ InjectChecksum(ch)
    \/ InjectSof(ch)
    \/ InjectType(ch)
    \/ InjectEsc(ch)
    \/ InjectEof(ch)
    \/ InjectBadPad(ch)
    \/ InjectData(ch)
    \/ InjectIdle(ch)

-----------------------------------------------------------------------------
(* tick and get.                                                           *)

OpenLen == Len(raw) - raw_head

TickExpires == /\ OpenLen = open_len_at_last_tick
               /\ OpenLen > 0
               /\ since_progress >= TIMEOUT

\* Mutant: every tick counts as progress.
tick_Restart ==
    /\ open_len_at_last_tick' = OpenLen
    /\ since_progress' = 0
    /\ UNCHANGED <<state, raw, raw_head, attemptVars, frames, drop_count,
                   panicked>>

tick ==
    /\ IF OpenLen # open_len_at_last_tick
       THEN /\ open_len_at_last_tick' = OpenLen
            /\ since_progress' = 0
            /\ UNCHANGED <<state, raw, raw_head>>
       ELSE IF TickExpires
            THEN resolve_raw(raw) /\ UNCHANGED timerVars
            ELSE UNCHANGED <<state, raw, raw_head, timerVars>>
    /\ UNCHANGED <<attemptVars, frames, drop_count, panicked>>

\* What get() returns when it returns something.
CanGet == frames # <<>> \/ raw_head > 0
GetResult ==
    IF frames # <<>> THEN Head(frames)
    ELSE [type_byte |-> TYPE_RAW, data |-> SubSeq(raw, 1, raw_head)]

get ==
    /\ CanGet
    /\ IF frames # <<>>
       THEN frames' = Tail(frames) /\ UNCHANGED <<raw, raw_head>>
       ELSE /\ raw' = SubSeq(raw, raw_head + 1, Len(raw))
            /\ raw_head' = 0
            /\ UNCHANGED frames
    /\ UNCHANGED <<state, attemptVars, drop_count, timerVars, panicked>>

\* The monotonic clock the caller passes to tick.
ClockAdvances ==
    /\ since_progress' = IF since_progress < TIMEOUT THEN since_progress + 1
                                                   ELSE TIMEOUT
    /\ UNCHANGED <<state, raw, raw_head, attemptVars, frames, drop_count,
                   open_len_at_last_tick, panicked>>

DecoderNext ==
    /\ ~panicked
    /\ \/ \E ch \in Byte : inject(ch)
       \/ tick
       \/ get
       \/ ClockAdvances

DecoderSpec == DecoderInit /\ [][DecoderNext]_decoderVars

-----------------------------------------------------------------------------
(* Properties.                                                             *)

InAttempt == state \in {"Sof", "Data", "DataEsc", "Eof", "Checksum"}
InTrailer == state \in {"Eof", "Checksum"}

\* Where the open attempt's DATA really ends, counted back from the last byte
\* received: over the checksum bytes and the EOFs.
TrueDataEnd ==
    IF state = "Eof" THEN Len(raw) - 1
    ELSE Len(raw) - Len(checksum_bytes) - EofCount(data_len)

\* raw never exceeds its capacity and is split by raw_head into settled bytes
\* and at most one open attempt, which exists exactly in the in-frame states,
\* begins with the only SOF that opened it and has its type byte as soon as
\* DATA can follow.  Neither `raw.len() - raw_head` in tick, nor
\* `raw.len() - 1` in inject, nor `raw[raw_head + 1]` in resolve_success can
\* then go out of range.
AttemptInv ==
    /\ raw_head <= Len(raw) /\ Len(raw) <= RAW_BUF_CAP
    /\ ~InAttempt => raw_head = Len(raw)
    /\ InAttempt => raw_head < Len(raw) /\ raw[raw_head + 1] = SOF
    /\ state = "Sof" => Len(raw) = raw_head + 1
    /\ state \in {"Data", "DataEsc"} => Len(raw) >= raw_head + 2
    /\ state = "DataEsc" => Len(raw) >= raw_head + 3 /\ raw[Len(raw)] = ESC
    /\ InTrailer => TrueDataEnd >= raw_head + 2
    /\ state = "Checksum" => Len(checksum_bytes) < CHECKSUM_LEN

\* The checksum computed byte by byte, on the fly, is that of the data the raw
\* bytes of the open attempt stand for (which is what resolve_success decodes
\* a second time): escapes, restarts by SOF, recoveries and fetches in the
\* middle of a frame included.
ChecksumCovers ==
    /\ state \in {"Data", "DataEsc"} =>
         LET u == Unescape(SubSeq(raw, raw_head + 3, Len(raw)))
         IN  /\ u.esc = (state = "DataEsc")
             /\ data_len = Len(u.out)
             /\ running = RunOver(raw[raw_head + 2], u.out, 0)
    /\ InTrailer =>
         LET u == Unescape(SubSeq(raw, raw_head + 3, TrueDataEnd))
         IN  /\ ~u.esc
             /\ data_len = Len(u.out)
             /\ running = RunOver(raw[raw_head + 2], u.out,
                            IF state = "Eof" THEN 1 ELSE EofCount(data_len))

\* resolve_success never indexes outside raw.
NoPanic == ~panicked

\* The caller takes settled bytes only while no frame waits for the rest of
\* its trailer.
FetchOutsideTrailer == get => frames # <<>> \/ ~InTrailer

\* data_end is, as its comment says, the raw index where the open attempt's
\* DATA section ends, whenever resolve_success may come to rely on it.
DataEndOK == InTrailer => data_end = TrueDataEnd
=============================================================================
