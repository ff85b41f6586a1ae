-------------------------- MODULE Mup1FrameProofs --------------------------
(***************************************************************************)
(* Proofs about the decoder of Mup1Frame, for every byte alphabet, buffer  *)
(* capacity, timeout and checksum.                                         *)
(***************************************************************************)
EXTENDS Mup1Frame, SequenceTheorems, TLAPS

\* A second EOF is awaited only when the data needs padding: without it the
\* position of the data of an attempt in its checksum could not be told.
EofPadded == state = "Eof" => EofCount(data_len) = 2

DecoderInv == StateOK /\ AttemptInv /\ EofPadded

\* A frame ends with one EOF or with two.
LEMMA EofCountValues == \A n : EofCount(n) \in {1, 2}
BY DEF EofCount

\* Cutting the settled bytes off raw keeps the open attempt, moved to index 0.
LEMMA DrainSettled ==
    ASSUME NEW s \in Seq(Byte), NEW h \in Nat, h <= Len(s)
    PROVE  LET t == SubSeq(s, h + 1, Len(s))
           IN  /\ t \in Seq(Byte)
               /\ Len(t) = Len(s) - h
               /\ \A i \in 1 .. Len(t) : t[i] = s[h + i]
<1>1. h + 1 \in 1 .. Len(s) + 1 /\ Len(s) \in Nat
  BY LenProperties
<1>2. Len(s) \in h .. Len(s)
  BY <1>1
<1>3. QED
  BY <1>1, <1>2, SubSeqProperties

\* A new decoder satisfies the inductive invariant.
LEMMA DecoderInvInit == DecoderInit => DecoderInv
<1> SUFFICES ASSUME DecoderInit PROVE DecoderInv
  OBVIOUS
<1>1. StateOK
  <2>1. raw \in Seq(Byte) /\ checksum_bytes \in Seq(Byte)
    BY DEF DecoderInit
  <2>2. panicked \in BOOLEAN
    BY Zenon DEF DecoderInit
  <2>3. QED
    BY <2>1, <2>2, SizeAssumption DEF DecoderInit, StateOK, State
<1>2. AttemptInv
  BY SizeAssumption DEF DecoderInit, AttemptInv, InAttempt, InTrailer
<1>3. EofPadded
  BY DEF DecoderInit, EofPadded
<1>4. QED
  BY <1>1, <1>2, <1>3 DEF DecoderInv

-----------------------------------------------------------------------------
(* inject.                                                                 *)

\* Outside an attempt everything is settled, whatever resolve_raw settles.
LEMMA ResolveRawInv ==
    ASSUME DecoderInv, NEW bytes \in Seq(Byte), resolve_raw(bytes),
           Len(bytes) <= RAW_BUF_CAP,
           StateOK'
    PROVE  DecoderInv'
<1>1. AttemptInv'
  BY SizeAssumption
  DEF resolve_raw, DecoderInv, StateOK, AttemptInv, InAttempt, InTrailer
<1>2. EofPadded'
  BY DEF resolve_raw, EofPadded
<1>3. QED
  BY <1>1, <1>2 DEF DecoderInv

\* A byte that does not fit keeps it: what is in raw is settled.
LEMMA InjectOverflowInv ==
    ASSUME DecoderInv, NEW ch \in Byte, InjectOverflow(ch)
    PROVE  DecoderInv'
<1>1. StateOK'
  BY DEF DecoderInv, StateOK, State, InjectOverflow, resolve_raw, attemptVars,
     timerVars
<1>2. QED
  BY <1>1, ResolveRawInv DEF DecoderInv, StateOK, AttemptInv, InjectOverflow

\* A byte of the CR LF trailer keeps it.
LEMMA SwallowTrailerInv ==
    ASSUME DecoderInv, NEW ch \in Byte, SwallowTrailer(ch)
    PROVE  DecoderInv'
<1> USE DEF DecoderInv, SwallowTrailer, IsTrailer, attemptVars, timerVars
<1>1. StateOK'
  BY DEF StateOK, State
<1>2. AttemptInv'
  BY DEF StateOK, AttemptInv, InAttempt, InTrailer
<1>3. EofPadded'
  BY DEF EofPadded
<1>4. QED
  BY <1>1, <1>2, <1>3

\* A SOF keeps it: the settled bytes end right before the new attempt.
LEMMA InjectSofInv ==
    ASSUME DecoderInv, NEW ch \in Byte, InjectSof(ch)
    PROVE  DecoderInv'
<1> USE DEF DecoderInv, InjectSof, OpenAttempt, Accepts, attemptVars, timerVars
<1>1. StateOK'
  BY ByteAssumption DEF StateOK, State
<1>2. AttemptInv'
  BY SizeAssumption, ByteAssumption
  DEF StateOK, AttemptInv, InAttempt, InTrailer
<1>3. EofPadded'
  BY DEF EofPadded
<1>4. QED
  BY <1>1, <1>2, <1>3

\* The type byte, or the EOF in its place, keeps it.
LEMMA InjectTypeInv ==
    ASSUME DecoderInv, NEW ch \in Byte, InjectType(ch)
    PROVE  DecoderInv'
<1>1. StateOK'
  BY SMTT(30) DEF InjectType, DecoderInv, StateOK, State, resolve_raw, attemptVars,
     timerVars
<1>2. CASE ch = EOF
  <2>1. Append(raw, ch) \in Seq(Byte) /\ Len(Append(raw, ch)) <= RAW_BUF_CAP
    BY SizeAssumption DEF InjectType, Accepts, DecoderInv, StateOK
  <2>2. resolve_raw(Append(raw, ch))
    BY <1>2 DEF InjectType
  <2>3. QED
    BY <1>1, <2>1, <2>2, ResolveRawInv
<1>3. CASE ch # EOF
  <2>1. AttemptInv'
    BY <1>3, SizeAssumption
    DEF InjectType, Accepts, Entry, DecoderInv, StateOK, AttemptInv, InAttempt,
        InTrailer, attemptVars, timerVars
  <2>2. EofPadded'
    BY <1>3 DEF InjectType, EofPadded
  <2>3. QED
    BY <1>1, <2>1, <2>2 DEF DecoderInv
<1>4. QED
  BY <1>2, <1>3

\* The first byte of an escape keeps it.
LEMMA InjectEscInv ==
    ASSUME DecoderInv, NEW ch \in Byte, InjectEsc(ch)
    PROVE  DecoderInv'
<1> USE DEF DecoderInv, InjectEsc, Accepts, Entry, attemptVars, timerVars
<1>1. StateOK'
  BY DEF StateOK, State
<1>2. AttemptInv'
  BY SizeAssumption DEF StateOK, AttemptInv, InAttempt, InTrailer
<1>3. EofPadded'
  BY DEF EofPadded
<1>4. QED
  BY <1>1, <1>2, <1>3

\* The EOF that ends DATA, or pads it, keeps it.
LEMMA InjectEofInv ==
    ASSUME DecoderInv, NEW ch \in Byte, InjectEof(ch)
    PROVE  DecoderInv'
<1> USE DEF DecoderInv, InjectEof, Accepts, Entry, attemptVars, timerVars
<1>1. StateOK'
  <2>1. data_end' \in Nat /\ raw' \in Seq(Byte)
    BY DEF StateOK
  <2>2. state' \in State /\ checksum_bytes' \in Seq(Byte)
    <3>1. \/ state' = "Eof" /\ checksum_bytes' = checksum_bytes
          \/ state' = "Checksum" /\ checksum_bytes' = <<>>
      BY Zenon
    <3>2. state' \in State
      BY <3>1, Zenon DEF State
    <3>3. checksum_bytes \in Seq(Byte) /\ <<>> \in Seq(Byte)
      BY DEF StateOK
    <3>4. QED
      BY <3>1, <3>2, <3>3, Zenon
  <2>3. QED
    BY <2>1, <2>2 DEF StateOK
<1>2. AttemptInv'
  BY SizeAssumption, EofCountValues, SMTT(30)
  DEF StateOK, AttemptInv, EofPadded, InAttempt, InTrailer, TrueDataEnd
<1>3. EofPadded'
  BY DEF EofPadded
<1>4. QED
  BY <1>1, <1>2, <1>3

\* A byte in the place of the second EOF keeps it.
LEMMA InjectBadPadInv ==
    ASSUME DecoderInv, NEW ch \in Byte, InjectBadPad(ch)
    PROVE  DecoderInv'
<1>1. Append(raw, ch) \in Seq(Byte) /\ Len(Append(raw, ch)) <= RAW_BUF_CAP
  BY SizeAssumption DEF InjectBadPad, Accepts, DecoderInv, StateOK
<1>2. resolve_raw(Append(raw, ch))
  BY DEF InjectBadPad
<1>3. StateOK'
  BY <1>1, <1>2
  DEF InjectBadPad, DecoderInv, StateOK, State, resolve_raw, attemptVars, timerVars
<1>4. QED
  BY <1>1, <1>2, <1>3, ResolveRawInv

\* A data byte keeps it.
LEMMA InjectDataInv ==
    ASSUME DecoderInv, NEW ch \in Byte, InjectData(ch)
    PROVE  DecoderInv'
<1> USE DEF DecoderInv, InjectData, Accepts, Entry, attemptVars, timerVars
<1>1. StateOK'
  BY DEF StateOK, State
<1>2. AttemptInv'
  BY SizeAssumption DEF StateOK, AttemptInv, InAttempt, InTrailer
<1>3. EofPadded'
  BY DEF EofPadded
<1>4. QED
  BY <1>1, <1>2, <1>3

\* A byte outside a frame keeps it.
LEMMA InjectIdleInv ==
    ASSUME DecoderInv, NEW ch \in Byte, InjectIdle(ch)
    PROVE  DecoderInv'
<1>1. Append(raw, ch) \in Seq(Byte) /\ Len(Append(raw, ch)) <= RAW_BUF_CAP
  BY SizeAssumption DEF InjectIdle, Accepts, DecoderInv, StateOK
<1>2. resolve_raw(Append(raw, ch))
  BY DEF InjectIdle
<1>3. StateOK'
  BY <1>1, <1>2
  DEF InjectIdle, DecoderInv, StateOK, State, resolve_raw, attemptVars, timerVars
<1>4. QED
  BY <1>1, <1>2, <1>3, ResolveRawInv

\* The four ways a checksum byte goes: more to come, frame decoded, process
\* gone, frame recovered as raw content.
LEMMA InjectChecksumInv ==
    ASSUME DecoderInv, NEW ch \in Byte, InjectChecksum(ch)
    PROVE  DecoderInv'
<1> DEFINE bytes == Append(raw, ch)
           check == Append(checksum_bytes, ch)
<1>1. /\ Len(raw) < RAW_BUF_CAP
      /\ state = "Checksum"
      /\ UNCHANGED <<data_end, data_len, running, drop_count>>
      /\ UNCHANGED <<open_len_at_last_tick, since_progress>>
  BY DEF InjectChecksum, Accepts, Entry, timerVars
<1>2. /\ bytes \in Seq(Byte) /\ Len(bytes) = Len(raw) + 1
      /\ Len(bytes) <= RAW_BUF_CAP
      /\ \A i \in 1 .. Len(raw) : bytes[i] = raw[i]
      /\ check \in Seq(Byte) /\ Len(check) = Len(checksum_bytes) + 1
  BY <1>1, SizeAssumption DEF DecoderInv, StateOK
<1>3. CASE /\ ~(Len(check) >= CHECKSUM_LEN)
           /\ raw' = bytes
           /\ checksum_bytes' = check
           /\ UNCHANGED <<state, raw_head, frames, panicked>>
  <2>1. StateOK'
    BY <1>1, <1>2, <1>3 DEF DecoderInv, StateOK
  <2>2. TrueDataEnd' = TrueDataEnd
    BY <1>1, <1>2, <1>3, EofCountValues DEF DecoderInv, StateOK, TrueDataEnd
  <2>3. AttemptInv'
    <3>1. TrueDataEnd >= raw_head + 2
      BY <1>1 DEF DecoderInv, AttemptInv, InTrailer
    <3>2. QED
      BY <1>1, <1>2, <1>3, <2>2, <3>1, SizeAssumption
      DEF DecoderInv, StateOK, AttemptInv, InAttempt, InTrailer
  <2>4. EofPadded'
    BY <1>1, <1>3 DEF EofPadded
  <2>5. QED
    BY <2>1, <2>3, <2>4 DEF DecoderInv
<1>4. CASE /\ resolve_success(bytes)
           /\ checksum_bytes' = check
           /\ UNCHANGED panicked
  <2>1. raw_head \in Nat /\ raw_head < Len(bytes)
    BY <1>1, <1>2 DEF DecoderInv, StateOK, AttemptInv
  <2>2. raw' \in Seq(Byte) /\ Len(raw') = raw_head
    BY <1>2, <1>4, <2>1, SubSeqProperties DEF resolve_success
  <2>3. StateOK'
    BY <1>1, <1>2, <1>4, <2>2 DEF resolve_success, DecoderInv, StateOK, State
  <2>4. AttemptInv'
    BY <1>4, <2>1, <2>2, <1>2, SizeAssumption
    DEF resolve_success, AttemptInv, InAttempt, InTrailer
  <2>5. EofPadded'
    BY <1>4 DEF resolve_success, EofPadded
  <2>6. QED
    BY <2>3, <2>4, <2>5 DEF DecoderInv
<1>5. CASE /\ panicked' = TRUE
           /\ UNCHANGED <<state, raw, raw_head, checksum_bytes, frames>>
  <2>1. panicked' \in BOOLEAN
    BY <1>5, Zenon
  <2>2. StateOK'
    BY <1>1, <1>5, <2>1 DEF DecoderInv, StateOK
  <2>3. AttemptInv' /\ EofPadded'
    BY <1>1, <1>5
    DEF DecoderInv, AttemptInv, EofPadded, InAttempt, InTrailer, TrueDataEnd
  <2>4. QED
    BY <2>2, <2>3 DEF DecoderInv
<1>6. CASE /\ resolve_raw(bytes)
           /\ checksum_bytes' = check
           /\ UNCHANGED <<frames, panicked>>
  <2>1. StateOK'
    BY <1>1, <1>2, <1>6 DEF resolve_raw, DecoderInv, StateOK, State
  <2>2. QED
    BY <1>2, <1>6, <2>1, ResolveRawInv
<1>7. QED
  BY <1>3, <1>4, <1>5, <1>6 DEF InjectChecksum

\* inject keeps the inductive invariant, whatever the byte.
LEMMA InjectInv ==
    ASSUME DecoderInv, NEW ch \in Byte, inject(ch)
    PROVE  DecoderInv'
BY InjectOverflowInv, SwallowTrailerInv, InjectChecksumInv, InjectSofInv,
   InjectTypeInv, InjectEscInv, InjectEofInv, InjectBadPadInv, InjectDataInv,
   InjectIdleInv DEF inject

-----------------------------------------------------------------------------
(* tick, get and the clock.                                                *)

\* tick keeps it.
LEMMA TickInv ==
    ASSUME DecoderInv, tick
    PROVE  DecoderInv'
<1>1. CASE OpenLen # open_len_at_last_tick
  <2>1. StateOK'
    BY <1>1, SizeAssumption
    DEF tick, OpenLen, DecoderInv, StateOK, AttemptInv, attemptVars, timerVars
  <2>2. AttemptInv' /\ EofPadded'
    BY <1>1 DEF tick, attemptVars, DecoderInv, AttemptInv, EofPadded, InAttempt,
       InTrailer, TrueDataEnd
  <2>3. QED
    BY <2>1, <2>2 DEF DecoderInv
<1>2. CASE OpenLen = open_len_at_last_tick /\ TickExpires
  <2>1. resolve_raw(raw) /\ UNCHANGED <<attemptVars, drop_count, timerVars, panicked>>
    BY <1>2 DEF tick
  <2>2. StateOK'
    BY <2>1
    DEF resolve_raw, DecoderInv, StateOK, State, attemptVars, timerVars
  <2>3. QED
    BY <2>1, <2>2, ResolveRawInv DEF DecoderInv, StateOK, AttemptInv
<1>3. CASE OpenLen = open_len_at_last_tick /\ ~TickExpires
  <2>1. UNCHANGED decoderVars
    BY <1>3 DEF tick, decoderVars
  <2>2. QED
    BY <2>1 DEF decoderVars, attemptVars, timerVars, DecoderInv, StateOK,
       AttemptInv, EofPadded, InAttempt, InTrailer, TrueDataEnd
<1>4. QED
  BY <1>1, <1>2, <1>3

\* get keeps it: draining settled bytes moves the open attempt as it is.
LEMMA GetInv ==
    ASSUME DecoderInv, get
    PROVE  DecoderInv'
<1>1. CASE frames # <<>>
  <2>1. StateOK'
    BY <1>1 DEF get, DecoderInv, StateOK, attemptVars, timerVars
  <2>2. AttemptInv' /\ EofPadded'
    BY <1>1 DEF get, attemptVars, DecoderInv, AttemptInv, EofPadded, InAttempt,
       InTrailer, TrueDataEnd
  <2>3. QED
    BY <2>1, <2>2 DEF DecoderInv
<1>2. CASE frames = <<>>
  <2>1. /\ raw' \in Seq(Byte)
        /\ Len(raw') = Len(raw) - raw_head
        /\ \A i \in 1 .. Len(raw') : raw'[i] = raw[raw_head + i]
        /\ raw_head' = 0
    <3>1. raw' = SubSeq(raw, raw_head + 1, Len(raw)) /\ raw_head' = 0
      BY <1>2 DEF get
    <3>2. raw \in Seq(Byte) /\ raw_head \in Nat /\ raw_head <= Len(raw)
      BY DEF DecoderInv, StateOK, AttemptInv
    <3>3. QED
      BY <3>1, <3>2, DrainSettled
  <2>2. UNCHANGED <<state, attemptVars, drop_count, timerVars, panicked>>
    BY DEF get
  <2>3. StateOK'
    BY <2>1, <2>2 DEF DecoderInv, StateOK, attemptVars, timerVars
  <2>4. EofPadded'
    BY <2>2 DEF DecoderInv, EofPadded, attemptVars
  <2>5. AttemptInv'
    <3>1. InTrailer => TrueDataEnd' = TrueDataEnd - raw_head
      <4>1. /\ Len(raw) \in Nat /\ raw_head \in Nat
            /\ Len(checksum_bytes) \in Nat /\ EofCount(data_len) \in Nat
        BY EofCountValues DEF DecoderInv, StateOK
      <4>2. /\ state' = state /\ data_len' = data_len
            /\ checksum_bytes' = checksum_bytes
        BY <2>2 DEF attemptVars
      <4>3. EofCount(data_len)' = EofCount(data_len)
        BY <4>2 DEF EofCount
      <4>4. QED
        BY <2>1, <4>1, <4>2, <4>3 DEF TrueDataEnd
    <3>2. InTrailer => TrueDataEnd \in Int /\ TrueDataEnd >= raw_head + 2
      BY EofCountValues DEF DecoderInv, StateOK, AttemptInv, TrueDataEnd
    <3>3. InTrailer' => TrueDataEnd' >= raw_head' + 2
      BY <2>1, <2>2, <3>1, <3>2 DEF DecoderInv, StateOK, InTrailer
    <3>4. QED
      BY <2>1, <2>2, <3>3, SizeAssumption
      DEF DecoderInv, StateOK, AttemptInv, InAttempt, attemptVars
  <2>6. QED
    BY <2>3, <2>4, <2>5 DEF DecoderInv
<1>3. QED
  BY <1>1, <1>2

\* The clock keeps it.
LEMMA ClockInv ==
    ASSUME DecoderInv, ClockAdvances
    PROVE  DecoderInv'
<1>1. StateOK'
  BY SizeAssumption DEF ClockAdvances, DecoderInv, StateOK, attemptVars
<1>2. AttemptInv' /\ EofPadded'
  BY DEF ClockAdvances, attemptVars, DecoderInv, AttemptInv, EofPadded,
     InAttempt, InTrailer, TrueDataEnd
<1>3. QED
  BY <1>1, <1>2 DEF DecoderInv

\* A step that changes nothing keeps it.
LEMMA StutterInv ==
    ASSUME DecoderInv, UNCHANGED decoderVars
    PROVE  DecoderInv'
BY DEF decoderVars, attemptVars, timerVars, DecoderInv, StateOK, AttemptInv,
   EofPadded, InAttempt, InTrailer, TrueDataEnd

\* Every step of the decoder keeps the inductive invariant.
LEMMA DecoderInvStep ==
    DecoderInv /\ [DecoderNext]_decoderVars => DecoderInv'
BY InjectInv, TickInv, GetInv, ClockInv, StutterInv DEF DecoderNext

\* Whatever bytes arrive, and however they interleave with ticks and fetches,
\* the decoder's buffer keeps its shape: its variables have their types, raw
\* stays within its capacity and holds settled bytes followed by at most one
\* open attempt, in the form its state says.
THEOREM DecoderInvariant == DecoderSpec => [](StateOK /\ AttemptInv)
<1>1. DecoderSpec => []DecoderInv
  BY DecoderInvInit, DecoderInvStep, PTL DEF DecoderSpec
<1>2. DecoderInv => StateOK /\ AttemptInv
  BY DEF DecoderInv
<1>3. QED
  BY <1>1, <1>2, PTL

-----------------------------------------------------------------------------
(* data_end.                                                               *)

DataInv == DataEndOK /\ ~panicked

\* Bytes injected while a frame waits for its trailer leave data_end and the
\* place it stands for alone; the EOF that ends DATA sets it right.
LEMMA InjectDataEnd ==
    ASSUME DecoderInv, DataInv, NEW ch \in Byte, inject(ch)
    PROVE  DataInv'
<1> USE DEF DataInv, DataEndOK, InTrailer
<1>1. CASE InjectOverflow(ch)
  BY <1>1 DEF InjectOverflow, resolve_raw
<1>2. CASE SwallowTrailer(ch)
  BY <1>2 DEF SwallowTrailer, IsTrailer
<1>3. CASE InjectChecksum(ch)
  <2> DEFINE bytes == Append(raw, ch)
             check == Append(checksum_bytes, ch)
  <2>1. state = "Checksum" /\ data_end' = data_end /\ data_len' = data_len
    BY <1>3 DEF InjectChecksum, Entry
  <2>2. /\ Len(bytes) = Len(raw) + 1 /\ Len(raw) \in Nat
        /\ Len(check) = Len(checksum_bytes) + 1 /\ Len(checksum_bytes) \in Nat
        /\ EofCount(data_len) \in {1, 2}
    BY EofCountValues DEF DecoderInv, StateOK
  <2>3. data_end = Len(raw) - Len(checksum_bytes) - EofCount(data_len)
    BY <2>1 DEF TrueDataEnd
  <2>4. ~DecodePanics(bytes)
    <3>1. data_end < Len(bytes)
      BY <2>2, <2>3
    <3>2. data_end \in Nat /\ Len(bytes) \in Nat
      BY <2>2 DEF DecoderInv, StateOK
    <3>3. QED
      BY <3>1, <3>2 DEF DecodePanics
  <2>5. CASE raw' = bytes /\ checksum_bytes' = check /\ UNCHANGED <<state, panicked>>
    <3>1. EofCount(data_len)' = EofCount(data_len)
      BY <2>1 DEF EofCount
    <3>2. QED
      BY <2>1, <2>2, <2>3, <2>5, <3>1 DEF TrueDataEnd
  <2>6. CASE resolve_success(bytes) /\ UNCHANGED panicked
    BY <2>6 DEF resolve_success
  <2>7. CASE resolve_raw(bytes) /\ UNCHANGED panicked
    BY <2>7 DEF resolve_raw
  <2>8. QED
    BY <1>3, <2>4, <2>5, <2>6, <2>7 DEF InjectChecksum
<1>4. CASE InjectSof(ch)
  BY <1>4 DEF InjectSof, OpenAttempt
<1>5. CASE InjectType(ch)
  BY <1>5 DEF InjectType, resolve_raw
<1>6. CASE InjectEsc(ch)
  BY <1>6 DEF InjectEsc
<1>7. CASE InjectEof(ch)
  <2>1. /\ state \in {"Data", "Eof"} /\ Entry = state
        /\ raw' = Append(raw, ch) /\ data_len' = data_len
        /\ panicked' = panicked
    BY <1>7 DEF InjectEof, Entry
  <2>2. Len(raw') = Len(raw) + 1 /\ Len(raw) \in Nat
    BY <2>1 DEF DecoderInv, StateOK
  <2>3. EofCount(data_len)' = EofCount(data_len) /\ EofCount(data_len) \in {1, 2}
    BY <2>1, EofCountValues DEF EofCount
  <2>4. CASE state = "Data" /\ EofCount(data_len) = 2
    <3>1. state' = "Eof" /\ data_end' = Len(raw)
      BY <1>7, <2>1, <2>4 DEF InjectEof
    <3>2. QED
      BY <2>1, <2>2, <3>1 DEF TrueDataEnd
  <2>5. CASE state = "Data" /\ EofCount(data_len) # 2
    <3>1. state' = "Checksum" /\ data_end' = Len(raw) /\ checksum_bytes' = <<>>
      BY <1>7, <2>1, <2>5 DEF InjectEof
    <3>2. QED
      BY <2>1, <2>2, <2>3, <2>5, <3>1 DEF TrueDataEnd
  <2>6. CASE state = "Eof"
    <3>1. state' = "Checksum" /\ data_end' = data_end /\ checksum_bytes' = <<>>
      BY <1>7, <2>1, <2>6 DEF InjectEof
    <3>2. data_end = Len(raw) - 1 /\ EofCount(data_len) = 2
      BY <2>6 DEF TrueDataEnd, DecoderInv, EofPadded
    <3>3. QED
      BY <2>1, <2>2, <2>3, <3>1, <3>2 DEF TrueDataEnd
  <2>7. QED
    BY <2>1, <2>4, <2>5, <2>6
<1>8. CASE InjectBadPad(ch)
  BY <1>8 DEF InjectBadPad, resolve_raw
<1>9. CASE InjectData(ch)
  BY <1>9 DEF InjectData
<1>10. CASE InjectIdle(ch)
  BY <1>10 DEF InjectIdle, resolve_raw
<1>11. QED
  BY <1>1, <1>2, <1>3, <1>4, <1>5, <1>6, <1>7, <1>8, <1>9, <1>10 DEF inject

\* Every step of a decoder whose caller does not fetch settled bytes inside a
\* trailer keeps data_end right.
LEMMA DataInvStep ==
    ASSUME DecoderInv, DataInv, [DecoderNext]_decoderVars,
           [FetchOutsideTrailer]_decoderVars
    PROVE  DataInv'
<1>1. CASE UNCHANGED decoderVars
  BY <1>1 DEF decoderVars, attemptVars, DataInv, DataEndOK, InTrailer,
     TrueDataEnd
<1>2. ASSUME NEW ch \in Byte, inject(ch) PROVE DataInv'
  BY <1>2, InjectDataEnd
<1>3. CASE tick
  <2>1. UNCHANGED <<attemptVars, panicked>>
    BY <1>3 DEF tick
  <2>2. state' = "Idle" \/ UNCHANGED <<state, raw>>
    BY <1>3 DEF tick, resolve_raw
  <2>3. QED
    BY <2>1, <2>2 DEF attemptVars, DataInv, DataEndOK, InTrailer, TrueDataEnd
<1>4. CASE get /\ FetchOutsideTrailer
  <2>1. UNCHANGED <<state, attemptVars, panicked>>
    BY <1>4 DEF get
  <2>2. CASE frames # <<>>
    <3>1. raw' = raw
      BY <1>4, <2>2 DEF get
    <3>2. QED
      BY <2>1, <3>1 DEF attemptVars, DataInv, DataEndOK, InTrailer, TrueDataEnd
  <2>3. CASE ~InTrailer
    BY <2>1, <2>3 DEF DataInv, DataEndOK, InTrailer
  <2>4. QED
    BY <1>4, <2>2, <2>3 DEF FetchOutsideTrailer
<1>5. CASE ClockAdvances
  BY <1>5 DEF ClockAdvances, attemptVars, DataInv, DataEndOK, InTrailer,
     TrueDataEnd
<1>6. QED
  BY <1>1, <1>2, <1>3, <1>4, <1>5 DEF DecoderNext

\* A caller that takes settled bytes only outside the trailer of a frame is
\* safe: data_end is where DATA ends, and decoding never indexes outside raw.
THEOREM DataEndInvariant ==
    DecoderSpec /\ [][FetchOutsideTrailer]_decoderVars => [](DataEndOK /\ NoPanic)
<1>1. DecoderInit => DecoderInv /\ DataInv
  <2>1. DecoderInit => DataInv
    BY DEF DecoderInit, DataInv, DataEndOK, InTrailer
  <2>2. QED
    BY <2>1, DecoderInvInit
<1>2. /\ DecoderInv /\ DataInv
      /\ [DecoderNext]_decoderVars /\ [FetchOutsideTrailer]_decoderVars
      => (DecoderInv /\ DataInv)'
  BY DecoderInvStep, DataInvStep
<1>3. DataInv => DataEndOK /\ NoPanic
  BY DEF DataInv, NoPanic
<1>4. QED
  BY <1>1, <1>2, <1>3, PTL DEF DecoderSpec

-----------------------------------------------------------------------------
(* What the decoder decodes: the checksum computed on the fly covers the   *)
(* data that resolve_success decodes a second time, and only a frame whose *)
(* checksum fits, or is a sentinel, is delivered.                          *)

Check == INSTANCE FoldTheorems WITH op <- CsumUpdate, base <- CsumNew
Undo == INSTANCE FoldTheorems WITH op <- UnescapeStep, base <- Nothing

Unescaped == [out : Seq(Byte), esc : BOOLEAN]

-----------------------------------------------------------------------------
(* Unescape and RunOver, byte by byte.                                     *)

\* Nothing unescapes to nothing.
LEMMA UnescapeEmpty == Unescape(<<>>) = Nothing
BY Undo!FoldEmpty, Zenon
DEF Unescape, Undo!Fold, Undo!FoldLeft, Undo!MapThenFoldSet, Undo!Max, FoldLeft,
    MapThenFoldSet, Max

\* One more byte is one more step.
LEMMA UnescapeAppend ==
    ASSUME NEW s \in Seq(Byte), NEW b \in Byte
    PROVE  Unescape(Append(s, b)) = UnescapeStep(Unescape(s), b)
<1>1. Undo!Fold(Append(s, b)) = UnescapeStep(Undo!Fold(s), b)
  BY Undo!FoldAppend
<1>2. QED
  BY <1>1, Zenon
  DEF Unescape, Undo!Fold, Undo!FoldLeft, Undo!MapThenFoldSet, Undo!Max, FoldLeft,
      MapThenFoldSet, Max

\* What an escaped byte stands for is a byte.
LEMMA UnescapeByteType == \A b \in Byte : unescape_byte(b) \in Byte
BY ByteAssumption DEF unescape_byte

\* Bytes unescape to bytes.
LEMMA UnescapeType == \A s \in Seq(Byte) : Unescape(s) \in Unescaped
<1>1. Nothing \in Unescaped
  BY DEF Nothing, Unescaped
<1>2. ASSUME NEW v \in Unescaped, NEW b \in Byte
      PROVE  UnescapeStep(v, b) \in Unescaped
  <2>1. v.out \in Seq(Byte) /\ v.esc \in BOOLEAN
    BY DEF Unescaped
  <2>2. Append(v.out, unescape_byte(b)) \in Seq(Byte) /\ Append(v.out, b) \in Seq(Byte)
    BY <2>1, UnescapeByteType
  <2>3. \A o \in Seq(Byte), e \in BOOLEAN : [out |-> o, esc |-> e] \in Unescaped
    BY DEF Unescaped
  <2>4. QED
    BY <2>1, <2>2, <2>3, Zenon DEF UnescapeStep
<1>3. \A s \in Seq(Byte) : Undo!Fold(s) \in Unescaped
  BY <1>1, <1>2, Undo!FoldType
<1>4. QED
  BY <1>3, Zenon
  DEF Unescape, Undo!Fold, Undo!FoldLeft, Undo!MapThenFoldSet, Undo!Max, FoldLeft,
      MapThenFoldSet, Max

\* The checksum over a byte string.
Csum(bytes) == FoldLeft(CsumUpdate, CsumNew, bytes)

\* Running::new is the checksum over nothing.
LEMMA CsumEmpty == Csum(<<>>) = CsumNew
BY Check!FoldEmpty, Zenon
DEF Csum, Check!Fold, Check!FoldLeft, Check!MapThenFoldSet, Check!Max, FoldLeft,
    MapThenFoldSet, Max

\* Running::update extends it by one byte.
LEMMA CsumAppend ==
    ASSUME NEW s \in Seq(Byte), NEW b \in Byte
    PROVE  Csum(Append(s, b)) = CsumUpdate(Csum(s), b)
<1>1. Check!Fold(Append(s, b)) = CsumUpdate(Check!Fold(s), b)
  BY Check!FoldAppend
<1>2. QED
  BY <1>1, Zenon
  DEF Csum, Check!Fold, Check!FoldLeft, Check!MapThenFoldSet, Check!Max, FoldLeft,
      MapThenFoldSet, Max

\* The checksum of a frame starts with SOF and the type, ...
LEMMA RunStart ==
    ASSUME NEW t \in Byte
    PROVE  RunOver(t, <<>>, 0) = CsumUpdate(CsumUpdate(CsumNew, SOF), t)
<1>1. SOF \in Byte
  BY ByteAssumption
<1>2. /\ <<SOF, t>> \o <<>> \o Eofs(0) = Append(Append(<<>>, SOF), t)
      /\ <<>> \in Seq(Byte) /\ Append(<<>>, SOF) \in Seq(Byte)
  BY <1>1 DEF Eofs
<1>3. RunOver(t, <<>>, 0) = Csum(Append(Append(<<>>, SOF), t))
  BY <1>2, Zenon DEF RunOver, Csum
<1>4. QED
  BY <1>1, <1>2, <1>3, CsumEmpty, CsumAppend

\* ... goes on with every byte of the data ...
LEMMA RunData ==
    ASSUME NEW t \in Byte, NEW d \in Seq(Byte), NEW b \in Byte
    PROVE  RunOver(t, Append(d, b), 0) = CsumUpdate(RunOver(t, d, 0), b)
<1> DEFINE s == <<SOF, t>> \o d \o Eofs(0)
<1>1. SOF \in Byte /\ Eofs(0) = <<>>
  BY ByteAssumption DEF Eofs
<1>2. <<SOF, t>> \o d \in Seq(Byte) /\ s = <<SOF, t>> \o d
  BY <1>1
<1>3. <<SOF, t>> \o Append(d, b) \o Eofs(0) = Append(s, b)
  BY <1>1
<1> HIDE DEF s
<1>4. RunOver(t, Append(d, b), 0) = Csum(Append(s, b)) /\ RunOver(t, d, 0) = Csum(s)
  BY <1>3, Zenon DEF RunOver, Csum, s
<1>5. QED
  BY <1>2, <1>4, CsumAppend

\* ... and ends with the EOFs.
LEMMA RunEof ==
    ASSUME NEW t \in Byte, NEW d \in Seq(Byte), NEW n \in Nat
    PROVE  RunOver(t, d, n + 1) = CsumUpdate(RunOver(t, d, n), EOF)
<1> DEFINE s == <<SOF, t>> \o d \o Eofs(n)
<1>1. SOF \in Byte /\ EOF \in Byte
  BY ByteAssumption
<1>2. Eofs(n) \in Seq(Byte) /\ Eofs(n + 1) = Append(Eofs(n), EOF)
  BY <1>1 DEF Eofs
<1>3. <<SOF, t>> \o d \in Seq(Byte)
  BY <1>1
<1>4. s \in Seq(Byte)
  BY <1>2, <1>3
<1>5. <<SOF, t>> \o d \o Eofs(n + 1) = Append(s, EOF)
  <2> DEFINE p == <<SOF, t>> \o d
  <2> HIDE DEF p
  <2>1. p \o Append(Eofs(n), EOF) = Append(p \o Eofs(n), EOF)
    BY <1>1, <1>2, <1>3 DEF p
  <2>2. QED
    BY <1>2, <2>1 DEF p
<1> HIDE DEF s
<1>6. RunOver(t, d, n + 1) = Csum(Append(s, EOF)) /\ RunOver(t, d, n) = Csum(s)
  BY <1>5, Zenon DEF RunOver, Csum, s
<1>7. QED
  BY <1>1, <1>4, <1>6, CsumAppend

-----------------------------------------------------------------------------
(* Sub-sequences of raw.                                                   *)

\* Appending leaves the part before alone ...
LEMMA PartOfAppend ==
    ASSUME NEW s \in Seq(Byte), NEW b \in Byte, NEW i \in Nat \ {0}, NEW j \in Nat,
           j <= Len(s)
    PROVE  SubSeq(Append(s, b), i, j) = SubSeq(s, i, j)
OBVIOUS

\* ... and is an append to the part that reaches the end.
LEMMA RestOfAppend ==
    ASSUME NEW s \in Seq(Byte), NEW b \in Byte, NEW i \in 1 .. Len(s) + 1
    PROVE  SubSeq(Append(s, b), i, Len(s) + 1) = Append(SubSeq(s, i, Len(s)), b)
OBVIOUS

\* The part of a part.
LEMMA PartOfRest ==
    ASSUME NEW s \in Seq(Byte), NEW h \in 0 .. Len(s), NEW i \in Nat \ {0},
           NEW j \in 0 .. Len(s) - h
    PROVE  SubSeq(SubSeq(s, h + 1, Len(s)), i, j) = SubSeq(s, h + i, h + j)
OBVIOUS

\* Parts are sequences of bytes.
LEMMA PartType ==
    ASSUME NEW s \in Seq(Byte), NEW i \in Nat \ {0}, NEW j \in Nat, j <= Len(s)
    PROVE  SubSeq(s, i, j) \in Seq(Byte)
OBVIOUS

-----------------------------------------------------------------------------
(* The checksum of an open attempt, as a function of its bytes.            *)

\* run and len are the checksum and the length of the data that bytes stand
\* for, of a frame of type t; the bytes end inside an escape if esc.
DataCovered(esc, bytes, t, run, len) ==
    /\ Unescape(bytes).esc = esc
    /\ len = Len(Unescape(bytes).out)
    /\ run = RunOver(t, Unescape(bytes).out, 0)

\* The same with n EOFs after the data.
TrailerCovered(bytes, t, run, len, n) ==
    /\ ~Unescape(bytes).esc
    /\ len = Len(Unescape(bytes).out)
    /\ run = RunOver(t, Unescape(bytes).out, n)

\* After SOF and the type there is no data yet.
LEMMA CoverStart ==
    ASSUME NEW t \in Byte
    PROVE  DataCovered(FALSE, <<>>, t, CsumUpdate(CsumUpdate(CsumNew, SOF), t), 0)
<1>1. Unescape(<<>>).esc = FALSE /\ Unescape(<<>>).out = <<>>
  BY UnescapeEmpty DEF Nothing
<1>2. QED
  BY <1>1, RunStart DEF DataCovered

\* ESC is not part of the data.
LEMMA CoverEsc ==
    ASSUME NEW s \in Seq(Byte), NEW t \in Byte, NEW run, NEW len,
           DataCovered(FALSE, s, t, run, len)
    PROVE  DataCovered(TRUE, Append(s, ESC), t, run, len)
<1>1. ESC \in Byte
  BY ByteAssumption
<1>2. Unescape(Append(s, ESC)) = [out |-> Unescape(s).out, esc |-> TRUE]
  BY <1>1, UnescapeAppend DEF DataCovered, UnescapeStep
<1>3. QED
  BY <1>2 DEF DataCovered

\* Any other byte is, as it is or unescaped.
LEMMA CoverData ==
    ASSUME NEW s \in Seq(Byte), NEW t \in Byte, NEW run, NEW len, NEW b \in Byte,
           NEW esc \in BOOLEAN, DataCovered(esc, s, t, run, len), esc \/ b # ESC
    PROVE  DataCovered(FALSE, Append(s, b), t,
                       CsumUpdate(run, IF esc THEN unescape_byte(b) ELSE b), len + 1)
<1> DEFINE c == IF esc THEN unescape_byte(b) ELSE b
           d == Unescape(s).out
<1>1. c \in Byte /\ d \in Seq(Byte)
  BY UnescapeByteType, UnescapeType DEF Unescaped
<1>2. Unescape(Append(s, b)) = [out |-> Append(d, c), esc |-> FALSE]
  BY UnescapeAppend, Zenon DEF DataCovered, UnescapeStep
<1>3. len = Len(d) /\ run = RunOver(t, d, 0)
  BY DEF DataCovered
<1> HIDE DEF c, d
<1>4. Len(Append(d, c)) = Len(d) + 1
  BY <1>1
<1>5. RunOver(t, Append(d, c), 0) = CsumUpdate(run, c)
  BY <1>1, <1>3, RunData
<1>6. DataCovered(FALSE, Append(s, b), t, CsumUpdate(run, c), len + 1)
  BY <1>2, <1>3, <1>4, <1>5 DEF DataCovered
<1>7. QED
  BY <1>6 DEF c

\* The first EOF.
LEMMA CoverEof ==
    ASSUME NEW s \in Seq(Byte), NEW t \in Byte, NEW run, NEW len,
           DataCovered(FALSE, s, t, run, len)
    PROVE  TrailerCovered(s, t, CsumUpdate(run, EOF), len, 1)
<1>1. Unescape(s).out \in Seq(Byte)
  BY UnescapeType DEF Unescaped
<1>2. RunOver(t, Unescape(s).out, 0 + 1) = CsumUpdate(run, EOF)
  BY <1>1, RunEof DEF DataCovered
<1>3. QED
  BY <1>2 DEF DataCovered, TrailerCovered

\* The second.
LEMMA CoverPad ==
    ASSUME NEW s \in Seq(Byte), NEW t \in Byte, NEW run, NEW len,
           TrailerCovered(s, t, run, len, 1)
    PROVE  TrailerCovered(s, t, CsumUpdate(run, EOF), len, 2)
<1>1. Unescape(s).out \in Seq(Byte)
  BY UnescapeType DEF Unescaped
<1>2. RunOver(t, Unescape(s).out, 1 + 1) = CsumUpdate(run, EOF)
  BY <1>1, RunEof DEF TrailerCovered
<1>3. QED
  BY <1>2 DEF TrailerCovered

-----------------------------------------------------------------------------
(* The invariant.                                                          *)

DataPart == SubSeq(raw, raw_head + 3, Len(raw))
TypeByte == raw[raw_head + 2]

SofOK == state = "Sof" => running = CsumUpdate(CsumNew, SOF) /\ data_len = 0

DataOK == state \in {"Data", "DataEsc"} =>
            DataCovered(state = "DataEsc", DataPart, TypeByte, running, data_len)

TrailerOK == InTrailer =>
    TrailerCovered(SubSeq(raw, raw_head + 3, TrueDataEnd), TypeByte, running, data_len,
                   IF state = "Eof" THEN 1 ELSE EofCount(data_len))

\* What ChecksumCovers needs of the state before the type byte.
CoverInv == SofOK /\ DataOK /\ TrailerOK

\* CoverInv implies the invariant it is for.
LEMMA CoverInvSuffices == CoverInv => ChecksumCovers
BY DEF CoverInv, DataOK, TrailerOK, DataPart, TypeByte, DataCovered, TrailerCovered,
   ChecksumCovers

\* The indices of an attempt that has its type byte.
LEMMA AttemptIndices ==
    ASSUME DecoderInv, state \in {"Data", "DataEsc", "Eof", "Checksum"}
    PROVE  /\ raw \in Seq(Byte) /\ Len(raw) \in Nat /\ raw_head \in Nat
           /\ Len(raw) >= raw_head + 2
           /\ raw_head + 3 \in 1 .. Len(raw) + 1
           /\ TypeByte \in Byte
           /\ DataPart \in Seq(Byte)
           /\ InTrailer => /\ TrueDataEnd \in Nat /\ TrueDataEnd < Len(raw)
                           /\ TrueDataEnd >= raw_head + 2
<1>1. raw \in Seq(Byte) /\ Len(raw) \in Nat /\ raw_head \in Nat
      /\ Len(checksum_bytes) \in Nat
  BY DEF DecoderInv, StateOK
<1>2. InTrailer => /\ TrueDataEnd \in Int /\ TrueDataEnd < Len(raw)
                   /\ TrueDataEnd >= raw_head + 2
  BY <1>1, EofCountValues DEF DecoderInv, AttemptInv, TrueDataEnd, InTrailer
<1>3. Len(raw) >= raw_head + 2
  BY <1>1, <1>2 DEF DecoderInv, AttemptInv, InTrailer
<1>4. TypeByte \in Byte
  BY <1>1, <1>3 DEF TypeByte
<1>5. DataPart \in Seq(Byte)
  BY <1>1, PartType DEF DataPart
<1>6. QED
  BY <1>1, <1>2, <1>3, <1>4, <1>5

\* A byte appended to such an attempt leaves what is there alone.
LEMMA AttemptGrows ==
    ASSUME DecoderInv, state \in {"Data", "DataEsc", "Eof", "Checksum"},
           NEW ch \in Byte, raw' = Append(raw, ch), raw_head' = raw_head
    PROVE  /\ Len(raw') = Len(raw) + 1
           /\ TypeByte' = TypeByte
           /\ DataPart' = Append(DataPart, ch)
           /\ \A j \in Nat : j <= Len(raw) =>
                SubSeq(raw', raw_head' + 3, j) = SubSeq(raw, raw_head + 3, j)
<1>1. /\ raw \in Seq(Byte) /\ Len(raw) \in Nat /\ raw_head \in Nat
      /\ Len(raw) >= raw_head + 2
      /\ raw_head + 3 \in 1 .. Len(raw) + 1
  BY AttemptIndices
<1>2. Len(raw') = Len(raw) + 1 /\ TypeByte' = TypeByte
  BY <1>1 DEF TypeByte
<1>3. SubSeq(Append(raw, ch), raw_head + 3, Len(raw) + 1)
        = Append(SubSeq(raw, raw_head + 3, Len(raw)), ch)
  BY <1>1, RestOfAppend
<1>4. DataPart' = Append(DataPart, ch)
  BY <1>2, <1>3 DEF DataPart
<1>5. ASSUME NEW j \in Nat, j <= Len(raw)
      PROVE  SubSeq(raw', raw_head' + 3, j) = SubSeq(raw, raw_head + 3, j)
  <2>1. raw_head + 3 \in Nat \ {0}
    BY <1>1
  <2>2. SubSeq(Append(raw, ch), raw_head + 3, j) = SubSeq(raw, raw_head + 3, j)
    BY <1>1, <1>5, <2>1, PartOfAppend
  <2>3. QED
    BY <2>2
<1>6. QED
  BY <1>2, <1>4, <1>5

\* A SOF starts the checksum.
LEMMA InjectSofCovers ==
    ASSUME DecoderInv, NEW ch \in Byte, InjectSof(ch)
    PROVE  CoverInv'
BY DEF InjectSof, OpenAttempt, CoverInv, SofOK, DataOK, TrailerOK, InTrailer

\* The type byte goes into the checksum; no data follows yet.
LEMMA InjectTypeCovers ==
    ASSUME DecoderInv, CoverInv, NEW ch \in Byte, InjectType(ch)
    PROVE  CoverInv'
<1>1. CASE ch = EOF
  <2>1. state' = "Idle"
    BY <1>1 DEF InjectType, resolve_raw
  <2>2. QED
    BY <2>1 DEF CoverInv, SofOK, DataOK, TrailerOK, InTrailer
<1>2. CASE ch # EOF
  <2>1. /\ state = "Sof" /\ state' = "Data" /\ raw' = Append(raw, ch)
        /\ running' = CsumUpdate(running, ch) /\ raw_head' = raw_head
        /\ data_len' = data_len
    BY <1>2 DEF InjectType, Entry
  <2>2. raw \in Seq(Byte) /\ raw_head \in Nat /\ Len(raw) = raw_head + 1
    BY <2>1 DEF DecoderInv, StateOK, AttemptInv
  <2>3. DataPart' = <<>> /\ TypeByte' = ch
    BY <2>1, <2>2 DEF DataPart, TypeByte
  <2>4. running = CsumUpdate(CsumNew, SOF) /\ data_len = 0
    BY <2>1 DEF CoverInv, SofOK
  <2>5. DataCovered(FALSE, <<>>, ch, running', data_len')
    BY <2>1, <2>4, CoverStart
  <2>6. DataOK'
    BY <2>1, <2>3, <2>5 DEF DataOK
  <2>7. QED
    BY <2>1, <2>6 DEF CoverInv, SofOK, TrailerOK, InTrailer
<1>3. QED
  BY <1>1, <1>2

\* The first byte of an escape leaves the checksum alone.
LEMMA InjectEscCovers ==
    ASSUME DecoderInv, CoverInv, NEW ch \in Byte, InjectEsc(ch)
    PROVE  CoverInv'
<1>1. /\ state = "Data" /\ state' = "DataEsc" /\ raw' = Append(raw, ESC) /\ ch = ESC
      /\ raw_head' = raw_head /\ running' = running /\ data_len' = data_len
  BY DEF InjectEsc, Entry, attemptVars
<1>2. DataPart' = Append(DataPart, ESC) /\ TypeByte' = TypeByte
  BY <1>1, ByteAssumption, AttemptGrows
<1>3. DataCovered(FALSE, DataPart, TypeByte, running, data_len)
  BY <1>1 DEF CoverInv, DataOK
<1>4. DataCovered(TRUE, DataPart', TypeByte', running', data_len')
  BY <1>1, <1>2, <1>3, AttemptIndices, CoverEsc
<1>5. DataOK'
  BY <1>1, <1>4 DEF DataOK
<1>6. QED
  BY <1>1, <1>5 DEF CoverInv, SofOK, TrailerOK, InTrailer

\* A data byte goes into the checksum as resolve_success will decode it.
LEMMA InjectDataCovers ==
    ASSUME DecoderInv, CoverInv, NEW ch \in Byte, InjectData(ch)
    PROVE  CoverInv'
<1> DEFINE esc == state = "DataEsc"
<1>1. /\ state \in {"Data", "DataEsc"} /\ state' = "Data" /\ raw' = Append(raw, ch)
      /\ running' = CsumUpdate(running, IF esc THEN unescape_byte(ch) ELSE ch)
      /\ raw_head' = raw_head /\ data_len' = data_len + 1
      /\ esc \/ ch # ESC
  BY DEF InjectData, Entry
<1>2. DataPart' = Append(DataPart, ch) /\ TypeByte' = TypeByte
  BY <1>1, AttemptGrows
<1>3. DataCovered(esc, DataPart, TypeByte, running, data_len) /\ esc \in BOOLEAN
  BY <1>1 DEF CoverInv, DataOK
<1> HIDE DEF esc
<1>4. DataPart \in Seq(Byte) /\ TypeByte \in Byte
  BY <1>1, AttemptIndices
<1>5. DataCovered(FALSE, DataPart', TypeByte', running', data_len')
  BY <1>1, <1>2, <1>3, <1>4, CoverData
<1>6. DataOK'
  BY <1>1, <1>5 DEF DataOK
<1>7. QED
  BY <1>1, <1>6 DEF CoverInv, SofOK, TrailerOK, InTrailer

\* An EOF goes into the checksum; the data ends before the first one.
LEMMA InjectEofCovers ==
    ASSUME DecoderInv, CoverInv, NEW ch \in Byte, InjectEof(ch)
    PROVE  CoverInv'
<1>1. /\ state \in {"Data", "Eof"} /\ raw' = Append(raw, ch)
      /\ running' = CsumUpdate(running, EOF)
      /\ raw_head' = raw_head /\ data_len' = data_len
      /\ IF state = "Data" /\ EofCount(data_len) = 2
         THEN state' = "Eof"
         ELSE state' = "Checksum" /\ checksum_bytes' = <<>>
  BY DEF InjectEof, Entry
<1>2. EofCount(data_len)' = EofCount(data_len) /\ EofCount(data_len) \in {1, 2}
  BY <1>1, EofCountValues DEF EofCount
<1>3. TypeByte' = TypeByte /\ Len(raw') = Len(raw) + 1
  BY <1>1, AttemptIndices DEF TypeByte
<1>4. CASE state = "Data"
  <2>1. TrueDataEnd' = Len(raw)
    BY <1>1, <1>2, <1>3, <1>4, AttemptIndices DEF TrueDataEnd
  <2>2. SubSeq(raw', raw_head' + 3, TrueDataEnd') = DataPart
    <3>1. Len(raw) \in Nat /\ Len(raw) <= Len(raw)
      BY <1>1, AttemptIndices
    <3>2. SubSeq(raw', raw_head' + 3, Len(raw)) = DataPart
      BY <1>1, <3>1, AttemptGrows DEF DataPart
    <3>3. QED
      BY <2>1, <3>2
  <2>3. DataCovered(FALSE, DataPart, TypeByte, running, data_len)
    BY <1>4 DEF CoverInv, DataOK
  <2>4. TrailerCovered(DataPart, TypeByte', running', data_len', 1)
    BY <1>1, <1>3, <1>4, <2>3, AttemptIndices, CoverEof
  <2>5. (IF state = "Eof" THEN 1 ELSE EofCount(data_len))' = 1
    BY <1>1, <1>2, <1>4
  <2>6. TrailerOK'
    BY <2>2, <2>4, <2>5 DEF TrailerOK
  <2>7. QED
    BY <1>1, <2>6 DEF CoverInv, SofOK, DataOK
<1>5. CASE state = "Eof"
  <2>1. EofCount(data_len) = 2 /\ InTrailer /\ TrueDataEnd = Len(raw) - 1
    BY <1>5 DEF DecoderInv, EofPadded, InTrailer, TrueDataEnd
  <2>2. TrueDataEnd' = Len(raw) - 1 /\ state' = "Checksum"
    BY <1>1, <1>2, <1>3, <1>5, <2>1, AttemptIndices DEF TrueDataEnd
  <2> DEFINE bytes == SubSeq(raw, raw_head + 3, TrueDataEnd)
  <2>3. bytes \in Seq(Byte) /\ SubSeq(raw', raw_head' + 3, TrueDataEnd') = bytes
    <3>1. /\ TrueDataEnd \in Nat /\ TrueDataEnd <= Len(raw) /\ raw_head + 3 \in Nat \ {0}
          /\ raw \in Seq(Byte) /\ TrueDataEnd' = TrueDataEnd
      BY <1>5, <2>1, <2>2, AttemptIndices
    <3>2. bytes \in Seq(Byte)
      BY <3>1, PartType
    <3>3. QED
      BY <1>1, <3>1, <3>2, AttemptGrows
  <2>4. TrailerCovered(bytes, TypeByte, running, data_len, 1)
    BY <1>5, <2>1 DEF CoverInv, TrailerOK
  <2> HIDE DEF bytes
  <2>5. TrailerCovered(bytes, TypeByte', running', data_len', 2)
    BY <1>1, <1>3, <1>5, <2>3, <2>4, AttemptIndices, CoverPad
  <2>6. TrailerOK'
    BY <1>2, <2>1, <2>2, <2>3, <2>5 DEF TrailerOK
  <2>7. QED
    BY <2>2, <2>6 DEF CoverInv, SofOK, DataOK
<1>6. QED
  BY <1>1, <1>4, <1>5

\* A checksum byte leaves the data where it is, or closes the attempt.
LEMMA InjectChecksumCovers ==
    ASSUME DecoderInv, CoverInv, NEW ch \in Byte, InjectChecksum(ch)
    PROVE  CoverInv'
<1>1. state = "Checksum" /\ UNCHANGED <<running, data_len>>
  BY DEF InjectChecksum, Entry
<1>2. CASE /\ raw' = Append(raw, ch) /\ checksum_bytes' = Append(checksum_bytes, ch)
           /\ UNCHANGED <<state, raw_head>>
  <2>1. EofCount(data_len)' = EofCount(data_len) /\ EofCount(data_len) \in {1, 2}
    BY <1>1, EofCountValues DEF EofCount
  <2>2. /\ Len(raw') = Len(raw) + 1 /\ Len(raw) \in Nat
        /\ Len(checksum_bytes') = Len(checksum_bytes) + 1 /\ Len(checksum_bytes) \in Nat
    BY <1>2 DEF DecoderInv, StateOK
  <2>3. TrueDataEnd' = TrueDataEnd
    BY <1>1, <1>2, <2>1, <2>2 DEF TrueDataEnd
  <2>4. TypeByte' = TypeByte
    BY <1>1, <1>2, AttemptIndices DEF TypeByte
  <2>5. SubSeq(raw', raw_head' + 3, TrueDataEnd') = SubSeq(raw, raw_head + 3, TrueDataEnd)
    <3>1. TrueDataEnd \in Nat /\ TrueDataEnd <= Len(raw)
      BY <1>1, AttemptIndices DEF InTrailer
    <3>2. SubSeq(raw', raw_head' + 3, TrueDataEnd) = SubSeq(raw, raw_head + 3, TrueDataEnd)
      BY <1>1, <1>2, <3>1, AttemptGrows
    <3>3. QED
      BY <2>3, <3>2
  <2>6. TrailerOK'
    BY <1>1, <1>2, <2>1, <2>4, <2>5 DEF CoverInv, TrailerOK, InTrailer
  <2>7. QED
    BY <1>1, <1>2, <2>6 DEF CoverInv, SofOK, DataOK
<1>3. CASE /\ panicked' = TRUE
           /\ UNCHANGED <<state, raw, raw_head, checksum_bytes, frames>>
  BY <1>1, <1>3
  DEF CoverInv, SofOK, DataOK, TrailerOK, DataPart, TypeByte, InTrailer, TrueDataEnd
<1>4. CASE state' \in {"PostFrame", "Idle"}
  BY <1>4 DEF CoverInv, SofOK, DataOK, TrailerOK, InTrailer
<1>5. QED
  BY <1>2, <1>3, <1>4 DEF InjectChecksum, resolve_success, resolve_raw

\* Every byte keeps the checksum right.
LEMMA InjectCovers ==
    ASSUME DecoderInv, CoverInv, NEW ch \in Byte, inject(ch)
    PROVE  CoverInv'
<1>1. CASE InjectOverflow(ch) \/ InjectBadPad(ch) \/ InjectIdle(ch) \/ SwallowTrailer(ch)
  <2>1. state' \in {"Idle", "PostFrameCr"}
    BY <1>1 DEF InjectOverflow, InjectBadPad, InjectIdle, SwallowTrailer, resolve_raw
  <2>2. QED
    BY <2>1 DEF CoverInv, SofOK, DataOK, TrailerOK, InTrailer
<1>2. QED
  BY <1>1, InjectChecksumCovers, InjectSofCovers, InjectTypeCovers, InjectEscCovers,
     InjectEofCovers, InjectDataCovers DEF inject

\* A fetch of settled bytes moves the open attempt as it is.
LEMMA GetCovers ==
    ASSUME DecoderInv, CoverInv, get
    PROVE  CoverInv'
<1>1. UNCHANGED <<state, attemptVars>>
  BY DEF get
<1>2. CASE frames # <<>>
  <2>1. UNCHANGED <<raw, raw_head>>
    BY <1>2 DEF get
  <2>2. QED
    BY <1>1, <2>1 DEF attemptVars, CoverInv, SofOK, DataOK, TrailerOK, DataPart,
       TypeByte, InTrailer, TrueDataEnd
<1>3. CASE frames = <<>>
  <2>1. /\ raw' = SubSeq(raw, raw_head + 1, Len(raw)) /\ raw_head' = 0
        /\ raw_head \in 0 .. Len(raw) /\ raw \in Seq(Byte)
    BY <1>3 DEF get, DecoderInv, StateOK, AttemptInv
  <2>2. Len(raw') = Len(raw) - raw_head
    BY <2>1
  <2>3. CASE state \in {"Data", "DataEsc"}
    <3>1. TypeByte' = TypeByte
      BY <2>1, <2>3, AttemptIndices DEF TypeByte
    <3>2. DataPart' = DataPart
      <4>1. SubSeq(raw', 3, Len(raw) - raw_head) = SubSeq(raw, raw_head + 3, Len(raw))
        BY <2>1, <2>3, AttemptIndices, PartOfRest
      <4>2. QED
        BY <2>1, <2>2, <4>1 DEF DataPart
    <3>3. DataOK'
      BY <1>1, <3>1, <3>2 DEF CoverInv, DataOK, attemptVars
    <3>4. QED
      BY <1>1, <2>3, <3>3 DEF CoverInv, SofOK, TrailerOK, InTrailer
  <2>4. CASE InTrailer
    <3>1. TypeByte' = TypeByte
      BY <2>1, <2>4, AttemptIndices DEF TypeByte, InTrailer
    <3>2. EofCount(data_len)' = EofCount(data_len) /\ EofCount(data_len) \in {1, 2}
      BY <1>1, EofCountValues DEF EofCount, attemptVars
    <3>3. TrueDataEnd' = TrueDataEnd - raw_head
      BY <1>1, <2>1, <2>2, <3>2 DEF TrueDataEnd, attemptVars, DecoderInv, StateOK
    <3>4. SubSeq(raw', raw_head' + 3, TrueDataEnd')
            = SubSeq(raw, raw_head + 3, TrueDataEnd)
      <4>1. /\ TrueDataEnd \in Nat /\ TrueDataEnd < Len(raw)
            /\ TrueDataEnd >= raw_head + 2
        BY <2>4, AttemptIndices DEF InTrailer
      <4>2. TrueDataEnd - raw_head \in 0 .. Len(raw) - raw_head
            /\ raw_head + (TrueDataEnd - raw_head) = TrueDataEnd
        BY <2>1, <4>1
      <4>3. QED
        BY <2>1, <3>3, <4>2, PartOfRest
    <3>5. TrailerOK'
      BY <1>1, <2>4, <3>1, <3>2, <3>4 DEF CoverInv, TrailerOK, attemptVars
    <3>6. QED
      BY <1>1, <2>4, <3>5 DEF CoverInv, SofOK, DataOK, InTrailer
  <2>5. CASE state \notin {"Data", "DataEsc"} /\ ~InTrailer
    BY <1>1, <2>5 DEF CoverInv, SofOK, DataOK, TrailerOK, InTrailer, attemptVars
  <2>6. QED
    BY <2>3, <2>4, <2>5
<1>4. QED
  BY <1>2, <1>3

\* Every step keeps the checksum right.
LEMMA CoverInvStep ==
    ASSUME DecoderInv, CoverInv, [DecoderNext]_decoderVars
    PROVE  CoverInv'
<1>1. CASE UNCHANGED <<state, raw, raw_head, attemptVars>>
  BY <1>1 DEF attemptVars, CoverInv, SofOK, DataOK, TrailerOK, DataPart, TypeByte,
     InTrailer, TrueDataEnd
<1>2. CASE tick
  <2>1. CASE state' = "Idle"
    BY <2>1 DEF CoverInv, SofOK, DataOK, TrailerOK, InTrailer
  <2>2. CASE UNCHANGED <<state, raw, raw_head, attemptVars>>
    BY <1>1, <2>2
  <2>3. QED
    BY <1>2, <2>1, <2>2 DEF tick, resolve_raw
<1>3. QED
  BY <1>1, <1>2, InjectCovers, GetCovers DEF DecoderNext, decoderVars, ClockAdvances

\* For every byte alphabet, capacity, timeout and checksum: the checksum that
\* inject computes byte by byte is the one over SOF, the type, the data that the
\* raw bytes of the open attempt stand for, and its EOFs, whatever bytes, ticks
\* and fetches came before.
THEOREM ChecksumInvariant == DecoderSpec => []ChecksumCovers
<1>1. DecoderInit => DecoderInv /\ CoverInv
  <2>1. DecoderInit => CoverInv
    BY DEF DecoderInit, CoverInv, SofOK, DataOK, TrailerOK, InTrailer
  <2>2. QED
    BY <2>1, DecoderInvInit
<1>2. DecoderInv /\ CoverInv /\ [DecoderNext]_decoderVars => (DecoderInv /\ CoverInv)'
  BY DecoderInvStep, CoverInvStep
<1>3. QED
  BY <1>1, <1>2, CoverInvSuffices, PTL DEF DecoderSpec

-----------------------------------------------------------------------------
(* The frames that are delivered.                                          *)

TypeInv == DecoderInv /\ frames \in Seq(Frame)

\* What resolve_success decodes is a frame, wherever data_end points, as long as
\* it does not index outside raw.
LEMMA DecodedType ==
    ASSUME DecoderInv, state = "Checksum", NEW ch \in Byte,
           ~DecodePanics(Append(raw, ch))
    PROVE  [type_byte |-> Append(raw, ch)[raw_head + 2],
            data |-> Decoded(Append(raw, ch))] \in Frame
<1> DEFINE bytes == Append(raw, ch)
           part == SubSeq(bytes, raw_head + 3, data_end)
<1>1. /\ bytes \in Seq(Byte) /\ Len(bytes) = Len(raw) + 1 /\ Len(raw) \in Nat
      /\ raw_head \in Nat /\ Len(raw) >= raw_head + 2 /\ data_end \in Nat
  BY AttemptIndices DEF DecoderInv, StateOK
<1>2. bytes[raw_head + 2] \in Byte
  BY <1>1
<1>3. data_end <= Len(bytes) /\ (data_end = Len(bytes) => ~Unescape(part).esc)
  <2>1. ~(data_end > Len(bytes)) /\ ~(data_end = Len(bytes) /\ Unescape(part).esc)
    BY Zenon DEF DecodePanics
  <2> HIDE DEF bytes, part
  <2>2. QED
    BY <1>1, <2>1
<1>4. part \in Seq(Byte)
  <2>1. raw_head + 3 \in Nat \ {0} /\ data_end <= Len(bytes)
    BY <1>1, <1>3
  <2> HIDE DEF bytes
  <2>2. QED
    BY <1>1, <2>1, PartType
<1>5. Unescape(part) \in Unescaped
  BY <1>4, UnescapeType
<1>6. Unescape(part).esc => bytes[data_end + 1] \in Byte
  <2>1. Unescape(part).esc => data_end + 1 \in 1 .. Len(bytes)
    BY <1>1, <1>3
  <2> HIDE DEF bytes, part
  <2>2. QED
    BY <1>1, <2>1
<1>7. Decoded(bytes) \in Seq(Byte)
  <2>1. Unescape(part).out \in Seq(Byte)
    BY <1>5 DEF Unescaped
  <2>2. Decoded(bytes) = IF Unescape(part).esc
                         THEN Append(Unescape(part).out, unescape_byte(bytes[data_end + 1]))
                         ELSE Unescape(part).out
    BY DEF Decoded
  <2> HIDE DEF bytes, part
  <2>3. QED
    BY <1>6, <2>1, <2>2, UnescapeByteType
<1>8. QED
  BY <1>2, <1>7 DEF Frame

\* What each operation does to the queue of frames.
LEMMA FramesStep ==
    ASSUME TypeInv, [DecoderNext]_decoderVars
    PROVE  \/ frames' = frames
           \/ frames # <<>> /\ frames' = Tail(frames)
           \/ \E ch \in Byte :
                /\ state = "Checksum" /\ ~DecodePanics(Append(raw, ch))
                /\ checksum_bytes' = Append(checksum_bytes, ch)
                /\ checksum_ok(checksum_bytes')
                /\ frames' = Append(frames,
                                [type_byte |-> Append(raw, ch)[raw_head + 2],
                                 data |-> Decoded(Append(raw, ch))])
<1>1. ASSUME NEW ch \in Byte, inject(ch), ~InjectChecksum(ch) PROVE frames' = frames
  BY <1>1
  DEF inject, InjectOverflow, SwallowTrailer, InjectSof, OpenAttempt, InjectType,
      InjectEsc, InjectEof, InjectBadPad, InjectData, InjectIdle
<1>2. ASSUME NEW ch \in Byte, InjectChecksum(ch), frames' # frames
      PROVE  /\ state = "Checksum" /\ ~DecodePanics(Append(raw, ch))
             /\ checksum_bytes' = Append(checksum_bytes, ch)
             /\ checksum_ok(checksum_bytes')
             /\ frames' = Append(frames,
                             [type_byte |-> Append(raw, ch)[raw_head + 2],
                              data |-> Decoded(Append(raw, ch))])
  BY <1>2, Zenon DEF InjectChecksum, Entry, resolve_success
<1>3. CASE tick \/ ClockAdvances \/ UNCHANGED decoderVars
  BY <1>3 DEF tick, ClockAdvances, decoderVars
<1>4. CASE get
  BY <1>4 DEF get
<1>5. QED
  BY <1>1, <1>2, <1>3, <1>4 DEF DecoderNext

\* Every step keeps the types.
LEMMA TypeInvStep == TypeInv /\ [DecoderNext]_decoderVars => TypeInv'
<1> SUFFICES ASSUME TypeInv, [DecoderNext]_decoderVars PROVE TypeInv'
  OBVIOUS
<1>1. frames \in Seq(Frame) /\ DecoderInv
  BY DEF TypeInv
<1>2. frames' \in Seq(Frame)
  <2>1. CASE frames' = frames \/ (frames # <<>> /\ frames' = Tail(frames))
    BY <1>1, <2>1
  <2>2. CASE ~(frames' = frames \/ (frames # <<>> /\ frames' = Tail(frames)))
    <3>1. PICK ch \in Byte :
            /\ state = "Checksum" /\ ~DecodePanics(Append(raw, ch))
            /\ frames' = Append(frames,
                            [type_byte |-> Append(raw, ch)[raw_head + 2],
                             data |-> Decoded(Append(raw, ch))])
      BY <2>2, FramesStep, Zenon
    <3> DEFINE f == [type_byte |-> Append(raw, ch)[raw_head + 2],
                     data |-> Decoded(Append(raw, ch))]
    <3>2. f \in Frame /\ frames' = Append(frames, f)
      BY <1>1, <3>1, DecodedType
    <3> HIDE DEF f
    <3>3. QED
      BY <1>1, <3>2
  <2>3. QED
    BY <2>1, <2>2
<1>3. QED
  BY <1>1, <1>2, DecoderInvStep DEF TypeInv

\* Every variable of the decoder keeps its type, the queue of decoded frames
\* included: what resolve_success makes of raw bytes is always a frame of bytes,
\* even when data_end is stale.
THEOREM DecoderTypes == DecoderSpec => []TypeOK
<1>1. DecoderInit => TypeInv
  BY DecoderInvInit DEF TypeInv, DecoderInit
<1>2. TypeInv => TypeOK
  BY DEF TypeInv, TypeOK, DecoderInv
<1>3. QED
  BY <1>1, <1>2, TypeInvStep, PTL DEF DecoderSpec

\* A step that delivers a frame delivers what the raw bytes of the attempt stand
\* for, and the checksum bytes that came last are a sentinel or the checksum
\* over just that type and data.
DeliversChecked ==
    \A f \in Frame : frames' = Append(frames, f) =>
        /\ f.type_byte = raw[raw_head + 2]
        /\ f.data = Unescape(SubSeq(raw, raw_head + 3, TrueDataEnd)).out
        /\ \/ checksum_bytes' \in CsumSentinels
           \/ checksum_bytes' =
                CsumFinalize(RunOver(f.type_byte, f.data, EofCount(Len(f.data))))

\* With data_end right and the checksum right, every step delivers so.
LEMMA DeliversCheckedStep ==
    ASSUME TypeInv, CoverInv, DataInv, [DecoderNext]_decoderVars
    PROVE  DeliversChecked
<1> SUFFICES ASSUME NEW f \in Frame, frames' = Append(frames, f)
             PROVE  /\ f.type_byte = raw[raw_head + 2]
                    /\ f.data = Unescape(SubSeq(raw, raw_head + 3, TrueDataEnd)).out
                    /\ \/ checksum_bytes' \in CsumSentinels
                       \/ checksum_bytes' =
                            CsumFinalize(RunOver(f.type_byte, f.data,
                                                 EofCount(Len(f.data))))
  BY DEF DeliversChecked
<1>1. DecoderInv /\ frames \in Seq(Frame)
  BY DEF TypeInv
<1>2. frames' # frames /\ (frames # <<>> => frames' # Tail(frames))
  <2>1. Len(frames') = Len(frames) + 1 /\ Len(frames) \in Nat
    BY <1>1
  <2>2. frames # <<>> => Len(Tail(frames)) = Len(frames) - 1
    BY <1>1
  <2>3. QED
    BY <2>1, <2>2
<1>3. PICK ch \in Byte :
        /\ state = "Checksum"
        /\ checksum_ok(checksum_bytes')
        /\ frames' = Append(frames, [type_byte |-> Append(raw, ch)[raw_head + 2],
                                     data |-> Decoded(Append(raw, ch))])
  BY <1>2, FramesStep
<1> DEFINE bytes == Append(raw, ch)
           u == Unescape(SubSeq(raw, raw_head + 3, TrueDataEnd))
<1>4. f = [type_byte |-> bytes[raw_head + 2], data |-> Decoded(bytes)]
  <2> DEFINE g == [type_byte |-> bytes[raw_head + 2], data |-> Decoded(bytes)]
  <2>1. Append(frames, f) = Append(frames, g)
    BY <1>3
  <2> HIDE DEF g
  <2>2. Append(frames, f)[Len(frames) + 1] = f /\ Append(frames, g)[Len(frames) + 1] = g
    BY <1>1
  <2>3. QED
    BY <2>1, <2>2 DEF g
<1>5. /\ raw \in Seq(Byte) /\ raw_head \in Nat /\ Len(raw) >= raw_head + 2
      /\ TrueDataEnd \in Nat /\ TrueDataEnd < Len(raw) /\ data_end = TrueDataEnd
  BY <1>1, <1>3, AttemptIndices DEF InTrailer, DataInv, DataEndOK
<1>6. f.type_byte = raw[raw_head + 2]
  <2>1. bytes[raw_head + 2] = raw[raw_head + 2]
    BY <1>5
  <2>2. QED
    BY <1>4, <2>1
<1>7. TrailerCovered(SubSeq(raw, raw_head + 3, TrueDataEnd), TypeByte, running, data_len,
                     EofCount(data_len))
  BY <1>3 DEF CoverInv, TrailerOK, InTrailer
<1>8. f.data = u.out
  <2>1. SubSeq(bytes, raw_head + 3, data_end) = SubSeq(raw, raw_head + 3, TrueDataEnd)
    <3>1. raw_head + 3 \in Nat \ {0} /\ TrueDataEnd <= Len(raw)
      BY <1>5
    <3>2. QED
      BY <1>5, <3>1, PartOfAppend
  <2>2. Decoded(bytes) = u.out
    BY <1>7, <2>1, Zenon DEF Decoded, TrailerCovered
  <2>3. QED
    BY <1>4, <2>2
<1>9. running = RunOver(f.type_byte, f.data, EofCount(Len(f.data)))
  BY <1>6, <1>7, <1>8 DEF TrailerCovered, TypeByte
<1>10. checksum_bytes' \in CsumSentinels \/ CsumFinalize(running) = checksum_bytes'
  BY <1>3 DEF checksum_ok
<1>11. QED
  BY <1>6, <1>8, <1>9, <1>10

\* A caller that takes settled bytes only outside the trailer of a frame is never
\* given a frame that was not checked: the second pass over raw, which decodes
\* the data, yields just the data the checksum was computed over in the first.
THEOREM FramesAreChecked ==
    DecoderSpec /\ [][FetchOutsideTrailer]_decoderVars => [][DeliversChecked]_decoderVars
<1>1. DecoderInit => TypeInv /\ CoverInv /\ DataInv
  BY DecoderInvInit
  DEF DecoderInit, TypeInv, CoverInv, SofOK, DataOK, TrailerOK, InTrailer, DataInv,
      DataEndOK
<1>2. /\ TypeInv /\ CoverInv /\ DataInv
      /\ [DecoderNext]_decoderVars /\ [FetchOutsideTrailer]_decoderVars
      => (TypeInv /\ CoverInv /\ DataInv)'
  BY TypeInvStep, CoverInvStep, DataInvStep DEF TypeInv
<1>3. TypeInv /\ CoverInv /\ DataInv /\ [DecoderNext]_decoderVars
      => [DeliversChecked]_decoderVars
  BY DeliversCheckedStep
<1>4. QED
  BY <1>1, <1>2, <1>3, PTL DEF DecoderSpec
=============================================================================
