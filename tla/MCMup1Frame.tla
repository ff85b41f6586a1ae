--------------------------- MODULE MCMup1Frame ---------------------------
(***************************************************************************)
(* The decoder alone, fed every byte string over the bytes it tells apart. *)
(***************************************************************************)
EXTENDS Mup1Frame

CONSTANTS
    MaxPending, \* bound: frames queued before they are fetched
    MaxDrops    \* bound: bytes dropped

MCByte == {SOF, EOF, ESC, CR, LF, ESCAPED_00, ZERO, "x"}

\* A checksum that depends on the order and on the number of the bytes: a
\* three-valued residue, of which one digit, "0" or "x", is sent.
MCWeight(b) == IF b \in {SOF, ESC, ZERO, "x"} THEN 1 ELSE 0
MCUpdate(r, b) == (2 * r + MCWeight(b) + 1) % 3
MCFinalize(r) == << IF r = 0 THEN ESCAPED_00 ELSE "x" >>

\* The Internet checksum whose digits are all "0" is accepted unverified.
MCSentinels == {<<ESCAPED_00>>}

\* The settled bytes and the frames waiting to be fetched are only ever handed
\* over, and an attempt's variables are read only once the attempt has set
\* them: states that differ in these alone satisfy the same invariants and have
\* the same successors up to them.
MCView ==
    <<state, raw_head, SubSeq(raw, raw_head + 1, Len(raw)),
      IF InAttempt THEN <<data_len, running>> ELSE <<>>,
      IF InTrailer THEN <<data_end>> ELSE <<>>,
      IF state = "Checksum" THEN checksum_bytes ELSE <<>>,
      Len(frames), drop_count, timerVars, panicked, TypeOK>>
MCNext == DecoderNext /\ Len(frames') <= MaxPending /\ drop_count' <= MaxDrops
MCSpec == DecoderInit /\ [][MCNext]_decoderVars
=============================================================================
