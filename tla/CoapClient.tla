----------------------------- MODULE CoapClient -----------------------------
(***************************************************************************)
(* The CoAP client (coap/src/client.rs): request() drives one exchange,    *)
(* Block1 upload and Block2 download included, and retransmits the current *)
(* message.                                                                *)
(*                                                                         *)
(* Lengths are counted in units of the smallest block (16 bytes).  Unit i  *)
(* of the body of request r is <<r, i>>; what a payload of the device      *)
(* holds is left to the device (Unit).  A message that does not parse is   *)
(* ignored by the poll closure, so it is the same as one that was lost.    *)
(***************************************************************************)
EXTENDS Integers, Sequences

CONSTANTS
    N,               \* number of requests the process issues, one by one
    ReqLen,          \* ReqLen[r]: length of the body of request r
    SZX,             \* szx of DEFAULT_BLOCK_SIZE
    MAX_RETRANSMIT,
    MSG_ID_MOD,      \* 2^16 in the code: message ids wrap around
    MaxBatch,        \* bound: replies one poll hands over
    Unit,            \* what a unit of a response holds
    Replies,         \* the replies of a device that sends anything
    NoBlock,         \* an absent Block option
    NoError

ASSUME ClientAssumption ==
    /\ N \in Nat
    /\ ReqLen \in [1 .. N -> Nat]
    /\ SZX \in 0 .. 6
    /\ MAX_RETRANSMIT \in Nat
    /\ MSG_ID_MOD \in Nat \ {0}
    /\ MaxBatch \in Nat \ {0}

MsgId == 0 .. MSG_ID_MOD - 1

\* Block::size, in units.
Size(szx) == <<1, 2, 4, 8, 16, 32, 64, 128>>[szx + 1]

Block == [num : Nat, more : BOOLEAN, szx : 0 .. 7]

\* Response codes told apart.  RESPONSE_CONTINUE is 2.31.
RESPONSE_CONTINUE == "continue"
Code == {RESPONSE_CONTINUE, "ok", "error"}

Reply == [msg_id : MsgId, msg_type : {"Con", "Non", "Ack", "Rst"}, code : Code,
          block1 : Block \cup {NoBlock}, block2 : Block \cup {NoBlock},
          payload : Seq(Unit)]

Session == [block1_num : Nat, block1_szx : 0 .. 7,
            block2_num : Nat, block2_szx : 0 .. 7,
            msg_id : MsgId, req_payload_cleared : BOOLEAN,
            resp_payload : Seq(Unit), resp_code : Code \cup {"none"},
            req_payload_size : Nat, done : BOOLEAN,
            error : {NoError, "spurious continue", "rst"},
            need_resend : BOOLEAN]

VARIABLES
    c2s,               \* requests on their way to the device
    s2c,               \* replies on their way to the client
    msg_id,            \* Client::msg_id
    req,               \* index of the current or last request
    session,           \* the Session of the current or last request
    pc,                \* where request() is
    batch,             \* replies the current poll has handed over
    retransmit_count,
    expired,           \* retransmit_deadline has passed
    result,            \* result[r]: what request() returned
    panicked           \* send_frame indexed outside the request body

clientVars == <<msg_id, req, session, pc, batch, retransmit_count, expired,
                result, panicked>>

Outcome == [kind : {"pending", "timeout", "protocol", "io"}]
           \cup [kind : {"response"}, code : Code \cup {"none"}, payload : Seq(Unit)]

TypeOK ==
    /\ msg_id \in MsgId
    /\ req \in 0 .. N
    /\ session \in Session
    /\ pc \in {"idle", "send", "poll", "check", "return", "dead"}
    /\ batch \in 0 .. MaxBatch
    /\ retransmit_count \in 0 .. MAX_RETRANSMIT
    /\ expired \in BOOLEAN
    /\ result \in [1 .. N -> Outcome]
    /\ panicked \in BOOLEAN

NewSession(id, size) ==
    [block1_num |-> 0, block1_szx |-> SZX, block2_num |-> 0, block2_szx |-> SZX,
     msg_id |-> id, req_payload_cleared |-> FALSE, resp_payload |-> <<>>,
     resp_code |-> "none", req_payload_size |-> size, done |-> FALSE,
     error |-> NoError, need_resend |-> FALSE]

\* The message id is seeded from the clock and the process id.
ClientInit ==
    /\ msg_id \in MsgId
    /\ req = 0
    /\ session = NewSession(msg_id, 0)
    /\ pc = "idle" /\ batch = 0
    /\ retransmit_count = 0 /\ expired = FALSE
    /\ result = [r \in 1 .. N |-> [kind |-> "pending"]]
    /\ panicked = FALSE

wrapping_inc(id) == (id + 1) % MSG_ID_MOD

-----------------------------------------------------------------------------
(* send_frame.                                                             *)

Offset(s) == s.block1_num * Size(s.block1_szx)
EffectiveLen(s) == IF s.req_payload_cleared THEN 0 ELSE s.req_payload_size

\* `&effective_payload[offset..offset + take]` needs the offset in range.
OffsetInRange(s) == EffectiveLen(s) > 0 => Offset(s) <= EffectiveLen(s)

Message(r, s) ==
    LET size == Size(s.block1_szx)
        remaining == EffectiveLen(s) - Offset(s)
        take == IF remaining < size THEN remaining ELSE size
        empty == EffectiveLen(s) = 0
    IN  [msg_id |-> s.msg_id, request |-> r,
         block1 |-> IF empty \/ (EffectiveLen(s) <= size /\ s.block1_num = 0)
                    THEN NoBlock
                    ELSE [num |-> s.block1_num, more |-> remaining > size,
                          szx |-> s.block1_szx],
         block2 |-> [num |-> s.block2_num, more |-> FALSE, szx |-> s.block2_szx],
         payload |-> IF empty THEN <<>>
                     ELSE [i \in 1 .. take |-> <<r, Offset(s) + i>>]]

\* Send the session's current message; the caller goes on at next.
send_frame(r, s, next) ==
    IF OffsetInRange(s)
    THEN /\ c2s' = Append(c2s, Message(r, s))
         /\ pc' = next
         /\ UNCHANGED panicked
    ELSE /\ panicked' = TRUE
         /\ pc' = "dead"
         /\ UNCHANGED c2s

-----------------------------------------------------------------------------
(* process_response and the poll closure, as functions of the session.     *)

\* The answer so far, with the payload of m at its end.
WithPayload(s, m) ==
    [s EXCEPT !.resp_code = m.code, !.resp_payload = @ \o m.payload]

HasNextBlock2(m) == m.block2 # NoBlock /\ m.block2.more
AsksForBlock1(m) ==
    ~HasNextBlock2(m) /\ m.code = RESPONSE_CONTINUE /\ m.block1 # NoBlock

\* Ask for the block after the one m carries; the body is not sent again.
NextBlock2(s, m) ==
    [s EXCEPT !.block2_num = m.block2.num + 1,
              !.block2_szx = m.block2.szx,
              !.msg_id = wrapping_inc(@),
              !.req_payload_cleared = TRUE,
              !.need_resend = TRUE]

\* Go on with block number num, in the size m asks for.
SendBlock1(s, m, num) ==
    [s EXCEPT !.block1_szx = m.block1.szx,
              !.block1_num = num,
              !.msg_id = wrapping_inc(@),
              !.need_resend = TRUE]

\* Mutant: a Continue past the end of the body is obeyed.
NextBlock1_Unguarded(s, m) == SendBlock1(s, m, s.block1_num + 1)

\* Mutant: a block is left out.
NextBlock1_Skip(s, m) ==
    IF (s.block1_num + 2) * Size(m.block1.szx) >= s.req_payload_size
    THEN [s EXCEPT !.error = "spurious continue", !.done = TRUE]
    ELSE SendBlock1(s, m, s.block1_num + 2)

\* A Continue past the end of the body is an error.
NextBlock1(s, m) ==
    IF (s.block1_num + 1) * Size(m.block1.szx) >= s.req_payload_size
    THEN [s EXCEPT !.error = "spurious continue", !.done = TRUE]
    ELSE SendBlock1(s, m, s.block1_num + 1)

process_response(s, m) ==
    CASE HasNextBlock2(m) -> NextBlock2(WithPayload(s, m), m)
      [] AsksForBlock1(m) -> NextBlock1(WithPayload(s, m), m)
      [] OTHER -> [WithPayload(s, m) EXCEPT !.done = TRUE]

on_frame(s, m) ==
    CASE m.msg_id = s.msg_id /\ m.msg_type = "Rst" ->
           [s EXCEPT !.error = "rst", !.done = TRUE]
      [] m.msg_id = s.msg_id /\ m.msg_type = "Ack" -> process_response(s, m)
      [] OTHER -> s

-----------------------------------------------------------------------------
(* request().                                                              *)

\* Start the next request, with a new message id.
Request ==
    LET id == wrapping_inc(msg_id)
    IN  /\ pc = "idle" /\ req < N
        /\ req' = req + 1
        /\ msg_id' = id
        /\ session' = NewSession(id, ReqLen[req + 1])
        /\ pc' = "send"
        /\ retransmit_count' = 0 /\ expired' = FALSE /\ batch' = 0
        /\ UNCHANGED <<c2s, s2c, result, panicked>>

\* The first transmission.
FirstSend ==
    /\ pc = "send"
    /\ send_frame(req, session, "poll")
    /\ UNCHANGED <<s2c, msg_id, req, session, batch, retransmit_count, expired,
                   result>>

\* poll hands one reply to the closure; it may have several.
OnFrame ==
    /\ pc = "poll" /\ s2c # <<>> /\ batch < MaxBatch
    /\ session' = on_frame(session, Head(s2c))
    /\ s2c' = Tail(s2c)
    /\ batch' = batch + 1
    /\ UNCHANGED <<c2s, msg_id, req, pc, retransmit_count, expired, result, panicked>>

PollReturns ==
    /\ pc = "poll"
    /\ pc' = "check" /\ batch' = 0
    /\ UNCHANGED <<c2s, s2c, msg_id, req, session, retransmit_count, expired,
                   result, panicked>>

\* Nothing to act on in the session.
Waiting == /\ pc = "check"
           /\ session.error = NoError
           /\ ~session.need_resend /\ ~session.done

\* The session has a message to send, at once.
ResendDue == pc = "check" /\ session.error = NoError /\ session.need_resend
RetransmitDue == Waiting /\ expired /\ retransmit_count < MAX_RETRANSMIT

\* The transport fails in a poll or a send: `?` leaves request() at once,
\* Client::msg_id as it was, and the command line tool ends.
TransportFails ==
    /\ pc \in {"send", "poll"} \/ ResendDue \/ RetransmitDue
    /\ result' = [result EXCEPT ![req] = [kind |-> "io"]]
    /\ pc' = "dead"
    /\ UNCHANGED <<c2s, s2c, msg_id, req, session, batch, retransmit_count,
                   expired, panicked>>

Resend ==
    LET s == [session EXCEPT !.need_resend = FALSE]
    IN  /\ ResendDue
        /\ session' = s
        /\ retransmit_count' = 0 /\ expired' = FALSE
        /\ send_frame(req, s, IF s.done THEN "return" ELSE "poll")
        /\ UNCHANGED <<s2c, msg_id, req, batch, result>>

Finish ==
    /\ pc = "check"
    /\ session.error # NoError \/ (~session.need_resend /\ session.done)
    /\ pc' = "return"
    /\ UNCHANGED <<c2s, s2c, msg_id, req, session, batch, retransmit_count,
                   expired, result, panicked>>

\* Mutant: every transmission takes a new message id.
Retransmit_NewId ==
    LET s == [session EXCEPT !.msg_id = wrapping_inc(@)]
    IN  /\ RetransmitDue
        /\ session' = s
        /\ retransmit_count' = retransmit_count + 1
        /\ expired' = FALSE
        /\ send_frame(req, s, "poll")
        /\ UNCHANGED <<s2c, msg_id, req, batch, result>>

\* Mutant: one retransmission too many.
Retransmit_Extra ==
    /\ Waiting
    /\ expired /\ retransmit_count <= MAX_RETRANSMIT
    /\ retransmit_count' = retransmit_count + 1
    /\ expired' = FALSE
    /\ send_frame(req, session, "poll")
    /\ UNCHANGED <<s2c, msg_id, req, session, batch, result>>

Retransmit ==
    /\ RetransmitDue
    /\ retransmit_count' = retransmit_count + 1
    /\ expired' = FALSE
    /\ send_frame(req, session, "poll")
    /\ UNCHANGED <<s2c, msg_id, req, session, batch, result>>

\* Mutant: the count is never found exhausted.
GiveUp_Late ==
    /\ Waiting
    /\ expired /\ retransmit_count > MAX_RETRANSMIT
    /\ msg_id' = session.msg_id
    /\ result' = [result EXCEPT ![req] = [kind |-> "timeout"]]
    /\ pc' = "idle"
    /\ UNCHANGED <<c2s, s2c, req, session, batch, retransmit_count, expired,
                   panicked>>

GiveUp ==
    /\ Waiting
    /\ expired /\ retransmit_count >= MAX_RETRANSMIT
    /\ msg_id' = session.msg_id
    /\ result' = [result EXCEPT ![req] = [kind |-> "timeout"]]
    /\ pc' = "idle"
    /\ UNCHANGED <<c2s, s2c, req, session, batch, retransmit_count, expired,
                   panicked>>

\* Sleep five milliseconds and poll again.
Sleep ==
    /\ Waiting
    /\ ~expired
    /\ pc' = "poll"
    /\ UNCHANGED <<c2s, s2c, msg_id, req, session, batch, retransmit_count,
                   expired, result, panicked>>

Return ==
    /\ pc = "return"
    /\ msg_id' = session.msg_id
    /\ result' = [result EXCEPT ![req] =
            IF session.error # NoError THEN [kind |-> "protocol"]
            ELSE [kind |-> "response", code |-> session.resp_code,
                  payload |-> session.resp_payload]]
    /\ pc' = "idle"
    /\ UNCHANGED <<c2s, s2c, req, session, batch, retransmit_count, expired,
                   panicked>>

\* The clock reaches the retransmission deadline.
DeadlinePasses ==
    /\ pc \in {"poll", "check"} /\ ~expired
    /\ expired' = TRUE
    /\ UNCHANGED <<c2s, s2c, msg_id, req, session, pc, batch, retransmit_count,
                   result, panicked>>

\* What the process does by itself, between starting a request and its end.
ClientStep ==
    \/ FirstSend
    \/ OnFrame
    \/ PollReturns
    \/ Resend
    \/ Finish
    \/ Retransmit
    \/ GiveUp
    \/ Sleep
    \/ Return

ClientNext == Request \/ ClientStep \/ TransportFails \/ DeadlinePasses

-----------------------------------------------------------------------------
(* The client against a device that may send anything at any time.         *)

ASSUME RepliesAssumption == Replies \subseteq Reply

AnyReply(m) ==
    /\ s2c' = Append(s2c, m)
    /\ UNCHANGED <<c2s, clientVars>>

AnySink ==
    /\ c2s # <<>>
    /\ c2s' = Tail(c2s)
    /\ UNCHANGED <<s2c, clientVars>>

AnyInit == ClientInit /\ c2s = <<>> /\ s2c = <<>>
AnyNext == ClientNext \/ AnySink \/ \E m \in Replies : AnyReply(m)
AnySpec == AnyInit /\ [][AnyNext]_<<c2s, s2c, clientVars>>

\* The block a session is at starts inside the request body.
StartsInside(s) == s.block1_num > 0 => Offset(s) < s.req_payload_size

\* Whatever Block1 sizes the device answers with, the next block to be sent
\* starts inside the request body, so send_frame never slices out of range.
UploadInRange == ~panicked /\ StartsInside(session)
=============================================================================
