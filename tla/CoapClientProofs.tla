-------------------------- MODULE CoapClientProofs --------------------------
(***************************************************************************)
(* Proof that the CoAP client stays within the request body it was given,  *)
(* for every length of the body, every block size and every sequence of    *)
(* replies, message ids that have wrapped around included.                 *)
(***************************************************************************)
EXTENDS CoapClient, SequenceTheorems, TLAPS

\* A session the proof is about: of its type, and inside the body.
Good(s) == s \in Session /\ StartsInside(s)

\* The inductive invariant: what is on its way to the client are replies, and
\* a request is in progress unless the client is idle.
ClientInv ==
    /\ TypeOK
    /\ UploadInRange
    /\ s2c \in Seq(Reply)
    /\ pc # "idle" => req \in 1 .. N

\* A block has a size for every szx that three bits can hold.
LEMMA SizeType == ASSUME NEW szx \in 0 .. 7 PROVE Size(szx) \in Nat
  BY DEF Size

\* Message ids stay in their range when they wrap around.
LEMMA IncType == ASSUME NEW id \in MsgId PROVE wrapping_inc(id) \in MsgId
  BY ClientAssumption DEF MsgId, wrapping_inc

\* Collecting a payload changes nothing about the upload.
LEMMA WithPayloadGood ==
  ASSUME NEW s, Good(s), NEW m \in Reply
  PROVE  Good(WithPayload(s, m))
<1>1. WithPayload(s, m) \in Session
  <2>1. s \in Session /\ m.code \in Code
    BY DEF Good, Reply
  <2>2. s.resp_payload \in Seq(Unit) /\ m.payload \in Seq(Unit)
    BY DEF Good, Session, Reply
  <2>3. s.resp_payload \o m.payload \in Seq(Unit)
    BY <2>2, ConcatProperties
  <2> QED BY <2>1, <2>3 DEF WithPayload, Session
<1>2. StartsInside(WithPayload(s, m))
  BY DEF Good, WithPayload, StartsInside, Offset, Session
<1> QED BY <1>1, <1>2 DEF Good

\* Nor does asking for the next block of the answer.
LEMMA NextBlock2Good ==
  ASSUME NEW s, Good(s), NEW m \in Reply, HasNextBlock2(m)
  PROVE  Good(NextBlock2(s, m))
<1>1. m.block2 \in Block
  BY DEF HasNextBlock2, Reply
<1>2. m.block2.num + 1 \in Nat /\ m.block2.szx \in 0 .. 7
  BY <1>1 DEF Block
<1>3. wrapping_inc(s.msg_id) \in MsgId
  BY IncType DEF Good, Session
<1>4. NextBlock2(s, m) \in Session
  BY <1>2, <1>3 DEF Good, NextBlock2, Session
<1>5. StartsInside(NextBlock2(s, m))
  BY DEF Good, NextBlock2, StartsInside, Offset, Session
<1> QED BY <1>4, <1>5 DEF Good

\* A Continue is obeyed only if the block it asks for starts inside the body.
LEMMA NextBlock1Good ==
  ASSUME NEW s, Good(s), NEW m \in Reply, AsksForBlock1(m)
  PROVE  Good(NextBlock1(s, m))
<1>1. m.block1 \in Block
  BY DEF AsksForBlock1, Reply
<1>2. m.block1.szx \in 0 .. 7
  BY <1>1 DEF Block
<1>3. wrapping_inc(s.msg_id) \in MsgId
  BY IncType DEF Good, Session
<1>4. Size(m.block1.szx) \in Nat
  BY <1>2, SizeType
<1>5. s.block1_num \in Nat /\ s.req_payload_size \in Nat
  BY DEF Good, Session
<1> DEFINE next == (s.block1_num + 1) * Size(m.block1.szx)
<1>6. CASE next >= s.req_payload_size
  <2>1. NextBlock1(s, m) = [s EXCEPT !.error = "spurious continue", !.done = TRUE]
    BY <1>6 DEF NextBlock1
  <2>2. NextBlock1(s, m) \in Session
    BY <2>1 DEF Good, Session
  <2>3. StartsInside(NextBlock1(s, m))
    BY <2>1 DEF Good, StartsInside, Offset, Session
  <2> QED BY <2>2, <2>3 DEF Good
<1>7. CASE ~(next >= s.req_payload_size)
  <2> DEFINE t == SendBlock1(s, m, s.block1_num + 1)
  <2>1. NextBlock1(s, m) = t
    BY <1>7 DEF NextBlock1
  <2>2. /\ t.block1_num = s.block1_num + 1 /\ t.block1_szx = m.block1.szx
        /\ t.req_payload_size = s.req_payload_size
    BY DEF SendBlock1, Good, Session
  <2>3. t \in Session
    <3>1. s \in Session /\ s.block1_num + 1 \in Nat
      BY <1>5 DEF Good
    <3> QED BY <1>2, <1>3, <3>1 DEF SendBlock1, Session
  <2>4. Offset(t) = next
    BY <2>2 DEF Offset
  <2>5. next \in Int
    BY <1>4, <1>5
  <2>6. next < s.req_payload_size
    BY <2>5, <1>7, <1>5
  <2>7. StartsInside(t)
    BY <2>2, <2>4, <2>6 DEF StartsInside
  <2> QED BY <2>1, <2>3, <2>7 DEF Good
<1> QED BY <1>6, <1>7

\* The poll closure keeps the session good, whatever the reply.
LEMMA OnFrameGood ==
  ASSUME NEW s, Good(s), NEW m \in Reply
  PROVE  Good(on_frame(s, m))
<1>1. Good([s EXCEPT !.error = "rst", !.done = TRUE])
  BY DEF Good, Session, StartsInside, Offset
<1>2. ASSUME NEW w, Good(w) PROVE Good([w EXCEPT !.done = TRUE])
  BY <1>2 DEF Good, Session, StartsInside, Offset
<1>3. Good(process_response(s, m))
  BY <1>2, WithPayloadGood, NextBlock2Good, NextBlock1Good DEF process_response
<1> QED BY <1>1, <1>3 DEF on_frame

\* A good session can be sent: send_frame slices inside the body.
LEMMA SendInRange ==
  ASSUME NEW s, Good(s)
  PROVE  OffsetInRange(s)
<1>1. s.block1_num \in Nat /\ Size(s.block1_szx) \in Nat /\ s.req_payload_size \in Nat
  BY SizeType DEF Good, Session
<1>2. CASE s.block1_num = 0
  BY <1>1, <1>2 DEF OffsetInRange, Offset, EffectiveLen
<1>3. CASE s.block1_num > 0
  <2>1. Offset(s) < s.req_payload_size
    BY <1>3 DEF Good, StartsInside
  <2>2. Offset(s) \in Nat
    BY <1>1 DEF Offset
  <2> QED BY <2>1, <2>2, <1>1 DEF OffsetInRange, EffectiveLen
<1> QED BY <1>1, <1>2, <1>3

\* Starting a request keeps the invariant.
LEMMA RequestInv == ASSUME ClientInv, Request PROVE ClientInv'
<1> DEFINE id == wrapping_inc(msg_id)
           s == NewSession(id, ReqLen[req + 1])
<1>1. id \in MsgId /\ req + 1 \in 1 .. N /\ ReqLen[req + 1] \in Nat
  BY IncType, ClientAssumption DEF ClientInv, TypeOK, Request
<1>2. s \in Session
  BY <1>1, ClientAssumption, EmptySeq DEF NewSession, Session
<1>3. StartsInside(s)
  BY DEF StartsInside, NewSession
<1>4. /\ session' = s /\ msg_id' = id /\ req' = req + 1 /\ pc' = "send"
      /\ retransmit_count' = 0 /\ expired' = FALSE /\ batch' = 0
      /\ UNCHANGED <<s2c, result, panicked>>
  BY DEF Request
<1> HIDE DEF id, s
<1>5. req + 1 \in 0 .. N /\ 0 \in 0 .. MaxBatch /\ 0 \in 0 .. MAX_RETRANSMIT
  BY <1>1, ClientAssumption
<1>6. TypeOK'
  BY <1>1, <1>2, <1>4, <1>5, Zenon DEF ClientInv, TypeOK
<1> QED BY <1>1, <1>3, <1>4, <1>6 DEF ClientInv, UploadInRange

\* A reply keeps the invariant.
LEMMA OnFrameInv == ASSUME ClientInv, OnFrame PROVE ClientInv'
<1>1. Head(s2c) \in Reply /\ s2c' \in Seq(Reply)
  BY DEF ClientInv, OnFrame
<1>2. Good(session')
  BY <1>1, OnFrameGood DEF ClientInv, TypeOK, UploadInRange, Good, OnFrame
<1>3. TypeOK'
  BY <1>2, ClientAssumption DEF ClientInv, TypeOK, Good, OnFrame
<1> QED BY <1>1, <1>2, <1>3 DEF ClientInv, UploadInRange, Good, OnFrame

\* Sending the current message keeps the invariant, and never panics.
LEMMA SendInv ==
  ASSUME ClientInv, FirstSend \/ Resend \/ Retransmit
  PROVE  ClientInv'
<1>1. Good(session)
  BY DEF ClientInv, TypeOK, UploadInRange, Good
<1>2. CASE FirstSend
  <2>1. OffsetInRange(session)
    BY <1>1, SendInRange
  <2> QED BY <1>2, <2>1 DEF FirstSend, send_frame, ClientInv, TypeOK, UploadInRange
<1>3. CASE Resend
  <2> DEFINE s == [session EXCEPT !.need_resend = FALSE]
  <2>1. Good(s)
    BY <1>1 DEF Good, Session, StartsInside, Offset
  <2>2. OffsetInRange(s)
    BY <2>1, SendInRange
  <2>3. /\ session' = s /\ pc' \in {"return", "poll"} /\ UNCHANGED panicked
        /\ retransmit_count' = 0 /\ expired' = FALSE
        /\ UNCHANGED <<s2c, msg_id, req, batch, result>>
    BY <1>3, <2>2 DEF Resend, send_frame
  <2>4. req \in 1 .. N
    BY <1>3 DEF ClientInv, Resend, ResendDue
  <2> HIDE DEF s
  <2>5. 0 \in 0 .. MAX_RETRANSMIT
    BY ClientAssumption
  <2>6. TypeOK'
    BY <2>1, <2>3, <2>5, Zenon DEF ClientInv, TypeOK, Good
  <2>7. UploadInRange'
    BY <2>1, <2>3 DEF ClientInv, UploadInRange, Good
  <2> QED BY <2>3, <2>4, <2>6, <2>7 DEF ClientInv
<1>4. CASE Retransmit
  <2>1. OffsetInRange(session)
    BY <1>1, SendInRange
  <2>2. retransmit_count + 1 \in 0 .. MAX_RETRANSMIT /\ pc = "check"
    BY <1>4, ClientAssumption DEF Retransmit, RetransmitDue, Waiting, ClientInv, TypeOK
  <2>3. /\ retransmit_count' = retransmit_count + 1 /\ expired' = FALSE
        /\ pc' = "poll"
        /\ UNCHANGED <<panicked, s2c, msg_id, req, session, batch, result>>
    BY <1>4, <2>1 DEF Retransmit, send_frame
  <2>4. TypeOK'
    BY <2>2, <2>3, Zenon DEF ClientInv, TypeOK
  <2> QED BY <2>2, <2>3, <2>4 DEF ClientInv, UploadInRange
<1> QED BY <1>2, <1>3, <1>4

\* Leaving request() keeps the invariant.
LEMMA LeaveInv ==
  ASSUME ClientInv, TransportFails \/ GiveUp \/ Return
  PROVE  ClientInv'
<1>1. req \in 1 .. N /\ session.msg_id \in MsgId
  BY DEF ClientInv, TypeOK, Session, TransportFails, ResendDue, RetransmitDue,
         Waiting, GiveUp, Return
<1>2. PICK o \in Outcome : result' = [result EXCEPT ![req] = o]
  <2>1. [kind |-> "io"] \in Outcome /\ [kind |-> "timeout"] \in Outcome
        /\ [kind |-> "protocol"] \in Outcome
    BY DEF Outcome
  <2>2. [kind |-> "response", code |-> session.resp_code,
         payload |-> session.resp_payload] \in Outcome
    BY DEF Outcome, ClientInv, TypeOK, Session
  <2> QED BY <2>1, <2>2 DEF TransportFails, GiveUp, Return
<1>3. result' \in [1 .. N -> Outcome]
  BY <1>1, <1>2 DEF ClientInv, TypeOK
<1>4. TypeOK'
  BY <1>1, <1>3 DEF ClientInv, TypeOK, TransportFails, GiveUp, Return
<1> QED
  BY <1>1, <1>4 DEF ClientInv, UploadInRange, TransportFails, GiveUp, Return

\* Waiting keeps the invariant.
LEMMA WaitInv ==
  ASSUME ClientInv, PollReturns \/ Finish \/ Sleep \/ DeadlinePasses
  PROVE  ClientInv'
<1>1. 0 \in 0 .. MaxBatch
  BY ClientAssumption
<1>2. TypeOK'
  BY <1>1, Zenon
  DEF ClientInv, TypeOK, PollReturns, Finish, Sleep, DeadlinePasses
<1> QED
  BY <1>2 DEF ClientInv, UploadInRange, PollReturns, Finish, Sleep, Waiting,
              DeadlinePasses

\* What the device sends, or takes off the line, keeps the invariant.
LEMMA AnyDeviceInv ==
  ASSUME ClientInv, AnySink \/ \E m \in Replies : AnyReply(m)
  PROVE  ClientInv'
<1>1. s2c' \in Seq(Reply)
  BY RepliesAssumption DEF ClientInv, AnySink, AnyReply
<1> QED
  BY <1>1 DEF ClientInv, TypeOK, UploadInRange, AnySink, AnyReply, clientVars

\* At first the client is idle and nothing is on the line.
LEMMA AnyStart == ASSUME AnyInit PROVE ClientInv
<1>1. session \in Session
  BY ClientAssumption, EmptySeq DEF AnyInit, ClientInit, NewSession, Session
<1>2. [kind |-> "pending"] \in Outcome
  BY DEF Outcome
<1>3. 0 \in 0 .. N /\ 0 \in 0 .. MaxBatch /\ 0 \in 0 .. MAX_RETRANSMIT
  BY ClientAssumption
<1>4. TypeOK
  BY <1>1, <1>2, <1>3, Zenon DEF AnyInit, ClientInit, TypeOK
<1>5. UploadInRange
  BY DEF AnyInit, ClientInit, UploadInRange, StartsInside, NewSession
<1> QED BY <1>4, <1>5, EmptySeq DEF ClientInv, AnyInit, ClientInit

\* The invariant holds against a device that may send anything.
LEMMA ClientInvHolds == AnySpec => []ClientInv
<1>1. AnyInit => ClientInv
  BY AnyStart
<1>2. ClientInv /\ [AnyNext]_<<c2s, s2c, clientVars>> => ClientInv'
  <2> SUFFICES ASSUME ClientInv, [AnyNext]_<<c2s, s2c, clientVars>> PROVE ClientInv'
    OBVIOUS
  <2>1. CASE UNCHANGED <<c2s, s2c, clientVars>>
    BY <2>1 DEF ClientInv, TypeOK, UploadInRange, clientVars
  <2>2. CASE ClientNext
    BY <2>2, RequestInv, OnFrameInv, SendInv, LeaveInv, WaitInv
    DEF ClientNext, ClientStep
  <2>3. CASE AnySink \/ \E m \in Replies : AnyReply(m)
    BY <2>3, AnyDeviceInv
  <2> QED BY <2>1, <2>2, <2>3 DEF AnyNext
<1> QED BY <1>1, <1>2, PTL DEF AnySpec

\* Whatever replies the device sends, in any order and number, every block of
\* an upload starts inside the request body and send_frame never indexes
\* outside it: for every body, block size, number of retransmissions and width
\* of the message id.
THEOREM UploadStaysInRange == AnySpec => []UploadInRange
<1>1. ClientInv => UploadInRange
  BY DEF ClientInv
<1> QED BY <1>1, ClientInvHolds, PTL

\* Whatever replies the device sends, the session, the message ids and the
\* count of retransmissions stay in their ranges.
THEOREM ClientTypes == AnySpec => []TypeOK
<1>1. ClientInv => TypeOK
  BY DEF ClientInv
<1> QED BY <1>1, ClientInvHolds, PTL
=============================================================================
