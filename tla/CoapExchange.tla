---------------------------- MODULE CoapExchange ----------------------------
(***************************************************************************)
(* The CoAP client, a device and the line between them.  MUP1 discards     *)
(* what it cannot decode and keeps order, so a message is lost or arrives  *)
(* in order; a second copy exists only when the client retransmits.        *)
(*                                                                         *)
(* The device is not part of the repository.  It follows RFC 7252 and RFC  *)
(* 7959: it answers a message id it has just seen with the same reply,     *)
(* stores Block1 chunks where they belong, carries the request out on the  *)
(* last one, may prefer smaller blocks than the client's, and may refuse   *)
(* any message with an error or with RST.                                  *)
(***************************************************************************)
EXTENDS CoapClient, FiniteSets

CONSTANTS
    RespLen,    \* RespLen[r]: length of the answer to request r
    DeviceSzx,  \* block sizes a device may prefer
    CanReset,   \* TRUE: the device may answer with RST
    Lossy       \* TRUE: the line may lose messages

ASSUME ExchangeAssumption ==
    /\ RespLen \in [1 .. N -> Nat]
    /\ DeviceSzx \subseteq 0 .. 7
    /\ CanReset \in BOOLEAN /\ Lossy \in BOOLEAN
    /\ \A r \in 1 .. N : \A i \in 1 .. RespLen[r] : <<r, i>> \in Unit
    /\ NoBlock \notin Block
    /\ NoError \notin {"spurious continue", "rst"}

VARIABLES
    dev_szx,   \* the block size this device prefers
    dev_last,  \* the last message id handled, with the reply to it
    dev_body,  \* the request body received so far
    executed   \* history: <<request, body>> for every request carried out

deviceVars == <<dev_szx, dev_last, dev_body, executed>>
vars == <<c2s, s2c, clientVars, deviceVars>>

None == [msg_id |-> -1]

ExchangeInit ==
    /\ ClientInit
    /\ c2s = <<>> /\ s2c = <<>>
    /\ dev_szx \in DeviceSzx
    /\ dev_last = None
    /\ dev_body = <<>>
    /\ executed = <<>>

-----------------------------------------------------------------------------
(* The device.                                                             *)

RequestBody(r) == [i \in 1 .. ReqLen[r] |-> <<r, i>>]
Answer(r) == [i \in 1 .. RespLen[r] |-> <<r, i>>]

MinSzx(szx) == IF dev_szx < szx THEN dev_szx ELSE szx

ReplyTo(m, code, b1, b2, payload) ==
    [msg_id |-> m.msg_id, msg_type |-> "Ack", code |-> code, block1 |-> b1,
     block2 |-> b2, payload |-> payload]

\* The block of the answer that m asks for, in the size the device prefers.
AnswerBlock(m) ==
    LET offset == m.block2.num * Size(m.block2.szx)
        szx == MinSzx(m.block2.szx)
        rest == RespLen[m.request] - offset
        take == IF rest < Size(szx) THEN rest ELSE Size(szx)
        block == [num |-> offset \div Size(szx), more |-> rest > Size(szx),
                  szx |-> szx]
    IN  ReplyTo(m, "ok", m.block1,
                IF offset = 0 /\ ~block.more THEN NoBlock ELSE block,
                SubSeq(Answer(m.request), offset + 1, offset + take))

\* The body with the chunk of m in its place.
Stored(m) ==
    IF m.block1 = NoBlock THEN m.payload
    ELSE SubSeq(dev_body, 1, m.block1.num * Size(m.block1.szx)) \o m.payload

Gap(m) == /\ m.block1 # NoBlock
          /\ m.block1.num * Size(m.block1.szx) > Len(dev_body)

Answered(m, reply) ==
    /\ c2s' = Tail(c2s)
    /\ s2c' = Append(s2c, reply)
    /\ dev_last' = [msg_id |-> m.msg_id, reply |-> reply]
    /\ UNCHANGED <<clientVars, dev_szx>>

Fresh(m) == m.msg_id # dev_last.msg_id

DeviceRepeats(m) ==
    /\ ~Fresh(m)
    /\ c2s' = Tail(c2s)
    /\ s2c' = Append(s2c, dev_last.reply)
    /\ UNCHANGED <<clientVars, deviceVars>>

DeviceStores(m) ==
    /\ Fresh(m) /\ ~Gap(m)
    /\ m.block1 # NoBlock /\ m.block1.more
    /\ dev_body' = Stored(m)
    /\ Answered(m, ReplyTo(m, RESPONSE_CONTINUE,
                           [m.block1 EXCEPT !.szx = MinSzx(@)], NoBlock, <<>>))
    /\ UNCHANGED executed

DeviceExecutes(m) ==
    /\ Fresh(m) /\ ~Gap(m) /\ m.block2.num = 0
    /\ m.block1 # NoBlock => ~m.block1.more
    /\ executed' = Append(executed, <<m.request, Stored(m)>>)
    /\ dev_body' = <<>>
    /\ Answered(m, AnswerBlock(m))

\* A device that takes the last block for one of several.
DeviceInsists(m) ==
    /\ Fresh(m) /\ ~Gap(m)
    /\ m.block1 # NoBlock /\ ~m.block1.more
    /\ dev_body' = Stored(m)
    /\ Answered(m, ReplyTo(m, RESPONSE_CONTINUE,
                           [m.block1 EXCEPT !.szx = MinSzx(@), !.more = TRUE], NoBlock, <<>>))
    /\ UNCHANGED executed

DeviceContinues(m) ==
    /\ Fresh(m) /\ m.block2.num > 0
    /\ Answered(m, AnswerBlock(m))
    /\ UNCHANGED <<dev_body, executed>>

DeviceRefuses(m) ==
    /\ Fresh(m)
    /\ dev_body' = <<>>
    /\ Answered(m, ReplyTo(m, "error", NoBlock, NoBlock, <<>>))
    /\ UNCHANGED executed

DeviceResets(m) ==
    /\ CanReset
    /\ Fresh(m)
    /\ dev_body' = <<>>
    /\ Answered(m, [ReplyTo(m, "error", NoBlock, NoBlock, <<>>)
                      EXCEPT !.msg_type = "Rst"])
    /\ UNCHANGED executed

Device ==
    /\ c2s # <<>>
    /\ LET m == Head(c2s)
       IN  \/ DeviceRepeats(m)
           \/ DeviceStores(m)
           \/ DeviceExecutes(m)
           \/ DeviceInsists(m)
           \/ DeviceContinues(m)
           \/ DeviceRefuses(m)
           \/ DeviceResets(m)

\* The line loses the next message, of either direction.
Loses ==
    /\ Lossy
    /\ \/ c2s # <<>> /\ c2s' = Tail(c2s) /\ UNCHANGED s2c
       \/ s2c # <<>> /\ s2c' = Tail(s2c) /\ UNCHANGED c2s
    /\ UNCHANGED <<clientVars, deviceVars>>

ExchangeNext ==
    \/ ClientNext /\ UNCHANGED deviceVars
    \/ Device
    \/ Loses

ExchangeSpec == ExchangeInit /\ [][ExchangeNext]_vars

\* The client process runs and its clock advances; nothing is assumed of the
\* device or of the line.
FairExchangeSpec ==
    /\ ExchangeSpec
    /\ WF_vars(ClientStep /\ UNCHANGED deviceVars)
    /\ WF_vars(DeadlinePasses /\ UNCHANGED deviceVars)

-----------------------------------------------------------------------------
(* Properties.                                                             *)

Phase(r) ==
    CASE r > req -> "new"
      [] r <= req /\ result[r].kind = "pending" -> "open"
      [] r <= req /\ result[r].kind = "response" ->
           IF result[r].code # "ok" THEN "failed"
           ELSE IF result[r].payload = Answer(r) THEN "answered" ELSE "corrupt"
      [] OTHER -> "failed"

\* The requests carried out, provided each had the body its caller gave.
ExecutedOnce ==
    {e \in 1 .. N : \E i \in DOMAIN executed : executed[i][1] = e}
        \cup {0 : i \in {i \in DOMAIN executed :
                            \/ executed[i][2] # RequestBody(executed[i][1])
                            \/ \E j \in 1 .. i - 1 : executed[j][1] = executed[i][1]}}

Service == INSTANCE CoapService
             WITH phase <- [r \in 1 .. N |-> Phase(r)], executed <- ExecutedOnce

\* Over a line that loses messages, with retransmissions, blocks in both
\* directions, sizes the device negotiates, resets and late replies to earlier
\* requests, request() keeps what CoapService promises.
Promise == Service!Spec

\* A chunk of a request body never leaves a gap after the chunks the device has
\* stored, even when the device asks for smaller blocks half way.
UploadContiguous == c2s # <<>> /\ Fresh(Head(c2s)) => ~Gap(Head(c2s))

\* Every request returns, whatever the device and the line do: with an answer,
\* with an error, or after the last retransmission.
RequestReturns == \A r \in 1 .. N : (req = r) ~> (result[r].kind # "pending")

\* The reply to a retransmitted message is used once: what request() returns as
\* the device's answer is the answer.
AnswerIntact ==
    \A r \in 1 .. N :
        result[r].kind = "response" /\ result[r].code = "ok"
            => result[r].payload = Answer(r)
=============================================================================
