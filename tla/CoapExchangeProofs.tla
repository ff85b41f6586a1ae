------------------------- MODULE CoapExchangeProofs -------------------------
(***************************************************************************)
(* The client, over a line that loses messages, implements CoapService:    *)
(* for any number of requests, any bodies and answers, any block sizes and *)
(* any number of losses and retransmissions, provided a poll hands over    *)
(* one reply at a time and message ids do not run out.                     *)
(*                                                                         *)
(* Two invariants carry the proof.  ExchangeInv says that client, line and *)
(* device agree: the messages on the line are in groups of one id, only    *)
(* the last of which is the current one (Line); the device is prepared for *)
(* every message that it has not handled (Ready); a reply to the current   *)
(* message is the device's last and says what the device has done          *)
(* (Handled); and the client has received the answer up to the block that  *)
(* it asks for (Downloaded).  IdsInv says that the ids in use are among    *)
(* the last ones that the client took.                                     *)
(***************************************************************************)
EXTENDS CoapExchange, CoapClientProofs

-----------------------------------------------------------------------------
(* Chunks of bodies and answers.                                           *)

\* The n units that follow the first o, of the body of request r or of the
\* answer to it.
Chunk(r, o, n) == [i \in 1 .. n |-> <<r, o + i>>]

\* A chunk is a sequence of its length.
LEMMA ChunkSeq ==
  ASSUME NEW r \in Nat, NEW o \in Nat, NEW n \in Nat
  PROVE  /\ Chunk(r, o, n) \in Seq(Nat \X Nat) /\ Len(Chunk(r, o, n)) = n
         /\ \A i \in 1 .. n : Chunk(r, o, n)[i] = <<r, o + i>>
  BY DEF Chunk

\* Two sequences with the same elements are the same.
LEMMA SameSeq ==
  ASSUME NEW S, NEW a \in Seq(S), NEW b \in Seq(S), Len(a) = Len(b),
         \A i \in 1 .. Len(a) : a[i] = b[i]
  PROVE  a = b
  OBVIOUS

\* Elements of a concatenation.
LEMMA CatElements ==
  ASSUME NEW S, NEW a \in Seq(S), NEW b \in Seq(S)
  PROVE  /\ a \o b \in Seq(S) /\ Len(a \o b) = Len(a) + Len(b)
         /\ \A i \in 1 .. Len(a) + Len(b) :
              (a \o b)[i] = IF i <= Len(a) THEN a[i] ELSE b[i - Len(a)]
  OBVIOUS

\* A chunk continued by the next.
LEMMA ChunkCat ==
  ASSUME NEW r \in Nat, NEW a \in Nat, NEW b \in Nat
  PROVE  Chunk(r, 0, a) \o Chunk(r, a, b) = Chunk(r, 0, a + b)
<1> DEFINE x == Chunk(r, 0, a)
           y == Chunk(r, a, b)
           z == Chunk(r, 0, a + b)
           c == x \o y
<1>1. /\ x \in Seq(Nat \X Nat) /\ Len(x) = a
      /\ \A i \in 1 .. a : x[i] = <<r, 0 + i>>
  BY ChunkSeq
<1>2. /\ y \in Seq(Nat \X Nat) /\ Len(y) = b
      /\ \A i \in 1 .. b : y[i] = <<r, a + i>>
  BY ChunkSeq
<1>3. /\ z \in Seq(Nat \X Nat) /\ Len(z) = a + b
      /\ \A i \in 1 .. a + b : z[i] = <<r, 0 + i>>
  <2>1. a + b \in Nat
    OBVIOUS
  <2> HIDE DEF z
  <2> QED BY <2>1, ChunkSeq DEF z
<1> HIDE DEF x, y, z
<1>4. /\ c \in Seq(Nat \X Nat) /\ Len(c) = a + b
      /\ \A i \in 1 .. a + b : c[i] = IF i <= a THEN x[i] ELSE y[i - a]
  BY <1>1, <1>2, CatElements
<1> HIDE DEF c
<1>5. \A i \in 1 .. a + b : c[i] = z[i]
  <2> SUFFICES ASSUME NEW i \in 1 .. a + b PROVE c[i] = z[i]
    OBVIOUS
  <2>1. CASE i <= a
    <3>1. i \in 1 .. a /\ c[i] = x[i]
      BY <1>4, <2>1
    <3> QED BY <1>1, <1>3, <3>1, Zenon
  <2>2. CASE ~(i <= a)
    <3>1. i - a \in 1 .. b /\ a + (i - a) = 0 + i
      BY <2>2
    <3> QED BY <1>2, <1>3, <1>4, <2>2, <3>1
  <2> QED BY <2>1, <2>2
<1>6. c = z
  BY <1>3, <1>4, <1>5, SameSeq
<1> QED BY <1>6 DEF c, x, y, z

\* The n units of q that follow the first o.
Part(q, o, n) == SubSeq(q, o + 1, o + n)

\* A part of a chunk.
LEMMA ChunkSub ==
  ASSUME NEW r \in Nat, NEW n \in Nat, NEW a \in Nat, NEW b \in Nat, a + b <= n
  PROVE  Part(Chunk(r, 0, n), a, b) = Chunk(r, a, b)
<1> DEFINE x == Chunk(r, 0, n)
           y == SubSeq(x, a + 1, a + b)
           z == Chunk(r, a, b)
<1>1. /\ x \in Seq(Nat \X Nat) /\ Len(x) = n
      /\ \A i \in 1 .. n : x[i] = <<r, 0 + i>>
  BY ChunkSeq
<1>2. /\ z \in Seq(Nat \X Nat) /\ Len(z) = b
      /\ \A i \in 1 .. b : z[i] = <<r, a + i>>
  BY ChunkSeq
<1> HIDE DEF x, z
<1>3. /\ y \in Seq(Nat \X Nat) /\ Len(y) = b
      /\ \A i \in 1 .. b : y[i] = x[a + i]
  BY <1>1
<1> HIDE DEF y
<1>4. \A i \in 1 .. b : y[i] = z[i]
  <2> SUFFICES ASSUME NEW i \in 1 .. b PROVE y[i] = z[i]
    OBVIOUS
  <2>1. a + i \in 1 .. n /\ 0 + (a + i) = a + i
    OBVIOUS
  <2> QED BY <1>1, <1>2, <1>3, <2>1
<1>5. y = z
  BY <1>2, <1>3, <1>4, SameSeq
<1> QED BY <1>5 DEF Part, x, y, z

-----------------------------------------------------------------------------
(* Block sizes.                                                            *)

\* A size is positive, and a larger one a multiple of a smaller one.
LEMMA SizeDivides ==
  ASSUME NEW s \in 0 .. 7, NEW t \in 0 .. 7, s <= t
  PROVE  /\ Size(s) \in Nat \ {0} /\ Size(t) \in Nat \ {0} /\ Size(s) <= Size(t)
         /\ \A n \in Nat : ((n * Size(t)) \div Size(s)) * Size(s) = n * Size(t)
<1>1. /\ Size(0) = 1 /\ Size(1) = 2 /\ Size(2) = 4 /\ Size(3) = 8
      /\ Size(4) = 16 /\ Size(5) = 32 /\ Size(6) = 64 /\ Size(7) = 128
  BY DEF Size
<1>2. CASE s = 0
  BY <1>1, <1>2, SMTT(30)
<1>3. CASE s = 1
  BY <1>1, <1>3, SMTT(30)
<1>4. CASE s = 2
  BY <1>1, <1>4, SMTT(30)
<1>5. CASE s = 3
  BY <1>1, <1>5, SMTT(30)
<1>6. CASE s = 4
  BY <1>1, <1>6, SMTT(30)
<1>7. CASE s \in {5, 6, 7}
  BY <1>1, <1>7, SMTT(30)
<1> QED BY <1>2, <1>3, <1>4, <1>5, <1>6, <1>7

-----------------------------------------------------------------------------
(* The messages on their way to the device.                                *)

RequestMessage ==
    [msg_id : MsgId, request : 0 .. N, block1 : Block \cup {NoBlock},
     block2 : Block, payload : Seq(Nat \X Nat)]

\* Where a block starts.
From(b) == b.num * Size(b.szx)

\* A message that starts a request.
Initial(m) == m.block2.num = 0 /\ (m.block1 # NoBlock => m.block1.num = 0)

\* What a message carries is what its block options say.
WellFormed(m) == m.request > 0 =>
    /\ From(m.block2) <= RespLen[m.request]
    /\ m.block2.num > 0 => m.block1 = NoBlock
    /\ m.block2.num = 0 /\ m.block1 = NoBlock => m.payload = RequestBody(m.request)
    /\ m.block1 # NoBlock =>
         /\ m.payload = Chunk(m.request, From(m.block1), Len(m.payload))
         /\ m.block1.more => Len(m.payload) = Size(m.block1.szx)
         /\ ~m.block1.more => From(m.block1) + Len(m.payload) = ReqLen[m.request]

\* The line q ends with the current message of the client; d is the message id
\* that the device handled last.  Messages with one id follow one another and
\* are the same if the id is the current one, and those behind a message that
\* the device has not handled start later requests.
Line(d, q) ==
    /\ q \in Seq(RequestMessage) /\ Len(q) > 0
    /\ \A i, j, k \in 1 .. Len(q) :
          i <= j /\ j <= k /\ q[i].msg_id = q[k].msg_id => q[j].msg_id = q[i].msg_id
    /\ \A j, k \in 1 .. Len(q) : j <= k /\ q[k].msg_id = d => q[j].msg_id = d
    /\ \A i \in 1 .. Len(q) : q[i].msg_id = q[Len(q)].msg_id => q[i] = q[Len(q)]
    /\ \A i, j \in 1 .. Len(q) :
          i < j /\ q[i].msg_id # d /\ q[i].msg_id # q[j].msg_id
            => Initial(q[j]) /\ q[i].request < q[j].request
    /\ \A i \in 1 .. Len(q) : q[i].request <= q[Len(q)].request
    /\ \A i \in 1 .. Len(q) : WellFormed(q[i])

\* Messages with one id follow one another.
LEMMA LineGroup ==
  ASSUME NEW d, NEW q, Line(d, q), NEW i \in 1 .. Len(q), NEW j \in 1 .. Len(q),
         NEW k \in 1 .. Len(q), i <= j, j <= k, q[i].msg_id = q[k].msg_id
  PROVE  q[j].msg_id = q[i].msg_id
<1>1. \A a, b, e \in 1 .. Len(q) :
        a <= b /\ b <= e /\ q[a].msg_id = q[e].msg_id => q[b].msg_id = q[a].msg_id
  BY DEF Line
<1> QED BY <1>1

\* Before messages that the device has handled last come no others.
LEMMA LineHandled ==
  ASSUME NEW d, NEW q, Line(d, q), NEW j \in 1 .. Len(q), NEW k \in 1 .. Len(q),
         j <= k, q[k].msg_id = d
  PROVE  q[j].msg_id = d
<1>1. \A a, b \in 1 .. Len(q) : a <= b /\ q[b].msg_id = d => q[a].msg_id = d
  BY DEF Line
<1> QED BY <1>1

\* Behind a message that the device has not handled come later requests.
LEMMA LineLater ==
  ASSUME NEW d, NEW q, Line(d, q), NEW i \in 1 .. Len(q), NEW j \in 1 .. Len(q),
         i < j, q[i].msg_id # d, q[i].msg_id # q[j].msg_id
  PROVE  Initial(q[j]) /\ q[i].request < q[j].request
<1>1. \A a, b \in 1 .. Len(q) :
        a < b /\ q[a].msg_id # d /\ q[a].msg_id # q[b].msg_id
          => Initial(q[b]) /\ q[a].request < q[b].request
  BY DEF Line
<1> QED BY <1>1

\* Taking messages out of the line, or repeating them, keeps it so.
LEMMA Thinned ==
  ASSUME NEW d, NEW q, Line(d, q), NEW p \in Seq(RequestMessage), Len(p) > 0,
         NEW f \in [1 .. Len(p) -> 1 .. Len(q)],
         \A i \in 1 .. Len(p) : p[i] = q[f[i]],
         \A i, j \in 1 .. Len(p) : i <= j => f[i] <= f[j],
         f[Len(p)] = Len(q)
  PROVE  Line(d, p)
<1> DEFINE m == Len(p)
           n == Len(q)
<1>1. m \in 1 .. m /\ n \in Nat
  BY DEF Line
<1>2. \A i \in 1 .. m : f[i] \in 1 .. n /\ f[i] \in Int
  BY <1>1
<1>3. p[m] = q[n]
  BY <1>1
<1>4. ASSUME NEW i \in 1 .. m, NEW j \in 1 .. m, NEW k \in 1 .. m,
             i <= j, j <= k, p[i].msg_id = p[k].msg_id
      PROVE  p[j].msg_id = p[i].msg_id
  <2>1. f[i] <= f[j] /\ f[j] <= f[k]
    BY <1>4
  <2>2. p[i] = q[f[i]] /\ p[j] = q[f[j]] /\ p[k] = q[f[k]]
    BY Zenon
  <2>3. q[f[i]].msg_id = q[f[k]].msg_id
    BY <1>4, <2>2, Zenon
  <2>4. q[f[j]].msg_id = q[f[i]].msg_id
    BY <1>2, <2>1, <2>3, LineGroup
  <2> QED BY <2>2, <2>4, Zenon
<1>5. ASSUME NEW j \in 1 .. m, NEW k \in 1 .. m, j <= k, p[k].msg_id = d
      PROVE  p[j].msg_id = d
  <2>1. f[j] <= f[k]
    BY <1>5
  <2>2. p[j] = q[f[j]] /\ p[k] = q[f[k]]
    BY Zenon
  <2>3. q[f[k]].msg_id = d
    BY <1>5, <2>2, Zenon
  <2>4. q[f[j]].msg_id = d
    BY <1>2, <2>1, <2>3, LineHandled
  <2> QED BY <2>2, <2>4, Zenon
<1>6. ASSUME NEW i \in 1 .. m, p[i].msg_id = p[m].msg_id
      PROVE  p[i] = p[m]
  <2>1. p[i] = q[f[i]]
    BY Zenon
  <2> QED BY <1>2, <1>3, <1>6, <2>1, Zenon DEF Line
<1>7. ASSUME NEW i \in 1 .. m, NEW j \in 1 .. m, i < j, p[i].msg_id # d,
             p[i].msg_id # p[j].msg_id
      PROVE  Initial(p[j]) /\ p[i].request < p[j].request
  <2>1. p[i] = q[f[i]] /\ p[j] = q[f[j]]
    BY Zenon
  <2>2. f[i] <= f[j]
    BY <1>7
  <2>3. f[i] # f[j]
    BY <1>7, <2>1
  <2>4. f[i] < f[j]
    BY <1>2, <2>2, <2>3
  <2>5. q[f[i]].msg_id # d /\ q[f[i]].msg_id # q[f[j]].msg_id
    BY <1>7, <2>1, Zenon
  <2>6. Initial(q[f[j]]) /\ q[f[i]].request < q[f[j]].request
    BY <1>2, <2>4, <2>5, LineLater, Zenon
  <2> QED BY <2>1, <2>6, Zenon
<1>8. ASSUME NEW i \in 1 .. m
      PROVE  p[i].request <= p[m].request /\ WellFormed(p[i])
  <2>1. p[i] = q[f[i]]
    BY Zenon
  <2> QED BY <1>2, <1>3, <2>1, Zenon DEF Line
<1> QED BY <1>4, <1>5, <1>6, <1>7, <1>8, Zenon DEF Line

\* The current message is sent once more.
LEMMA SentAgain ==
  ASSUME NEW d, NEW c \in Seq(RequestMessage), NEW x \in RequestMessage,
         Line(d, Append(c, x))
  PROVE  Line(d, Append(Append(c, x), x))
<1> DEFINE q == Append(c, x)
           p == Append(q, x)
           n == Len(c) + 1
           f == [i \in 1 .. n + 1 |-> IF i <= n THEN i ELSE n]
<1>1. Len(c) \in Nat /\ q \in Seq(RequestMessage) /\ Len(q) = n /\ q[n] = x
  OBVIOUS
<1> HIDE DEF q
<1>2. /\ p \in Seq(RequestMessage) /\ Len(p) = n + 1 /\ p[n + 1] = x
      /\ \A i \in 1 .. n : p[i] = q[i]
  BY <1>1
<1> HIDE DEF p
<1>3. n \in Nat \ {0}
  BY <1>1
<1> HIDE DEF n
<1>4. f \in [1 .. Len(p) -> 1 .. Len(q)] /\ f[Len(p)] = Len(q)
  BY <1>1, <1>2, <1>3
<1>5. \A i \in 1 .. Len(p) : p[i] = q[f[i]]
  BY <1>1, <1>2, <1>3
<1>6. \A i, j \in 1 .. Len(p) : i <= j => f[i] <= f[j]
  BY <1>1, <1>2, <1>3
<1>7. Len(p) > 0
  BY <1>2, <1>3
<1>8. Line(d, q)
  BY DEF q
<1> HIDE DEF f
<1>9. Line(d, p)
  BY <1>2, <1>4, <1>5, <1>6, <1>7, <1>8, Thinned
<1> QED BY <1>9 DEF p, q

\* The elements of the line behind its head.
LEMMA TailLine ==
  ASSUME NEW c \in Seq(RequestMessage), c # <<>>, NEW x \in RequestMessage
  PROVE  /\ Append(c, x) \in Seq(RequestMessage) /\ Len(Append(c, x)) = Len(c) + 1
         /\ Append(Tail(c), x) \in Seq(RequestMessage)
         /\ Len(Append(Tail(c), x)) = Len(c) /\ Len(c) \in Nat \ {0}
         /\ \A i \in 1 .. Len(c) : Append(Tail(c), x)[i] = Append(c, x)[i + 1]
         /\ Append(c, x)[1] = Head(c) /\ Append(c, x)[Len(c) + 1] = x
<1>1. Len(c) \in Nat \ {0}
  OBVIOUS
<1> DEFINE t == Tail(c)
<1>2. /\ t \in Seq(RequestMessage) /\ Len(t) = Len(c) - 1
      /\ \A i \in 1 .. Len(c) - 1 : t[i] = c[i + 1]
  BY <1>1
<1> HIDE DEF t
<1>3. /\ Append(t, x) \in Seq(RequestMessage) /\ Len(Append(t, x)) = Len(c)
      /\ \A i \in 1 .. Len(c) : Append(t, x)[i] = IF i <= Len(c) - 1 THEN t[i] ELSE x
  BY <1>1, <1>2
<1>4. /\ Append(c, x) \in Seq(RequestMessage) /\ Len(Append(c, x)) = Len(c) + 1
      /\ \A i \in 1 .. Len(c) : Append(c, x)[i] = c[i]
      /\ Append(c, x)[Len(c) + 1] = x
  BY <1>1
<1>5. \A i \in 1 .. Len(c) : Append(t, x)[i] = Append(c, x)[i + 1]
  BY <1>1, <1>2, <1>3, <1>4
<1>6. Append(c, x)[1] = Head(c)
  BY <1>1, <1>4
<1> QED BY <1>1, <1>3, <1>4, <1>5, <1>6 DEF t

\* The head is lost, or the device has handled its id before.
LEMMA HeadGone ==
  ASSUME NEW d, NEW c \in Seq(RequestMessage), c # <<>>, NEW x \in RequestMessage,
         Line(d, Append(c, x))
  PROVE  Line(d, Append(Tail(c), x))
<1> DEFINE q == Append(c, x)
           p == Append(Tail(c), x)
           n == Len(c)
           f == [i \in 1 .. n |-> i + 1]
<1>1. /\ q \in Seq(RequestMessage) /\ Len(q) = n + 1
      /\ p \in Seq(RequestMessage) /\ Len(p) = n /\ n \in Nat \ {0}
      /\ \A i \in 1 .. n : p[i] = q[i + 1]
  BY TailLine, Zenon
<1> HIDE DEF q, p, n
<1>2. f \in [1 .. Len(p) -> 1 .. Len(q)] /\ f[Len(p)] = Len(q)
  BY <1>1
<1>3. \A i \in 1 .. Len(p) : p[i] = q[f[i]]
  BY <1>1
<1>4. \A i, j \in 1 .. Len(p) : i <= j => f[i] <= f[j]
  BY <1>1
<1>5. Len(p) > 0
  BY <1>1
<1>6. Line(d, q)
  BY DEF q
<1> HIDE DEF f
<1>7. Line(d, p)
  BY <1>1, <1>2, <1>3, <1>4, <1>5, <1>6, Thinned
<1> QED BY <1>7 DEF p

\* The device handles the head, which it has not seen before: what follows it
\* with another id starts later requests.
LEMMA HeadHandled ==
  ASSUME NEW d, NEW c \in Seq(RequestMessage), c # <<>>, NEW x \in RequestMessage,
         Line(d, Append(c, x)), Head(c).msg_id # d
  PROVE  /\ Line(Head(c).msg_id, Append(Tail(c), x))
         /\ \A i \in 1 .. Len(c) :
              LET m == Append(Tail(c), x)[i]
              IN  m.msg_id # Head(c).msg_id =>
                     /\ Initial(m) /\ Head(c).request < m.request
                     /\ m.msg_id # d
<1> DEFINE q == Append(c, x)
           p == Append(Tail(c), x)
           n == Len(c)
           h == Head(c)
           e == h.msg_id
<1>1. /\ q \in Seq(RequestMessage) /\ Len(q) = n + 1 /\ n \in Nat \ {0}
      /\ p \in Seq(RequestMessage) /\ Len(p) = n
      /\ \A i \in 1 .. n : p[i] = q[i + 1]
      /\ q[1] = h
  BY TailLine, Zenon
<1>2. Line(d, p)
  BY HeadGone
<1>3. Line(d, q)
  OBVIOUS
<1> HIDE DEF q, p, n, h
<1>4. 1 \in 1 .. Len(q) /\ q[1].msg_id = e /\ e # d
  BY <1>1 DEF h
<1>5. \A k \in 1 .. n : k + 1 \in 1 .. Len(q) /\ 1 < k + 1 /\ 1 <= k + 1
  BY <1>1
<1>6. ASSUME NEW k \in 1 .. n
      PROVE  p[k].msg_id # d
  <2>1. p[k] = q[k + 1]
    BY <1>1
  <2> QED BY <1>3, <1>4, <1>5, <2>1, Zenon DEF Line
<1>7. ASSUME NEW j \in 1 .. n, NEW k \in 1 .. n, j <= k, p[k].msg_id = e
      PROVE  p[j].msg_id = e
  <2>1. p[k] = q[k + 1] /\ p[j] = q[j + 1] /\ j + 1 <= k + 1
    BY <1>1, <1>7
  <2>2. q[1].msg_id = q[k + 1].msg_id
    BY <1>4, <1>7, <2>1, Zenon
  <2>3. q[j + 1].msg_id = q[1].msg_id
    BY <1>3, <1>4, <1>5, <2>1, <2>2, LineGroup
  <2> QED BY <1>4, <2>1, <2>3, Zenon
<1>8. ASSUME NEW i \in 1 .. n, p[i].msg_id # e
      PROVE  Initial(p[i]) /\ h.request < p[i].request
  <2>1. p[i] = q[i + 1]
    BY <1>1
  <2>2. q[1].msg_id # d /\ q[1].msg_id # q[i + 1].msg_id
    BY <1>4, <1>8, <2>1, Zenon
  <2>3. Initial(q[i + 1]) /\ q[1].request < q[i + 1].request
    BY <1>3, <1>4, <1>5, <2>2, LineLater, Zenon
  <2> QED BY <1>1, <2>1, <2>3, Zenon
<1>9. Line(e, p)
  <2>1. \A j, k \in 1 .. Len(p) : j <= k /\ p[k].msg_id = e => p[j].msg_id = e
    BY <1>1, <1>7, Zenon
  <2>2. \A i, j \in 1 .. Len(p) :
          i < j /\ p[i].msg_id # e /\ p[i].msg_id # p[j].msg_id
            => Initial(p[j]) /\ p[i].request < p[j].request
    BY <1>1, <1>2, <1>6, Zenon DEF Line
  <2> HIDE DEF e
  <2> QED BY <1>2, <2>1, <2>2, Zenon DEF Line
<1> QED BY <1>1, <1>6, <1>8, <1>9, Zenon DEF p, h, n

\* The client goes on to a new id after the device handled the current one.
LEMMA Advanced ==
  ASSUME NEW d, NEW c \in Seq(RequestMessage), NEW x \in RequestMessage,
         Line(d, Append(c, x)), x.msg_id = d,
         NEW y \in RequestMessage, y.msg_id # d, y.request = x.request, WellFormed(y)
  PROVE  /\ Line(d, Append(c, y))
         /\ \A i \in 1 .. Len(c) : c[i].msg_id = d
<1> DEFINE q == Append(c, x)
           p == Append(c, y)
           n == Len(c) + 1
<1>1. /\ q \in Seq(RequestMessage) /\ Len(q) = n /\ q[n] = x
      /\ \A i \in 1 .. Len(c) : q[i] = c[i]
  OBVIOUS
<1>2. /\ p \in Seq(RequestMessage) /\ Len(p) = n /\ p[n] = y
      /\ \A i \in 1 .. Len(c) : p[i] = c[i]
  OBVIOUS
<1>3. Line(d, q) /\ Len(c) \in Nat /\ n \in 1 .. n /\ n > 0
  OBVIOUS
<1>4. \A i \in 1 .. n : i = n \/ i \in 1 .. Len(c)
  BY <1>3
<1>5. \A i \in 1 .. Len(c) : i \in 1 .. n /\ i <= n /\ ~(n <= i) /\ i # n
  BY <1>3
<1> HIDE DEF q, p, n
<1>6. ASSUME NEW i \in 1 .. Len(c) PROVE c[i].msg_id = d
  BY <1>1, <1>3, <1>5, Zenon DEF Line
<1>7. \A i \in 1 .. Len(c) : p[i].msg_id = d /\ p[i].request <= y.request /\ WellFormed(p[i])
  <2> SUFFICES ASSUME NEW i \in 1 .. Len(c)
               PROVE  p[i].msg_id = d /\ p[i].request <= y.request /\ WellFormed(p[i])
    BY Zenon
  <2>1. q[i].request <= q[n].request /\ WellFormed(q[i])
    BY <1>1, <1>3, <1>5, Zenon DEF Line
  <2>2. p[i] = q[i] /\ q[n].request = y.request
    BY <1>1, <1>2, Zenon
  <2> QED BY <1>2, <1>6, <2>1, <2>2, Zenon
<1>8. y.request <= y.request
  BY DEF RequestMessage
<1>9. \A i \in 1 .. n : p[i].msg_id = y.msg_id => p[i] = y
  BY <1>2, <1>4, <1>7, Zenon
<1>10. \A i, j \in 1 .. n : i < j => i \in 1 .. Len(c)
  BY <1>3, <1>4, <1>5 DEF n
<1>11. \A i, j \in 1 .. n : i <= j /\ p[j].msg_id = d => p[i].msg_id = d
  BY <1>2, <1>3, <1>4, <1>5, <1>7, Zenon
<1>12. \A i, j, k \in 1 .. n :
          i <= j /\ j <= k /\ p[i].msg_id = p[k].msg_id => p[j].msg_id = p[i].msg_id
  <2> SUFFICES ASSUME NEW i \in 1 .. n, NEW j \in 1 .. n, NEW k \in 1 .. n,
                      i <= j, j <= k, p[i].msg_id = p[k].msg_id
               PROVE  p[j].msg_id = p[i].msg_id
    BY Zenon
  <2>1. CASE i \in 1 .. Len(c)
    BY <1>7, <1>11, <2>1, Zenon
  <2>2. CASE i = n
    <3>1. j = n
      BY <1>4, <1>5, <2>2, Zenon
    <3> QED BY <2>2, <3>1
  <2> QED BY <1>4, <2>1, <2>2, Zenon
<1>13. \A i \in 1 .. n : p[i].request <= y.request /\ WellFormed(p[i])
  BY <1>2, <1>4, <1>7, <1>8, Zenon
<1>14. Line(d, p)
  BY <1>2, <1>3, <1>7, <1>9, <1>10, <1>11, <1>12, <1>13, Zenon DEF Line
<1> QED BY <1>6, <1>14, Zenon DEF p

\* The client starts a request with an id that is not in use.
LEMMA Started ==
  ASSUME NEW d, NEW c \in Seq(RequestMessage), NEW x \in RequestMessage,
         Line(d, Append(c, x)), NEW y \in RequestMessage, y.msg_id # d,
         \A i \in 1 .. Len(c) : c[i].msg_id # y.msg_id,
         x.request < y.request, Initial(y), WellFormed(y)
  PROVE  Line(d, Append(c, y))
<1> DEFINE q == Append(c, x)
           p == Append(c, y)
           n == Len(c) + 1
<1>1. /\ q \in Seq(RequestMessage) /\ Len(q) = n /\ q[n] = x
      /\ \A i \in 1 .. Len(c) : q[i] = c[i]
  OBVIOUS
<1>2. /\ p \in Seq(RequestMessage) /\ Len(p) = n /\ p[n] = y
      /\ \A i \in 1 .. Len(c) : p[i] = c[i]
  OBVIOUS
<1>3. Line(d, q) /\ Len(c) \in Nat /\ n \in 1 .. n /\ n > 0
  OBVIOUS
<1>4. \A i \in 1 .. n : i = n \/ i \in 1 .. Len(c)
  BY <1>3
<1>5. \A i \in 1 .. Len(c) : i \in 1 .. n /\ i <= n /\ ~(n <= i) /\ i # n
  BY <1>3
<1>6. \A i, j \in 1 .. n : i < j => i \in 1 .. Len(c)
  BY <1>3, <1>4, <1>5
<1>7. \A i, j \in 1 .. n : i <= j /\ j \in 1 .. Len(c) => i \in 1 .. Len(c)
  BY <1>3, <1>4, <1>5
<1> HIDE DEF q, p, n
<1>8. \A i \in 1 .. Len(c) : p[i].msg_id # y.msg_id /\ p[i] = q[i]
  BY <1>1, <1>2, Zenon
<1>9. \A i \in 1 .. Len(c) : p[i].request < y.request /\ WellFormed(p[i])
  <2> SUFFICES ASSUME NEW i \in 1 .. Len(c)
               PROVE  p[i].request < y.request /\ WellFormed(p[i])
    OBVIOUS
  <2>1. p[i] = q[i] /\ q[i].request <= x.request /\ WellFormed(q[i])
    BY <1>1, <1>3, <1>5, <1>8, Zenon DEF Line
  <2>2. p[i] \in RequestMessage
    BY <1>2, <1>5
  <2>3. p[i].request \in 0 .. N /\ x.request \in 0 .. N /\ y.request \in 0 .. N
    BY <2>2 DEF RequestMessage
  <2> QED BY <2>1, <2>3
<1>10. \A i \in 1 .. n : p[i].request <= y.request /\ WellFormed(p[i])
  <2>1. ASSUME NEW i \in 1 .. Len(c) PROVE p[i].request <= y.request
    <3>1. p[i] \in RequestMessage
      BY <1>2, <1>5
    <3>2. p[i].request \in 0 .. N /\ y.request \in 0 .. N
      BY <3>1 DEF RequestMessage
    <3>3. p[i].request < y.request
      BY <1>9, Zenon
    <3> QED BY <3>2, <3>3
  <2>2. y.request <= y.request
    BY DEF RequestMessage
  <2> QED BY <1>2, <1>4, <1>9, <2>1, <2>2, Zenon
<1>11. \A i \in 1 .. n : p[i].msg_id = y.msg_id => p[i] = y
  BY <1>2, <1>4, <1>8, Zenon
<1>12. \A i, j \in 1 .. n :
          i < j /\ p[i].msg_id # d /\ p[i].msg_id # p[j].msg_id
            => Initial(p[j]) /\ p[i].request < p[j].request
  <2> SUFFICES ASSUME NEW i \in 1 .. n, NEW j \in 1 .. n,
                      i < j, p[i].msg_id # d, p[i].msg_id # p[j].msg_id
               PROVE  Initial(p[j]) /\ p[i].request < p[j].request
    BY Zenon
  <2>1. i \in 1 .. Len(c)
    BY <1>6, Zenon
  <2>2. CASE j = n
    BY <1>2, <1>9, <2>1, <2>2, Zenon
  <2>3. CASE j \in 1 .. Len(c)
    <3>1. q[i].msg_id # d /\ q[i].msg_id # q[j].msg_id
      BY <1>8, <2>1, <2>3, Zenon
    <3>2. Initial(q[j]) /\ q[i].request < q[j].request
      BY <1>1, <1>3, <3>1, LineLater, Zenon
    <3> QED BY <1>8, <2>1, <2>3, <3>2, Zenon
  <2> QED BY <1>4, <2>2, <2>3, Zenon
<1>13. \A j, k \in 1 .. n : j <= k /\ p[k].msg_id = d => p[j].msg_id = d
  <2> SUFFICES ASSUME NEW j \in 1 .. n, NEW k \in 1 .. n, j <= k, p[k].msg_id = d
               PROVE  p[j].msg_id = d
    BY Zenon
  <2>1. k \in 1 .. Len(c)
    BY <1>2, <1>4, Zenon
  <2>2. j \in 1 .. Len(c)
    BY <1>7, <2>1, Zenon
  <2>3. j \in 1 .. Len(q) /\ k \in 1 .. Len(q) /\ q[k].msg_id = d
    BY <1>1, <1>8, <2>1, Zenon
  <2>4. q[j].msg_id = d
    BY <1>3, <2>3, LineHandled
  <2> QED BY <1>8, <2>2, <2>4, Zenon
<1>14. \A i, j, k \in 1 .. n :
          i <= j /\ j <= k /\ p[i].msg_id = p[k].msg_id => p[j].msg_id = p[i].msg_id
  <2> SUFFICES ASSUME NEW i \in 1 .. n, NEW j \in 1 .. n, NEW k \in 1 .. n,
                      i <= j, j <= k, p[i].msg_id = p[k].msg_id
               PROVE  p[j].msg_id = p[i].msg_id
    BY Zenon
  <2>1. CASE k \in 1 .. Len(c)
    <3>1. j \in 1 .. Len(c)
      BY <1>7, <2>1, Zenon
    <3>2. i \in 1 .. Len(c)
      BY <1>7, <3>1, Zenon
    <3>3. q[i].msg_id = q[k].msg_id
      BY <1>8, <2>1, <3>2, Zenon
    <3>4. q[j].msg_id = q[i].msg_id
      <4>1. i \in 1 .. Len(q) /\ j \in 1 .. Len(q) /\ k \in 1 .. Len(q)
        BY <1>1, Zenon
      <4> QED BY <1>3, <3>3, <4>1, LineGroup
    <3> QED BY <1>8, <3>1, <3>2, <3>4, Zenon
  <2>2. CASE k = n
    <3>1. i = n
      BY <1>2, <1>4, <1>8, <2>2, Zenon
    <3>2. j = n
      BY <1>4, <1>5, <3>1, Zenon
    <3> QED BY <3>1, <3>2
  <2> QED BY <1>4, <2>1, <2>2, Zenon
<1>15. Line(d, p)
  BY <1>2, <1>3, <1>10, <1>11, <1>12, <1>13, <1>14, Zenon DEF Line
<1> QED BY <1>15 DEF p

-----------------------------------------------------------------------------
(* The current message of a session.                                       *)

\* What a session says about request r.
SessionOK(r, s) == r > 0 =>
    /\ s.req_payload_size = ReqLen[r]
    /\ s.req_payload_cleared <=> s.block2_num > 0
    /\ s.block2_num * Size(s.block2_szx) <= RespLen[r]

\* An empty chunk is empty.
LEMMA NoChunk == ASSUME NEW r \in Nat, NEW o \in Nat PROVE Chunk(r, o, 0) = <<>>
<1>1. Chunk(r, o, 0) \in Seq(Nat \X Nat) /\ Len(Chunk(r, o, 0)) = 0
  BY ChunkSeq
<1> QED BY <1>1

\* The body of a request and the answer to it are chunks.
LEMMA Bodies ==
  ASSUME NEW r \in 1 .. N
  PROVE  /\ ReqLen[r] \in Nat /\ RespLen[r] \in Nat /\ r \in Nat
         /\ RequestBody(r) = Chunk(r, 0, ReqLen[r])
         /\ Answer(r) = Chunk(r, 0, RespLen[r])
<1>0. ReqLen \in [1 .. N -> Nat] /\ RespLen \in [1 .. N -> Nat] /\ N \in Nat
  BY ClientAssumption, ExchangeAssumption, Zenon
<1>1. ReqLen[r] \in Nat /\ RespLen[r] \in Nat /\ r \in Nat
  BY <1>0
<1>2. \A n \in Nat : \A i \in 1 .. n : 0 + i = i
  OBVIOUS
<1>3. RequestBody(r) = Chunk(r, 0, ReqLen[r])
  BY <1>1, <1>2 DEF RequestBody, Chunk
<1>4. Answer(r) = Chunk(r, 0, RespLen[r])
  BY <1>1, <1>2 DEF Answer, Chunk
<1> QED BY <1>1, <1>3, <1>4

\* The fields of a message, by cases on what is left to be sent.
LEMMA MessageFields ==
  ASSUME NEW r, NEW s
  PROVE  LET m == Message(r, s)
             z == Size(s.block1_szx)
             e == EffectiveLen(s)
             o == Offset(s)
         IN  /\ m.msg_id = s.msg_id /\ m.request = r
             /\ m.block2 = [num |-> s.block2_num, more |-> FALSE, szx |-> s.block2_szx]
             /\ e = 0 => m.block1 = NoBlock /\ m.payload = <<>>
             /\ e # 0 /\ e <= z /\ s.block1_num = 0 => m.block1 = NoBlock
             /\ e # 0 /\ ~(e <= z /\ s.block1_num = 0) =>
                  m.block1 = [num |-> s.block1_num, more |-> e - o > z,
                              szx |-> s.block1_szx]
             /\ e # 0 => m.payload = Chunk(r, o, IF e - o < z THEN e - o ELSE z)
             /\ m = [msg_id |-> m.msg_id, request |-> m.request, block1 |-> m.block1,
                     block2 |-> m.block2, payload |-> m.payload]
  BY DEF Message, Chunk

\* send_frame reads only these fields of a session.
LEMMA SameMessage ==
  ASSUME NEW r, NEW s, NEW t, s.block1_num = t.block1_num, s.block1_szx = t.block1_szx,
         s.block2_num = t.block2_num, s.block2_szx = t.block2_szx,
         s.msg_id = t.msg_id, s.req_payload_cleared = t.req_payload_cleared,
         s.req_payload_size = t.req_payload_size
  PROVE  Message(r, s) = Message(r, t)
<1>1. EffectiveLen(s) = EffectiveLen(t) /\ Offset(s) = Offset(t)
  BY DEF EffectiveLen, Offset
<1> QED BY <1>1 DEF Message

\* The message of a session has its type and is well formed.
LEMMA MessageShape ==
  ASSUME NEW r \in 0 .. N, NEW s, Good(s), SessionOK(r, s)
  PROVE  LET m == Message(r, s)
         IN  /\ m \in RequestMessage /\ WellFormed(m)
             /\ m.msg_id = s.msg_id /\ m.request = r
             /\ m.block2.num = s.block2_num /\ m.block2.szx = s.block2_szx
             /\ m.block1 # NoBlock =>
                  /\ m.block1.num = s.block1_num /\ m.block1.szx = s.block1_szx
                  /\ ~s.req_payload_cleared /\ EffectiveLen(s) # 0
<1> DEFINE m == Message(r, s)
           z == Size(s.block1_szx)
           e == EffectiveLen(s)
           o == Offset(s)
           take == IF e - o < z THEN e - o ELSE z
           b1 == [num |-> s.block1_num, more |-> e - o > z, szx |-> s.block1_szx]
           b2 == [num |-> s.block2_num, more |-> FALSE, szx |-> s.block2_szx]
<1>1. /\ m.msg_id = s.msg_id /\ m.request = r /\ m.block2 = b2
      /\ e = 0 => m.block1 = NoBlock /\ m.payload = <<>>
      /\ e # 0 /\ e <= z /\ s.block1_num = 0 => m.block1 = NoBlock
      /\ e # 0 /\ ~(e <= z /\ s.block1_num = 0) => m.block1 = b1
      /\ e # 0 => m.payload = Chunk(r, o, take)
      /\ m = [msg_id |-> m.msg_id, request |-> m.request, block1 |-> m.block1,
              block2 |-> m.block2, payload |-> m.payload]
  BY MessageFields
<1>2. /\ s.block1_num \in Nat /\ s.block1_szx \in 0 .. 7 /\ s.msg_id \in MsgId
      /\ s.block2_num \in Nat /\ s.block2_szx \in 0 .. 7 /\ s.req_payload_size \in Nat
      /\ s.req_payload_cleared \in BOOLEAN
  BY DEF Good, Session
<1>3. z \in Nat \ {0} /\ Size(s.block2_szx) \in Nat
  <2>1. s.block1_szx <= s.block1_szx /\ s.block2_szx <= s.block2_szx
    BY <1>2
  <2> QED BY <1>2, <2>1, SizeDivides
<1>4. e \in Nat /\ (e # 0 => ~s.req_payload_cleared /\ e = s.req_payload_size)
  BY <1>2 DEF EffectiveLen
<1>5. o \in Nat /\ (s.block1_num = 0 => o = 0) /\ o = s.block1_num * z
  BY <1>2, <1>3 DEF Offset
<1>6. OffsetInRange(s)
  BY SendInRange
<1>7. e # 0 => o <= e /\ (s.block1_num > 0 => o < e)
  <2>1. e # 0 => o <= e
    BY <1>4, <1>6 DEF OffsetInRange
  <2>2. s.block1_num > 0 => o < s.req_payload_size
    BY DEF Good, StartsInside
  <2> QED BY <1>4, <2>1, <2>2
<1>8. b1 \in Block /\ b2 \in Block
  BY <1>2 DEF Block
<1>9. /\ b1.num = s.block1_num /\ b1.szx = s.block1_szx /\ (b1.more <=> e - o > z)
      /\ b2.num = s.block2_num /\ b2.szx = s.block2_szx
      /\ From(b1) = o /\ From(b2) = s.block2_num * Size(s.block2_szx)
  BY <1>5 DEF From
<1>r. r \in Nat
  BY ClientAssumption
<1> HIDE DEF m, z, e, o, b1, b2
<1>10. e # 0 => /\ take \in Nat /\ Len(Chunk(r, o, take)) = take
                /\ Chunk(r, o, take) \in Seq(Nat \X Nat)
  <2>1. e # 0 => take \in Nat
    BY <1>3, <1>4, <1>5, <1>7
  <2> HIDE DEF take
  <2> QED BY <1>5, <1>r, <2>1, ChunkSeq
<1>11. /\ e # 0 /\ b1.more => take = z
       /\ e # 0 /\ ~b1.more => o + take = e
  BY <1>3, <1>4, <1>5, <1>7, <1>9
<1> HIDE DEF take
<1>12. m.payload \in Seq(Nat \X Nat) /\ (m.block1 = NoBlock \/ (m.block1 = b1 /\ e # 0))
  <2>1. CASE e = 0
    <3>1. <<>> \in Seq(Nat \X Nat)
      OBVIOUS
    <3> QED BY <1>1, <2>1, <3>1, Zenon
  <2>2. CASE e # 0
    BY <1>1, <1>10, <2>2
  <2> QED BY <2>1, <2>2
<1>13. m \in RequestMessage
  BY <1>1, <1>2, <1>8, <1>12 DEF RequestMessage
<1>14. m.block1 # NoBlock =>
          /\ m.block1.num = s.block1_num /\ m.block1.szx = s.block1_szx
          /\ ~s.req_payload_cleared /\ e # 0
  BY <1>4, <1>9, <1>12
<1>15. WellFormed(m)
  <2> SUFFICES ASSUME r > 0 PROVE WellFormed(m)
    BY <1>1 DEF WellFormed
  <2>1. /\ r \in 1 .. N /\ s.req_payload_size = ReqLen[r]
        /\ s.req_payload_cleared <=> s.block2_num > 0
        /\ s.block2_num * Size(s.block2_szx) <= RespLen[r]
    BY DEF SessionOK
  <2>2. From(m.block2) <= RespLen[r] /\ m.block2.num = s.block2_num
    BY <1>1, <1>9, <2>1
  <2>3. m.block2.num > 0 => m.block1 = NoBlock
    BY <1>14, <2>1, <2>2
  <2>4. ASSUME m.block2.num = 0, m.block1 = NoBlock
        PROVE  m.payload = RequestBody(r)
    <3>1. ~s.req_payload_cleared /\ e = ReqLen[r]
      BY <1>2, <2>1, <2>2, <2>4 DEF EffectiveLen, e
    <3>2. RequestBody(r) = Chunk(r, 0, ReqLen[r])
      BY <2>1, Bodies
    <3>3. CASE e = 0
      <4>1. Chunk(r, 0, 0) = <<>>
        BY <1>r, NoChunk
      <4> QED BY <1>1, <3>1, <3>2, <3>3, <4>1
    <3>4. CASE e # 0
      <4>1. b1 # NoBlock
        BY <1>8, ExchangeAssumption
      <4>2. e <= z /\ s.block1_num = 0
        BY <1>1, <2>4, <3>4, <4>1
      <4>3. o = 0 /\ take = e
        BY <1>3, <1>4, <1>5, <4>2 DEF take
      <4> QED BY <1>1, <3>1, <3>2, <3>4, <4>3
    <3> QED BY <3>3, <3>4
  <2>5. ASSUME m.block1 # NoBlock
        PROVE  /\ m.payload = Chunk(r, From(m.block1), Len(m.payload))
               /\ m.block1.more => Len(m.payload) = Size(m.block1.szx)
               /\ ~m.block1.more => From(m.block1) + Len(m.payload) = ReqLen[r]
    <3>1. m.block1 = b1 /\ e # 0
      BY <1>12, <2>5
    <3>2. m.payload = Chunk(r, o, take) /\ Len(m.payload) = take
      BY <1>1, <1>10, <3>1
    <3>3. From(m.block1) = o /\ Size(m.block1.szx) = z /\ e = ReqLen[r]
      BY <1>4, <1>9, <2>1, <3>1 DEF z
    <3> QED BY <1>11, <3>1, <3>2, <3>3
  <2>6. m.request = r
    BY <1>1
  <2> QED BY <2>2, <2>3, <2>4, <2>5, <2>6 DEF WellFormed
<1>16. m.block2.num = s.block2_num /\ m.block2.szx = s.block2_szx
  BY <1>1, <1>9
<1> QED BY <1>1, <1>13, <1>14, <1>15, <1>16 DEF m, e

-----------------------------------------------------------------------------
(* What the device has done, and its replies.                              *)

\* A message that the device has not handled finds it prepared: the request has
\* been carried out if and only if the message asks for a later block of the
\* answer, and a later block of the body adds to what has been stored.
Ready(m, body, done) ==
    /\ m.block2.num = 0 <=> m.request \notin done
    /\ m.block1 # NoBlock /\ m.block1.num > 0 =>
         /\ body = Chunk(m.request, 0, Len(body))
         /\ From(m.block1) <= Len(body)

AllReady(d, q, body, done) ==
    \A i \in 1 .. Len(q) : q[i].msg_id # d => Ready(q[i], body, done)

Refusal(reply) ==
    reply.code = "error" /\ reply.block1 = NoBlock /\ reply.block2 = NoBlock

\* The body has been stored up to the end of what m carries.
Continuation(m, reply, body, done) ==
    /\ m.block1 # NoBlock /\ m.request \notin done
    /\ reply.code = RESPONSE_CONTINUE /\ reply.block2 = NoBlock
    /\ reply.payload = <<>>
    /\ reply.block1 # NoBlock /\ reply.block1.szx <= m.block1.szx
    /\ body = Chunk(m.request, 0, Len(body))
    /\ Len(body) = From(m.block1) + Len(m.payload)

\* The answer, from the block that m asks for on.
Answering(m, reply, done) ==
    /\ m.request \in done
    /\ reply.code = "ok"
    /\ \E n \in Nat :
         /\ reply.payload = Chunk(m.request, From(m.block2), n)
         /\ HasNextBlock2(reply) =>
              /\ reply.block2.num * Size(reply.block2.szx) = From(m.block2)
              /\ n = Size(reply.block2.szx)
              /\ From(m.block2) + n < RespLen[m.request]
         /\ ~HasNextBlock2(reply) => From(m.block2) + n = RespLen[m.request]

Handled(m, reply, body, done) ==
    reply.msg_type = "Ack" =>
        \/ Refusal(reply)
        \/ Continuation(m, reply, body, done)
        \/ Answering(m, reply, done)

InProgress(s) == ~s.done /\ s.error = NoError

\* What a session has received of the answer.
Downloaded(r, s, done) == r > 0 =>
    /\ InProgress(s) =>
         s.resp_payload = Chunk(r, 0, s.block2_num * Size(s.block2_szx))
    /\ s.done /\ s.error = NoError /\ s.resp_code = "ok" =>
         s.resp_payload = Answer(r) /\ r \in done

\* The fields of a session on which its message depends.
SameUpload(s, t) ==
    /\ s.block1_num = t.block1_num /\ s.block1_szx = t.block1_szx
    /\ s.block2_num = t.block2_num /\ s.block2_szx = t.block2_szx
    /\ s.msg_id = t.msg_id /\ s.req_payload_cleared = t.req_payload_cleared
    /\ s.req_payload_size = t.req_payload_size

\* The session is over.
Ended(r, s, t, done) ==
    /\ SameUpload(s, t)
    /\ t.done /\ ~t.need_resend
    /\ Downloaded(r, t, done)

\* How far a session is, in both directions.
Progress(s) == s.block1_num + s.block2_num * Size(s.block2_szx)

\* The session has a next message, for which the device is prepared.
Moved(r, s, t, body, done) ==
    /\ t.msg_id = wrapping_inc(s.msg_id)
    /\ Progress(s) < Progress(t)
    /\ InProgress(t) /\ t.need_resend
    /\ SessionOK(r, t)
    /\ Downloaded(r, t, done)
    /\ Ready(Message(r, t), body, done)

\* A refusal ends the session.
LEMMA RefusalEnds ==
  ASSUME NEW r \in 1 .. N, NEW s \in Session, InProgress(s), ~s.need_resend,
         NEW h \in Reply, Refusal(h), NEW done
  PROVE  Ended(r, s, process_response(s, h), done)
<1> DEFINE w == WithPayload(s, h)
           t == [w EXCEPT !.done = TRUE]
<1>1. ~HasNextBlock2(h) /\ ~AsksForBlock1(h)
  BY DEF Refusal, HasNextBlock2, AsksForBlock1, RESPONSE_CONTINUE
<1>2. process_response(s, h) = t
  BY <1>1 DEF process_response
<1>3. SameUpload(s, t) /\ t.done /\ ~t.need_resend /\ t.resp_code = "error"
  BY DEF WithPayload, SameUpload, Session, Refusal
<1> HIDE DEF t
<1>4. Downloaded(r, t, done)
  BY <1>3 DEF Downloaded, InProgress
<1> QED BY <1>2, <1>3, <1>4 DEF Ended

\* A Continue leads to the next block of the body, or ends the session.
LEMMA ContinueMoves ==
  ASSUME NEW r \in 1 .. N, NEW s, Good(s), SessionOK(r, s), InProgress(s),
         ~s.need_resend, NEW h \in Reply, NEW body \in Seq(Nat \X Nat), NEW done,
         s.resp_payload = Chunk(r, 0, s.block2_num * Size(s.block2_szx)),
         Continuation(Message(r, s), h, body, done)
  PROVE  \/ Ended(r, s, process_response(s, h), done)
         \/ Moved(r, s, process_response(s, h), body, done)
<1> DEFINE m == Message(r, s)
           w == WithPayload(s, h)
           z == Size(h.block1.szx)
           next == (s.block1_num + 1) * z
<1>1. /\ m \in RequestMessage /\ WellFormed(m) /\ m.request = r
      /\ m.block2.num = s.block2_num
      /\ m.block1.num = s.block1_num /\ m.block1.szx = s.block1_szx
      /\ ~s.req_payload_cleared /\ EffectiveLen(s) # 0
  <2>1. r \in 0 .. N /\ m.block1 # NoBlock
    BY DEF Continuation
  <2> QED BY <2>1, MessageShape
<1> HIDE DEF m
<1>2. /\ m.block1 # NoBlock /\ r \notin done
      /\ h.code = RESPONSE_CONTINUE /\ h.block2 = NoBlock
      /\ h.payload = <<>>
      /\ h.block1 # NoBlock /\ h.block1.szx <= m.block1.szx
      /\ body = Chunk(r, 0, Len(body))
      /\ Len(body) = From(m.block1) + Len(m.payload)
  BY <1>1 DEF Continuation, m
<1>3. s \in Session
  BY DEF Good
<1>4. /\ w \in Session /\ SameUpload(s, w) /\ w.resp_payload = s.resp_payload
      /\ w.resp_code = RESPONSE_CONTINUE /\ w.done = s.done /\ w.error = s.error
      /\ w.need_resend = s.need_resend
  <2>1. Good(w)
    BY WithPayloadGood
  <2>2. s.resp_payload \o h.payload = s.resp_payload
    <3>1. s.resp_payload \in Seq(Unit)
      BY <1>3 DEF Session
    <3> QED BY <1>2, <3>1
  <2>3. w.resp_payload = s.resp_payload \o h.payload
    BY <1>3 DEF WithPayload, Session
  <2>4. /\ SameUpload(s, w) /\ w.resp_code = h.code
        /\ w.done = s.done /\ w.error = s.error /\ w.need_resend = s.need_resend
    BY <1>3 DEF WithPayload, SameUpload, Session
  <2> QED BY <1>2, <2>1, <2>2, <2>3, <2>4 DEF Good
<1>5. process_response(s, h) = NextBlock1(w, h)
  BY <1>2 DEF process_response, HasNextBlock2, AsksForBlock1
<1> HIDE DEF w
<1>6. /\ s.block1_num \in Nat /\ s.block2_num = 0 /\ s.req_payload_size = ReqLen[r]
      /\ s.block1_szx \in 0 .. 7 /\ s.req_payload_size \in Nat
  <2>1. /\ s.block1_num \in Nat /\ s.block2_num \in Nat /\ s.block1_szx \in 0 .. 7
        /\ s.req_payload_size \in Nat
    BY <1>3 DEF Session
  <2> QED BY <1>1, <2>1 DEF SessionOK
<1>7. h.block1 \in Block /\ h.block1.szx \in 0 .. 7
  BY <1>2 DEF Reply, Block
<1>8. z \in Nat \ {0} /\ z <= Size(s.block1_szx) /\ Size(s.block1_szx) \in Nat
  BY <1>1, <1>2, <1>6, <1>7, SizeDivides
<1>9. CASE next >= s.req_payload_size
  <2> DEFINE t == [w EXCEPT !.error = "spurious continue", !.done = TRUE]
  <2>1. NextBlock1(w, h) = t
    BY <1>4, <1>9 DEF NextBlock1, SameUpload
  <2>2. SameUpload(s, t) /\ t.done /\ ~t.need_resend /\ t.error # NoError
    BY <1>4, ExchangeAssumption DEF SameUpload, Session
  <2> HIDE DEF t
  <2>3. Downloaded(r, t, done)
    BY <2>2 DEF Downloaded, InProgress
  <2> QED BY <1>5, <2>1, <2>2, <2>3 DEF Ended
<1>10. CASE ~(next >= s.req_payload_size)
  <2> DEFINE t == SendBlock1(w, h, w.block1_num + 1)
             y == Message(r, t)
  <2>1. NextBlock1(w, h) = t
    BY <1>4, <1>10 DEF NextBlock1, SameUpload
  <2>2. /\ t.block1_num = s.block1_num + 1 /\ t.block1_szx = h.block1.szx
        /\ t.block2_num = s.block2_num /\ t.block2_szx = s.block2_szx
        /\ t.msg_id = wrapping_inc(s.msg_id) /\ t.need_resend
        /\ t.done = s.done /\ t.error = s.error
        /\ t.resp_payload = s.resp_payload
        /\ t.req_payload_cleared = s.req_payload_cleared
        /\ t.req_payload_size = s.req_payload_size
    BY <1>4 DEF SendBlock1, SameUpload, Session
  <2>3. AsksForBlock1(h)
    BY <1>2 DEF AsksForBlock1, HasNextBlock2
  <2>4. Good(t)
    <3>1. Good(w)
      BY WithPayloadGood DEF w
    <3> QED BY <2>1, <2>3, <3>1, NextBlock1Good
  <2> HIDE DEF t
  <2>5. SessionOK(r, t) /\ InProgress(t) /\ Downloaded(r, t, done)
    BY <2>2 DEF SessionOK, InProgress, Downloaded
  <2>6. /\ y.request = r /\ y.block2.num = t.block2_num
        /\ y.block1 # NoBlock =>
             y.block1.num = t.block1_num /\ y.block1.szx = t.block1_szx
    <3>1. r \in 0 .. N
      OBVIOUS
    <3> QED BY <2>4, <2>5, <3>1, MessageShape
  <2> HIDE DEF y
  <2>7. y.block1 # NoBlock => From(y.block1) = next
    BY <2>2, <2>6 DEF From
  <2>8. next <= Len(body)
    <3>1. From(m.block1) = s.block1_num * Size(s.block1_szx) /\ Len(m.payload) \in Nat
      BY <1>1 DEF From, RequestMessage
    <3>2. CASE m.block1.more
      <4>1. Len(m.payload) = Size(s.block1_szx)
        BY <1>1, <1>2, <3>2 DEF WellFormed
      <4> DEFINE u == Size(s.block1_szx)
                 k == s.block1_num
      <4>2. u \in Nat /\ z \in Nat /\ z <= u /\ k \in Nat
        BY <1>6, <1>8
      <4> HIDE DEF u, z, k
      <4>3. (k + 1) * z <= (k + 1) * u
        <5>1. \A a, b, c \in Nat : b <= c => a * b <= a * c
          OBVIOUS
        <5>2. k + 1 \in Nat
          BY <4>2
        <5> QED BY <4>2, <5>1, <5>2
      <4>4. (k + 1) * u = k * u + u
        BY <4>2
      <4>5. Len(body) = k * u + u
        BY <1>2, <3>1, <4>1 DEF k, u
      <4> QED BY <4>3, <4>4, <4>5 DEF k
    <3>3. CASE ~m.block1.more
      <4>1. Len(body) = ReqLen[r]
        BY <1>1, <1>2, <3>3 DEF WellFormed
      <4>2. next \in Nat
        BY <1>6, <1>8
      <4> QED BY <1>6, <1>10, <4>1, <4>2
    <3> QED BY <3>2, <3>3
  <2>9. Ready(y, body, done)
    BY <1>2, <1>6, <2>2, <2>6, <2>7, <2>8 DEF Ready
  <2>10. Progress(s) < Progress(t)
    <3>1. Size(s.block2_szx) \in Nat
      BY <1>3, SizeType DEF Session
    <3>2. Progress(s) = s.block1_num /\ Progress(t) = s.block1_num + 1
      BY <1>6, <2>2, <3>1 DEF Progress
    <3> QED BY <1>6, <3>2
  <2> QED BY <1>5, <2>1, <2>2, <2>5, <2>9, <2>10 DEF Moved, y
<1> QED BY <1>9, <1>10

\* A block of the answer leads to the next one, or ends the session with the
\* whole answer.
LEMMA AnswerMoves ==
  ASSUME NEW r \in 1 .. N, NEW s, Good(s), SessionOK(r, s), InProgress(s),
         ~s.need_resend, NEW h \in Reply, NEW body, NEW done,
         s.resp_payload = Chunk(r, 0, s.block2_num * Size(s.block2_szx)),
         Answering(Message(r, s), h, done)
  PROVE  \/ Ended(r, s, process_response(s, h), done)
         \/ Moved(r, s, process_response(s, h), body, done)
<1> DEFINE m == Message(r, s)
           w == WithPayload(s, h)
           o == s.block2_num * Size(s.block2_szx)
<1>1. m.request = r /\ From(m.block2) = o
  <2>1. r \in 0 .. N
    OBVIOUS
  <2>2. m.request = r /\ m.block2.num = s.block2_num /\ m.block2.szx = s.block2_szx
    BY <2>1, MessageShape
  <2> QED BY <2>2 DEF From
<1> HIDE DEF m
<1>2. PICK n \in Nat :
        /\ h.payload = Chunk(r, o, n)
        /\ HasNextBlock2(h) =>
             /\ h.block2.num * Size(h.block2.szx) = o
             /\ n = Size(h.block2.szx)
             /\ o + n < RespLen[r]
        /\ ~HasNextBlock2(h) => o + n = RespLen[r]
  <2>1. Answering(m, h, done)
    BY DEF m
  <2> HIDE DEF o
  <2> QED BY <1>1, <2>1, Zenon DEF Answering
<1>3. r \in done /\ h.code = "ok"
  BY <1>1 DEF Answering, m
<1>4. s \in Session /\ s.block2_num \in Nat /\ s.block2_szx \in 0 .. 7
  BY DEF Good, Session
<1>5. o \in Nat /\ r \in Nat
  <2>1. Size(s.block2_szx) \in Nat
    BY <1>4, SizeType
  <2> QED BY <1>4, <2>1
<1>6. /\ SameUpload(s, w) /\ w.resp_payload = Chunk(r, 0, o + n)
      /\ w.resp_code = "ok" /\ w.done = s.done /\ w.error = s.error
      /\ w.need_resend = s.need_resend /\ w \in Session
  <2>1. w.resp_payload = s.resp_payload \o h.payload
    BY <1>4 DEF WithPayload, Session
  <2>2. s.resp_payload \o h.payload = Chunk(r, 0, o) \o Chunk(r, o, n)
    BY <1>2
  <2> HIDE DEF o
  <2>3. Chunk(r, 0, o) \o Chunk(r, o, n) = Chunk(r, 0, o + n)
    BY <1>5, ChunkCat
  <2>4. /\ SameUpload(s, w) /\ w.resp_code = "ok" /\ w.done = s.done
        /\ w.error = s.error /\ w.need_resend = s.need_resend
    BY <1>3, <1>4 DEF WithPayload, SameUpload, Session
  <2>5. w \in Session
    BY WithPayloadGood DEF Good
  <2> QED BY <2>1, <2>2, <2>3, <2>4, <2>5
<1>7. ~AsksForBlock1(h)
  BY <1>3 DEF AsksForBlock1, RESPONSE_CONTINUE
<1> HIDE DEF o
<1>8. CASE ~HasNextBlock2(h)
  <2> DEFINE t == [w EXCEPT !.done = TRUE]
  <2>1. process_response(s, h) = t
    BY <1>7, <1>8 DEF process_response
  <2> HIDE DEF w
  <2>2. SameUpload(s, t) /\ t.done /\ ~t.need_resend /\ t.resp_payload = w.resp_payload
    BY <1>6 DEF SameUpload, Session
  <2> HIDE DEF t
  <2>3. Answer(r) = Chunk(r, 0, RespLen[r])
    BY Bodies
  <2>4. t.resp_payload = Answer(r)
    BY <1>2, <1>6, <1>8, <2>2, <2>3
  <2>5. Downloaded(r, t, done)
    BY <1>3, <2>2, <2>4 DEF Downloaded, InProgress
  <2> QED BY <2>1, <2>2, <2>5 DEF Ended
<1>9. CASE HasNextBlock2(h)
  <2> DEFINE t == NextBlock2(w, h)
             y == Message(r, t)
             z == Size(h.block2.szx)
             k == h.block2.num
  <2>1. process_response(s, h) = t
    BY <1>7, <1>9 DEF process_response
  <2>2. Good(t)
    <3>1. Good(w)
      BY WithPayloadGood
    <3> QED BY <1>9, <3>1, NextBlock2Good
  <2> HIDE DEF w
  <2>3. /\ t.block2_num = k + 1 /\ t.block2_szx = h.block2.szx
        /\ t.msg_id = wrapping_inc(s.msg_id) /\ t.need_resend
        /\ t.done = s.done /\ t.error = s.error
        /\ t.resp_payload = w.resp_payload
        /\ t.req_payload_cleared = TRUE
        /\ t.req_payload_size = s.req_payload_size
        /\ t.block1_num = s.block1_num
    BY <1>6 DEF NextBlock2, SameUpload, Session
  <2>4. h.block2 \in Block /\ k \in Nat /\ h.block2.szx \in 0 .. 7 /\ z \in Nat
    <3>1. h.block2 \in Block
      BY <1>9 DEF HasNextBlock2, Reply
    <3>2. k \in Nat /\ h.block2.szx \in 0 .. 7
      BY <3>1 DEF Block
    <3> QED BY <3>1, <3>2, SizeType
  <2>5. (k + 1) * z = o + n /\ o + n <= RespLen[r]
    <3>1. k * z = o /\ n = z /\ o + n < RespLen[r] /\ RespLen[r] \in Nat
      BY <1>2, <1>9, Bodies
    <3> HIDE DEF k, z
    <3>2. (k + 1) * z = k * z + z
      BY <2>4
    <3> QED BY <1>5, <3>1, <3>2
  <2> HIDE DEF t, k, z
  <2>6. t.block2_num * Size(t.block2_szx) = o + n
    BY <2>3, <2>5 DEF z
  <2>7. t.block2_num > 0
    BY <2>3, <2>4
  <2>8. SessionOK(r, t)
    BY <2>3, <2>5, <2>6, <2>7 DEF SessionOK
  <2>9. InProgress(t)
    BY <2>3 DEF InProgress
  <2>10. Downloaded(r, t, done)
    BY <1>6, <2>3, <2>6, <2>9 DEF Downloaded, InProgress
  <2>11. Ready(y, body, done)
    <3>1. r \in 0 .. N
      OBVIOUS
    <3>2. /\ y.request = r /\ y.block2.num = t.block2_num
          /\ y.block1 # NoBlock => ~t.req_payload_cleared
      BY <2>2, <2>8, <3>1, MessageShape
    <3> QED BY <1>3, <2>3, <2>7, <3>2 DEF Ready
  <2>12. Progress(s) < Progress(t)
    <3>1. n > 0
      <4>1. z \in Nat \ {0}
        <5>1. h.block2.szx <= h.block2.szx
          BY <2>4
        <5> QED BY <2>4, <5>1, SizeDivides DEF z
      <4> QED BY <1>2, <1>9, <4>1 DEF z
    <3>2. s.block1_num \in Nat
      BY <1>4 DEF Session
    <3>3. Progress(s) = s.block1_num + o /\ Progress(t) = s.block1_num + (o + n)
      BY <2>3, <2>6 DEF Progress, o
    <3> QED BY <1>5, <3>1, <3>2, <3>3
  <2> QED BY <2>1, <2>3, <2>8, <2>9, <2>10, <2>11, <2>12 DEF Moved
<1> QED BY <1>8, <1>9

\* What the poll closure makes of a reply: nothing, the end of the session, or
\* the next message.
LEMMA FrameOutcome ==
  ASSUME NEW r \in 1 .. N, NEW s, Good(s), SessionOK(r, s), InProgress(s),
         ~s.need_resend, NEW h \in Reply, NEW body \in Seq(Nat \X Nat), NEW done,
         Downloaded(r, s, done),
         h.msg_id = s.msg_id => Handled(Message(r, s), h, body, done)
  PROVE  \/ on_frame(s, h) = s
         \/ Ended(r, s, on_frame(s, h), done)
         \/ h.msg_id = s.msg_id /\ Moved(r, s, on_frame(s, h), body, done)
<1>1. s \in Session
  BY DEF Good
<1>2. CASE h.msg_id = s.msg_id /\ h.msg_type = "Rst"
  <2> DEFINE t == [s EXCEPT !.error = "rst", !.done = TRUE]
  <2>1. on_frame(s, h) = t
    BY <1>2 DEF on_frame
  <2>2. SameUpload(s, t) /\ t.done /\ ~t.need_resend /\ t.error # NoError
    BY <1>1, ExchangeAssumption DEF SameUpload, Session
  <2> HIDE DEF t
  <2>3. Downloaded(r, t, done)
    BY <2>2 DEF Downloaded, InProgress
  <2> QED BY <2>1, <2>2, <2>3 DEF Ended
<1>3. CASE h.msg_id = s.msg_id /\ h.msg_type = "Ack"
  <2>1. on_frame(s, h) = process_response(s, h)
    BY <1>3 DEF on_frame
  <2>2. s.resp_payload = Chunk(r, 0, s.block2_num * Size(s.block2_szx))
    BY DEF Downloaded
  <2>3. \/ Refusal(h)
        \/ Continuation(Message(r, s), h, body, done)
        \/ Answering(Message(r, s), h, done)
    BY <1>3 DEF Handled
  <2>4. CASE Refusal(h)
    BY <1>1, <2>1, <2>4, RefusalEnds
  <2>5. CASE Continuation(Message(r, s), h, body, done)
    BY <1>3, <2>1, <2>2, <2>5, ContinueMoves
  <2>6. CASE Answering(Message(r, s), h, done)
    BY <1>3, <2>1, <2>2, <2>6, AnswerMoves
  <2> QED BY <2>3, <2>4, <2>5, <2>6
<1>4. CASE ~(h.msg_id = s.msg_id /\ h.msg_type \in {"Rst", "Ack"})
  BY <1>4 DEF on_frame
<1> QED BY <1>2, <1>3, <1>4

-----------------------------------------------------------------------------
(* The device.                                                             *)

\* The first units of a chunk.
LEMMA ChunkStart ==
  ASSUME NEW r \in Nat, NEW n \in Nat, NEW b \in Nat, b <= n
  PROVE  SubSeq(Chunk(r, 0, n), 1, b) = Chunk(r, 0, b)
<1>1. \A a \in Nat : a + b <= n => Part(Chunk(r, 0, n), a, b) = Chunk(r, a, b)
  BY ChunkSub
<1>2. PICK a \in Nat : a = 0 /\ a + 1 = 1 /\ a + b = b
  OBVIOUS
<1>3. Part(Chunk(r, 0, n), a, b) = Chunk(r, a, b)
  BY <1>1, <1>2
<1> QED BY <1>2, <1>3, Zenon DEF Part

\* The body as far as it has come, after a message that belongs there.
LEMMA StoredBody ==
  ASSUME NEW m \in RequestMessage, WellFormed(m), m.request \in 1 .. N,
         m.block2.num = 0, dev_body \in Seq(Nat \X Nat), NEW done,
         Ready(m, dev_body, done)
  PROVE  /\ m.block1 = NoBlock => Stored(m) = RequestBody(m.request)
         /\ m.block1 # NoBlock =>
              LET n == From(m.block1) + Len(m.payload)
              IN  /\ n \in Nat /\ Stored(m) = Chunk(m.request, 0, n)
                  /\ Len(Stored(m)) = n /\ Stored(m) \in Seq(Nat \X Nat)
                  /\ ~m.block1.more => Stored(m) = RequestBody(m.request)
                  /\ ~Gap(m)
<1>1. ASSUME m.block1 = NoBlock PROVE Stored(m) = RequestBody(m.request)
  BY <1>1 DEF Stored, WellFormed
<1>2. ASSUME m.block1 # NoBlock
      PROVE  LET n == From(m.block1) + Len(m.payload)
             IN  /\ n \in Nat /\ Stored(m) = Chunk(m.request, 0, n)
                 /\ Len(Stored(m)) = n /\ Stored(m) \in Seq(Nat \X Nat)
                 /\ ~m.block1.more => Stored(m) = RequestBody(m.request)
                 /\ ~Gap(m)
  <2> DEFINE r == m.request
             b == m.block1
             o == From(b)
             k == Len(m.payload)
             n == o + k
  <2>1. b \in Block /\ b.num \in Nat /\ b.szx \in 0 .. 7 /\ k \in Nat /\ r \in Nat
    <3>1. b \in Block /\ m.payload \in Seq(Nat \X Nat)
      BY <1>2 DEF RequestMessage
    <3>2. b.num \in Nat /\ b.szx \in 0 .. 7
      BY <3>1 DEF Block
    <3> QED BY <3>1, <3>2
  <2>2. o \in Nat /\ (b.num = 0 => o = 0) /\ o = b.num * Size(b.szx)
    <3>1. Size(b.szx) \in Nat
      BY <2>1, SizeType
    <3> QED BY <2>1, <3>1 DEF From
  <2>3. /\ m.payload = Chunk(r, o, k)
        /\ ~b.more => o + k = ReqLen[r]
    BY <1>2 DEF WellFormed
  <2>4. Stored(m) = SubSeq(dev_body, 1, o) \o m.payload
    BY <1>2 DEF Stored, From
  <2>5. SubSeq(dev_body, 1, o) = Chunk(r, 0, o) /\ o <= Len(dev_body)
    <3> HIDE DEF o
    <3>1. CASE b.num = 0
      <4>1. o = 0
        BY <2>2, <3>1
      <4>2. SubSeq(dev_body, 1, 0) = <<>>
        OBVIOUS
      <4>3. Chunk(r, 0, 0) = <<>>
        BY <2>1, NoChunk
      <4>4. 0 <= Len(dev_body)
        OBVIOUS
      <4> QED BY <4>1, <4>2, <4>3, <4>4
    <3>2. CASE b.num > 0
      <4> DEFINE L == Len(dev_body)
      <4>1. dev_body = Chunk(r, 0, L) /\ o <= L /\ L \in Nat
        BY <1>2, <3>2 DEF Ready, o
      <4> HIDE DEF L
      <4>2. SubSeq(Chunk(r, 0, L), 1, o) = Chunk(r, 0, o)
        BY <2>1, <2>2, <4>1, ChunkStart
      <4> QED BY <4>1, <4>2, Zenon DEF L
    <3> QED BY <2>1, <3>1, <3>2
  <2>6. Stored(m) = Chunk(r, 0, n)
    <3> HIDE DEF o, k, r
    <3>1. Chunk(r, 0, o) \o Chunk(r, o, k) = Chunk(r, 0, o + k)
      BY <2>1, <2>2, ChunkCat
    <3> QED BY <2>3, <2>4, <2>5, <3>1, Zenon
  <2>7. n \in Nat /\ Len(Chunk(r, 0, n)) = n /\ Chunk(r, 0, n) \in Seq(Nat \X Nat)
    <3>1. n \in Nat /\ 0 \in Nat
      BY <2>1, <2>2
    <3> HIDE DEF n, r
    <3> QED BY <2>1, <3>1, ChunkSeq, Zenon
  <2>8. RequestBody(r) = Chunk(r, 0, ReqLen[r])
    BY Bodies
  <2>9. ~Gap(m)
    <3>1. Len(dev_body) \in Nat
      OBVIOUS
    <3> QED BY <2>2, <2>5, <3>1 DEF Gap
  <2>10. ~b.more => Stored(m) = RequestBody(r)
    BY <2>3, <2>6, <2>8, Zenon
  <2> HIDE DEF o, k
  <2> QED BY <2>6, <2>7, <2>9, <2>10 DEF o, k
<1> QED BY <1>1, <1>2

\* A block of the answer, as the device cuts it.
LEMMA AnswerBlockOK ==
  ASSUME NEW m \in RequestMessage, WellFormed(m), m.request \in 1 .. N,
         dev_szx \in 0 .. 7, NEW done, m.request \in done
  PROVE  /\ AnswerBlock(m) \in Reply /\ AnswerBlock(m).msg_id = m.msg_id
         /\ Answering(m, AnswerBlock(m), done)
<1> DEFINE r == m.request
           o == From(m.block2)
           szx == MinSzx(m.block2.szx)
           z == Size(szx)
           rest == RespLen[r] - o
           take == IF rest < z THEN rest ELSE z
           block == [num |-> o \div z, more |-> rest > z, szx |-> szx]
           b2 == IF o = 0 /\ ~block.more THEN NoBlock ELSE block
           payload == SubSeq(Answer(r), o + 1, o + take)
           reply == AnswerBlock(m)
<1>1. reply = ReplyTo(m, "ok", m.block1, b2, payload)
  BY DEF AnswerBlock, From
<1>2. m.block2 \in Block /\ m.block2.num \in Nat /\ m.block2.szx \in 0 .. 7
  <2>1. m.block2 \in Block
    BY DEF RequestMessage
  <2> QED BY <2>1 DEF Block
<1>3. szx \in 0 .. 7 /\ szx <= m.block2.szx
  BY <1>2 DEF MinSzx
<1>4. /\ z \in Nat \ {0} /\ Size(m.block2.szx) \in Nat
      /\ (o \div z) * z = o
  BY <1>2, <1>3, SizeDivides DEF From
<1>5. o \in Nat /\ RespLen[r] \in Nat /\ o <= RespLen[r] /\ r \in Nat
  <2>1. o \in Nat
    BY <1>2, <1>4 DEF From
  <2>2. RespLen[r] \in Nat /\ r \in Nat
    BY Bodies
  <2>3. o <= RespLen[r]
    BY DEF WellFormed
  <2> QED BY <2>1, <2>2, <2>3
<1> HIDE DEF o, z, szx
<1>6. rest \in Nat /\ take \in Nat /\ o + take <= RespLen[r]
  BY <1>4, <1>5
<1>7. (rest > z => take = z /\ o + take < RespLen[r]) /\ (~(rest > z) => o + take = RespLen[r])
  BY <1>4, <1>5
<1>8. o \div z \in Nat
  BY <1>4, <1>5
<1>9. block \in Block /\ block # NoBlock
  <2>1. block \in Block
    BY <1>3, <1>8 DEF Block
  <2> QED BY <2>1, ExchangeAssumption
<1>10. payload = Chunk(r, o, take)
  <2>1. Answer(r) = Chunk(r, 0, RespLen[r])
    BY Bodies
  <2> DEFINE L == RespLen[r]
  <2>2. /\ r \in Nat /\ L \in Nat /\ o \in Nat /\ take \in Nat
        /\ o + take <= L
    BY <1>5, <1>6
  <2> HIDE DEF take, r, L
  <2>3. Part(Chunk(r, 0, L), o, take) = Chunk(r, o, take)
    BY <2>2, ChunkSub
  <2> QED BY <2>1, <2>3, Zenon DEF L, Part
<1>11. payload \in Seq(Unit)
  <2>1. /\ Chunk(r, o, take) \in Seq(Nat \X Nat) /\ Len(Chunk(r, o, take)) = take
        /\ \A i \in 1 .. take : Chunk(r, o, take)[i] = <<r, o + i>>
    <3> HIDE DEF take, r
    <3> QED BY <1>5, <1>6, ChunkSeq
  <2>2. \A i \in 1 .. take : o + i \in 1 .. RespLen[r]
    <3> HIDE DEF take
    <3> QED BY <1>5, <1>6
  <2>3. \A i \in 1 .. take : <<r, o + i>> \in Unit
    <3> HIDE DEF take
    <3>1. \A i \in 1 .. RespLen[r] : <<r, i>> \in Unit
      BY ExchangeAssumption, Zenon
    <3> QED BY <2>2, <3>1, Zenon
  <2> DEFINE c == Chunk(r, o, take)
  <2> HIDE DEF take
  <2>4. c = [i \in 1 .. take |-> <<r, o + i>>]
    BY DEF Chunk
  <2>5. c \in Seq(Unit)
    BY <1>6, <2>3, <2>4
  <2> QED BY <1>10, <2>5
<1>12. b2 \in Block \cup {NoBlock} /\ (HasNextBlock2(reply) <=> rest > z)
       /\ (rest > z => reply.block2 = block)
  <2>1. reply.block2 = b2
    BY <1>1 DEF ReplyTo
  <2>2. block.more <=> rest > z
    OBVIOUS
  <2> HIDE DEF block, reply, rest, z
  <2>3. b2 = IF o = 0 /\ ~block.more THEN NoBlock ELSE block
    OBVIOUS
  <2> QED BY <1>9, <2>1, <2>2, <2>3 DEF HasNextBlock2
<1>13. /\ reply.msg_id = m.msg_id /\ reply.code = "ok" /\ reply.payload = payload
  <2> HIDE DEF reply, b2, payload
  <2> QED BY <1>1 DEF ReplyTo
<1>14. reply \in Reply
  <2>1. m.msg_id \in MsgId /\ m.block1 \in Block \cup {NoBlock} /\ "ok" \in Code
    BY DEF RequestMessage, Code
  <2> HIDE DEF reply, b2, payload
  <2> QED BY <1>1, <1>11, <1>12, <2>1 DEF ReplyTo, Reply
<1>15. block.num = o \div z /\ block.szx = szx
  OBVIOUS
<1> HIDE DEF reply, payload, rest, take, block
<1>16. /\ reply.payload = Chunk(r, o, take)
       /\ HasNextBlock2(reply) =>
            /\ reply.block2.num * Size(reply.block2.szx) = o
            /\ take = Size(reply.block2.szx)
            /\ o + take < RespLen[r]
       /\ ~HasNextBlock2(reply) => o + take = RespLen[r]
  <2>1. reply.payload = Chunk(r, o, take)
    BY <1>10, <1>13, Zenon
  <2>2. ASSUME HasNextBlock2(reply)
        PROVE  /\ reply.block2.num * Size(reply.block2.szx) = o
               /\ take = Size(reply.block2.szx)
               /\ o + take < RespLen[r]
    <3>1. rest > z /\ reply.block2 = block
      BY <1>12, <2>2, Zenon
    <3>2. take = z /\ o + take < RespLen[r]
      BY <1>7, <3>1, Zenon
    <3>3. reply.block2.num = o \div z /\ Size(reply.block2.szx) = z
      BY <1>15, <3>1, Zenon DEF z
    <3> QED BY <1>4, <3>2, <3>3, Zenon
  <2>3. ~HasNextBlock2(reply) => o + take = RespLen[r]
    BY <1>7, <1>12, Zenon
  <2> QED BY <2>1, <2>2, <2>3, Zenon
<1>17. Answering(m, reply, done)
  BY <1>6, <1>13, <1>16 DEF Answering, o
<1> QED BY <1>13, <1>14, <1>17 DEF reply

-----------------------------------------------------------------------------
(* The inductive invariant.                                                *)

Current == Message(req, session)
Pending == Append(c2s, Current)
Carried == {executed[i][1] : i \in 1 .. Len(executed)}

\* A message of a request that the caller has made.
Issued == {m \in RequestMessage : m.request > 0}

\* Of the replies in q, those to the current message are the device's last one.
OnlyLast(q, id, last) ==
    \A i \in 1 .. Len(q) : q[i].msg_id = id => last.msg_id = id /\ q[i] = last.reply

DeviceOK ==
    /\ dev_szx \in 0 .. 7
    /\ dev_last # None =>
         /\ dev_last \in [msg_id : MsgId, reply : Reply]
         /\ dev_last.reply.msg_id = dev_last.msg_id
    /\ dev_body \in Seq(Nat \X Nat)

\* Every request was carried out once, with the body its caller gave.
Executions ==
    /\ executed \in Seq((1 .. N) \X Seq(Nat \X Nat))
    /\ \A i \in 1 .. Len(executed) :
          executed[i][1] <= req /\ executed[i][2] = RequestBody(executed[i][1])
    /\ \A i, j \in 1 .. Len(executed) : executed[i][1] = executed[j][1] => i = j

\* Client, line and device agree.
Agreement ==
    /\ c2s \in Seq(RequestMessage) /\ c2s \in Seq(Issued)
    /\ DeviceOK
    /\ Executions
    /\ SessionOK(req, session)
    /\ Line(dev_last.msg_id, Pending)
    /\ AllReady(dev_last.msg_id, Pending, dev_body, Carried)
    /\ OnlyLast(s2c, session.msg_id, dev_last)
    /\ dev_last.msg_id = session.msg_id =>
          Handled(Current, dev_last.reply, dev_body, Carried)
    /\ Downloaded(req, session, Carried)

\* Where request() is and what its session says.
Control ==
    /\ pc \in {"send", "poll"} /\ batch = 0 =>
          InProgress(session) /\ ~session.need_resend
    /\ pc \in {"send", "check"} => batch = 0
    /\ session.need_resend => InProgress(session)
    /\ pc = "return" => session.done
    /\ session.error # NoError => session.done
    /\ pc = "idle" => msg_id = session.msg_id

\* Requests have returned one after the other, with the answer if any.
Results ==
    \A r \in 1 .. N :
        /\ r > req => result[r].kind = "pending"
        /\ r < req \/ (r = req /\ pc = "idle") => result[r].kind # "pending"
        /\ r = req /\ pc \notin {"idle", "dead"} => result[r].kind = "pending"
        /\ result[r].kind = "response" /\ result[r].code = "ok" =>
             result[r].payload = Answer(r) /\ r \in Carried

ExchangeInv == ClientInv /\ Agreement /\ Control /\ Results

\* The message id that the client takes next is not in use: neither on the
\* line nor the one the device has in mind.
NextIdUnused ==
    LET id == wrapping_inc(session.msg_id)
    IN  /\ dev_last.msg_id # id
        /\ \A i \in 1 .. Len(c2s) : c2s[i].msg_id # id
        /\ \A i \in 1 .. Len(s2c) : s2c[i].msg_id # id

-----------------------------------------------------------------------------
(* Steps that leave the ids alone.                                         *)

\* The message of a session that is good has its type.
LEMMA CurrentType ==
  ASSUME ClientInv, SessionOK(req, session)
  PROVE  /\ Good(session) /\ req \in 0 .. N
         /\ Current \in RequestMessage /\ WellFormed(Current)
         /\ Current.msg_id = session.msg_id /\ Current.request = req
<1>1. Good(session) /\ req \in 0 .. N
  BY DEF ClientInv, TypeOK, UploadInRange, Good
<1> QED BY <1>1, MessageShape DEF Current

\* Replies that go, or come once more.
LEMMA OnlyLastTail ==
  ASSUME NEW q \in Seq(Reply), q # <<>>, NEW id, NEW last, OnlyLast(q, id, last)
  PROVE  OnlyLast(Tail(q), id, last)
<1>1. Len(q) \in Nat \ {0} /\ Len(Tail(q)) = Len(q) - 1
  OBVIOUS
<1>2. \A i \in 1 .. Len(q) - 1 : Tail(q)[i] = q[i + 1] /\ i + 1 \in 1 .. Len(q)
  BY <1>1
<1> QED BY <1>1, <1>2, Zenon DEF OnlyLast

\* A reply to the current message is the device's last one.
LEMMA OnlyLastAppend ==
  ASSUME NEW q \in Seq(Reply), NEW id, NEW last, OnlyLast(q, id, last),
         NEW h \in Reply, h.msg_id = id => last.msg_id = id /\ h = last.reply
  PROVE  OnlyLast(Append(q, h), id, last)
<1> DEFINE p == Append(q, h)
           n == Len(q)
<1>1. n \in Nat /\ Len(p) = n + 1 /\ p[n + 1] = h /\ \A i \in 1 .. n : p[i] = q[i]
  OBVIOUS
<1>2. \A i \in 1 .. n + 1 : i = n + 1 \/ i \in 1 .. n
  BY <1>1
<1> HIDE DEF p, n
<1>3. \A i \in 1 .. n : q[i].msg_id = id => last.msg_id = id /\ q[i] = last.reply
  BY DEF OnlyLast, n
<1> QED BY <1>1, <1>2, <1>3, Zenon DEF OnlyLast, p

\* The client changes nothing that its message depends on; replies may be used
\* up.
LEMMA QuietStep ==
  ASSUME ClientInv, Agreement, SameUpload(session, session'),
         Downloaded(req, session', Carried),
         s2c' = s2c \/ (s2c # <<>> /\ s2c' = Tail(s2c)),
         UNCHANGED <<c2s, req, dev_szx, dev_last, dev_body, executed>>
  PROVE  Agreement'
<1>1. Message(req, session') = Current /\ session'.msg_id = session.msg_id
  BY SameMessage DEF SameUpload, Current
<1>2. Pending' = Pending /\ Current' = Current /\ Carried' = Carried
  BY <1>1 DEF Pending, Current, Carried
<1>3. SessionOK(req, session')
  BY DEF Agreement, SessionOK, SameUpload
<1>4. OnlyLast(s2c', session.msg_id, dev_last)
  BY OnlyLastTail DEF Agreement, ClientInv
<1>5. c2s' \in Seq(RequestMessage) /\ c2s' \in Seq(Issued) /\ DeviceOK' /\ Executions'
  BY DEF Agreement, DeviceOK, Executions
<1> QED
  BY <1>1, <1>2, <1>3, <1>4, <1>5, Zenon DEF Agreement

\* The current message goes out.
LEMMA SendStep ==
  ASSUME ClientInv, Agreement, req > 0, SameUpload(session, session'),
         session'.resp_payload = session.resp_payload,
         session'.resp_code = session.resp_code, session'.done = session.done,
         session'.error = session.error,
         c2s' = Append(c2s, Current),
         UNCHANGED <<s2c, req, dev_szx, dev_last, dev_body, executed>>
  PROVE  Agreement'
<1>1. Message(req, session') = Current /\ session'.msg_id = session.msg_id
  BY SameMessage DEF SameUpload, Current
<1>2. Current \in RequestMessage /\ c2s \in Seq(RequestMessage)
  BY CurrentType DEF Agreement
<1>3. /\ Current' = Current /\ Carried' = Carried
      /\ Pending' = Append(Append(c2s, Current), Current)
  BY <1>1 DEF Pending, Current, Carried
<1>4. SessionOK(req, session') /\ Downloaded(req, session', Carried)
  BY DEF Agreement, SessionOK, SameUpload, Downloaded, InProgress
<1>5. Line(dev_last.msg_id, Pending')
  BY <1>2, <1>3, SentAgain DEF Agreement, Pending
<1>6. AllReady(dev_last.msg_id, Pending', dev_body, Carried)
  <2> DEFINE q == Pending
             p == Append(q, Current)
             n == Len(q)
  <2>1. q \in Seq(RequestMessage) /\ n \in Nat \ {0} /\ q[n] = Current
    BY <1>2 DEF Pending
  <2> HIDE DEF q
  <2>2. Len(p) = n + 1 /\ p[n + 1] = Current /\ \A i \in 1 .. n : p[i] = q[i]
    BY <1>2, <2>1
  <2>3. \A i \in 1 .. n + 1 : i = n + 1 \/ i \in 1 .. n
    BY <2>1
  <2>4. n \in 1 .. n
    BY <2>1
  <2>5. AllReady(dev_last.msg_id, q, dev_body, Carried)
    BY DEF Agreement, q
  <2> HIDE DEF p, n
  <2>6. AllReady(dev_last.msg_id, p, dev_body, Carried)
    <3>1. \A i \in 1 .. n : q[i].msg_id # dev_last.msg_id => Ready(q[i], dev_body, Carried)
      BY <2>5 DEF AllReady, n
    <3> QED BY <2>1, <2>2, <2>3, <2>4, <3>1, Zenon DEF AllReady
  <2> QED BY <1>3, <2>6 DEF p, q, Pending
<1>7. c2s' \in Seq(RequestMessage) /\ c2s' \in Seq(Issued)
  <2>1. Current \in Issued /\ c2s \in Seq(Issued)
    BY CurrentType DEF Agreement, Issued
  <2> QED BY <1>2, <2>1
<1>8. DeviceOK' /\ Executions'
  BY DEF Agreement, DeviceOK, Executions
<1> QED
  BY <1>1, <1>3, <1>4, <1>5, <1>6, <1>7, <1>8, Zenon DEF Agreement

\* The line loses a message to the device, or the device has handled its id.
LEMMA HeadGoneStep ==
  ASSUME ClientInv, Agreement, c2s # <<>>, c2s' = Tail(c2s),
         s2c' = s2c \/ (dev_last # None /\ s2c' = Append(s2c, dev_last.reply)),
         UNCHANGED <<session, req, dev_szx, dev_last, dev_body, executed>>
  PROVE  Agreement'
<1>1. Current \in RequestMessage /\ c2s \in Seq(RequestMessage)
  BY CurrentType DEF Agreement
<1>2. /\ Current' = Current /\ Carried' = Carried
      /\ Pending' = Append(Tail(c2s), Current)
  BY DEF Pending, Current, Carried
<1>3. Line(dev_last.msg_id, Pending')
  BY <1>1, <1>2, HeadGone DEF Agreement, Pending
<1>4. AllReady(dev_last.msg_id, Pending', dev_body, Carried)
  <2> DEFINE p == Append(Tail(c2s), Current)
             n == Len(c2s)
  <2>1. /\ Len(Pending) = n + 1 /\ Len(p) = n /\ n \in Nat \ {0}
        /\ \A i \in 1 .. n : p[i] = Pending[i + 1]
    BY <1>1, TailLine DEF Pending
  <2> HIDE DEF p, n
  <2>2. \A i \in 1 .. n : i + 1 \in 1 .. n + 1
    <3>1. n \in Nat
      BY <2>1
    <3> QED BY <3>1
  <2>3. AllReady(dev_last.msg_id, Pending, dev_body, Carried)
    BY DEF Agreement
  <2>4. AllReady(dev_last.msg_id, p, dev_body, Carried)
    BY <2>1, <2>2, <2>3, Zenon DEF AllReady
  <2> QED BY <1>2, <2>4 DEF p
<1>5. c2s' \in Seq(RequestMessage) /\ c2s' \in Seq(Issued)
  <2>1. c2s \in Seq(Issued)
    BY DEF Agreement
  <2> QED BY <1>1, <2>1
<1>6. OnlyLast(s2c', session.msg_id, dev_last)
  <2>1. s2c \in Seq(Reply) /\ OnlyLast(s2c, session.msg_id, dev_last)
    BY DEF ClientInv, Agreement
  <2>2. dev_last # None => /\ dev_last.reply \in Reply
                           /\ dev_last.reply.msg_id = dev_last.msg_id
    BY DEF Agreement, DeviceOK
  <2> QED BY <2>1, <2>2, OnlyLastAppend
<1>7. DeviceOK' /\ Executions'
  BY DEF Agreement, DeviceOK, Executions
<1> QED
  BY <1>2, <1>3, <1>4, <1>5, <1>6, <1>7, Zenon DEF Agreement

-----------------------------------------------------------------------------
(* Steps to a new message id.                                              *)

\* The line with another message at its end.
LEMMA ReadyAtEnd ==
  ASSUME NEW c \in Seq(RequestMessage), NEW x \in RequestMessage,
         NEW y \in RequestMessage, NEW d, NEW body, NEW done,
         AllReady(d, Append(c, x), body, done), Ready(y, body, done)
  PROVE  AllReady(d, Append(c, y), body, done)
<1> DEFINE q == Append(c, x)
           p == Append(c, y)
           n == Len(c)
<1>1. /\ Len(q) = n + 1 /\ Len(p) = n + 1 /\ p[n + 1] = y
      /\ \A i \in 1 .. n : p[i] = c[i] /\ q[i] = c[i]
  OBVIOUS
<1>2. n \in Nat
  OBVIOUS
<1>3. AllReady(d, q, body, done)
  OBVIOUS
<1> HIDE DEF q, p, n
<1>4. \A i \in 1 .. n + 1 : i = n + 1 \/ i \in 1 .. n
  BY <1>2
<1>5. \A i \in 1 .. n : i \in 1 .. n + 1
  BY <1>2
<1>6. \A i \in 1 .. n + 1 : q[i].msg_id # d => Ready(q[i], body, done)
  BY <1>1, <1>3, Zenon DEF AllReady
<1>7. \A i \in 1 .. n + 1 : p[i].msg_id # d => Ready(p[i], body, done)
  BY <1>1, <1>4, <1>5, <1>6, Zenon
<1> QED BY <1>1, <1>7, Zenon DEF AllReady, p

\* No reply has an id that is not in use.
LEMMA NoReplyYet ==
  ASSUME ClientInv, NextIdUnused, NEW last
  PROVE  /\ OnlyLast(s2c, wrapping_inc(session.msg_id), last)
         /\ s2c # <<>> => OnlyLast(Tail(s2c), wrapping_inc(session.msg_id), last)
<1>1. OnlyLast(s2c, wrapping_inc(session.msg_id), last)
  BY Zenon DEF NextIdUnused, OnlyLast
<1>2. s2c \in Seq(Reply)
  BY DEF ClientInv
<1> QED BY <1>1, <1>2, OnlyLastTail

\* The client goes on to a new message id, that of message y.
LEMMA NewIdStep ==
  ASSUME ClientInv, ClientInv', Agreement, NextIdUnused,
         session'.msg_id = wrapping_inc(session.msg_id),
         SessionOK(req', session'), Downloaded(req', session', Carried),
         Line(dev_last.msg_id, Append(c2s, Current')),
         Ready(Current', dev_body, Carried),
         req <= req', s2c' = s2c \/ (s2c # <<>> /\ s2c' = Tail(s2c)),
         UNCHANGED <<c2s, dev_szx, dev_last, dev_body, executed>>
  PROVE  Agreement'
<1>1. Current \in RequestMessage /\ Current' \in RequestMessage
  <2>1. Current \in RequestMessage
    BY CurrentType DEF Agreement
  <2>2. Good(session') /\ req' \in 0 .. N
    BY DEF ClientInv, TypeOK, UploadInRange, Good
  <2> QED BY <2>1, <2>2, MessageShape DEF Current
<1>2. Pending' = Append(c2s, Current') /\ Carried' = Carried
  BY DEF Pending, Carried
<1>3. AllReady(dev_last.msg_id, Pending', dev_body, Carried)
  <2>1. c2s \in Seq(RequestMessage) /\ AllReady(dev_last.msg_id, Append(c2s, Current), dev_body, Carried)
    BY DEF Agreement, Pending
  <2> QED BY <1>1, <1>2, <2>1, ReadyAtEnd, Zenon
<1>4. OnlyLast(s2c', session'.msg_id, dev_last)
  BY NoReplyYet
<1>5. dev_last.msg_id # session'.msg_id
  BY DEF NextIdUnused
<1>6. Executions'
  <2>1. \A i \in 1 .. Len(executed) : executed[i][1] \in 1 .. N
    BY DEF Agreement, Executions
  <2>2. req \in Int /\ req' \in Int
    BY DEF ClientInv, TypeOK
  <2>3. \A k \in 1 .. N : k <= req => k <= req'
    BY <2>2, ClientAssumption
  <2>4. \A i \in 1 .. Len(executed) :
           executed[i][1] <= req' /\ executed[i][2] = RequestBody(executed[i][1])
    BY <2>1, <2>3, Zenon DEF Agreement, Executions
  <2> QED BY <2>4, Zenon DEF Agreement, Executions
<1>7. c2s' \in Seq(RequestMessage) /\ c2s' \in Seq(Issued) /\ DeviceOK'
  BY DEF Agreement, DeviceOK
<1> QED
  BY <1>2, <1>3, <1>4, <1>5, <1>6, <1>7, Zenon DEF Agreement

\* The next request starts.
LEMMA RequestStep ==
  ASSUME ClientInv, Agreement, Control, NextIdUnused, Request,
         UNCHANGED deviceVars
  PROVE  Agreement'
<1> DEFINE r == req + 1
           id == wrapping_inc(session.msg_id)
           t == NewSession(id, ReqLen[r])
           y == Message(r, t)
<1>1. /\ req' = r /\ session' = t /\ UNCHANGED <<c2s, s2c>>
      /\ req \in 0 .. N /\ r \in 1 .. N
  BY ClientAssumption DEF ClientInv, TypeOK, Control, Request
<1>2. ClientInv'
  BY RequestInv
<1>3. /\ t.msg_id = id /\ t.req_payload_size = ReqLen[r] /\ t.req_payload_cleared = FALSE
      /\ t.block2_num = 0 /\ t.block1_num = 0 /\ t.block2_szx = SZX
      /\ t.resp_payload = <<>> /\ t.done = FALSE
  BY DEF NewSession
<1>4. Good(t)
  BY <1>1, <1>2 DEF ClientInv, TypeOK, UploadInRange, Good
<1> HIDE DEF t, id, r
<1>5. r \in Nat /\ RespLen[r] \in Nat /\ Size(SZX) \in Nat
  <2>1. SZX \in 0 .. 7
    BY ClientAssumption
  <2> QED BY <1>1, <2>1, Bodies, SizeType
<1>6. t.block2_num * Size(t.block2_szx) = 0
  BY <1>3, <1>5
<1>7. SessionOK(r, t)
  BY <1>3, <1>5, <1>6 DEF SessionOK
<1>8. Downloaded(r, t, Carried)
  BY <1>3, <1>5, <1>6, NoChunk DEF Downloaded, InProgress
<1>9. /\ y \in RequestMessage /\ WellFormed(y) /\ Initial(y) /\ y.msg_id = id /\ y.request = r
      /\ y.block2.num = 0 /\ (y.block1 # NoBlock => y.block1.num = 0)
  <2>1. r \in 0 .. N
    BY <1>1
  <2>2. /\ y \in RequestMessage /\ WellFormed(y)
        /\ y.msg_id = t.msg_id /\ y.request = r
        /\ y.block2.num = t.block2_num
        /\ y.block1 # NoBlock => y.block1.num = t.block1_num
    BY <1>4, <1>7, <2>1, MessageShape
  <2> QED BY <1>3, <2>2 DEF Initial
<1>10. Current' = y
  BY <1>1 DEF Current
<1> HIDE DEF y
<1>11. /\ Current \in RequestMessage /\ Current.request = req
       /\ c2s \in Seq(RequestMessage) /\ Line(dev_last.msg_id, Append(c2s, Current))
  BY CurrentType DEF Agreement, Pending
<1>12. req < r /\ req <= r
  BY <1>1 DEF r
<1>13. Line(dev_last.msg_id, Append(c2s, y))
  <2>1. id # dev_last.msg_id /\ \A i \in 1 .. Len(c2s) : c2s[i].msg_id # id
    BY DEF NextIdUnused, id
  <2> QED BY <1>9, <1>11, <1>12, <2>1, Started
<1>14. r \notin Carried
  <2>1. \A i \in 1 .. Len(executed) : executed[i][1] <= req /\ executed[i][1] \in 1 .. N
    BY DEF Agreement, Executions
  <2>2. \A k \in 1 .. N : k <= req => k # r
    BY <1>1, ClientAssumption DEF r
  <2> QED BY <2>1, <2>2, Zenon DEF Carried
<1>15. Ready(y, dev_body, Carried)
  BY <1>9, <1>14 DEF Ready
<1> QED
  BY <1>1, <1>2, <1>3, <1>7, <1>8, <1>10, <1>12, <1>13, <1>15, NewIdStep
  DEF deviceVars, id

\* The client takes a reply.
LEMMA FrameStep ==
  ASSUME ClientInv, Agreement, Control, NextIdUnused, MaxBatch = 1, OnFrame,
         UNCHANGED deviceVars
  PROVE  /\ Agreement'
         /\ \/ session' = session
            \/ Ended(req, session, session', Carried)
            \/ Moved(req, session, session', dev_body, Carried)
<1> DEFINE h == Head(s2c)
           t == on_frame(session, h)
<1>1. /\ s2c # <<>> /\ s2c' = Tail(s2c) /\ session' = t /\ pc = "poll"
      /\ UNCHANGED <<c2s, req, dev_szx, dev_last, dev_body, executed>>
  BY DEF OnFrame, deviceVars
<1>2. ClientInv'
  BY OnFrameInv
<1>3. req \in 1 .. N /\ Good(session)
  BY <1>1 DEF ClientInv, TypeOK, UploadInRange, Good
<1>4. InProgress(session) /\ ~session.need_resend
  <2>1. batch = 0
    BY DEF OnFrame, ClientInv, TypeOK
  <2> QED BY <1>1, <2>1 DEF Control
<1>5. h \in Reply /\ h = s2c[1] /\ 1 \in 1 .. Len(s2c)
  BY <1>1 DEF ClientInv
<1> HIDE DEF h
<1>6. h.msg_id = session.msg_id =>
        dev_last.msg_id = session.msg_id /\ Handled(Current, h, dev_body, Carried)
  BY <1>5 DEF Agreement, OnlyLast
<1>7. /\ SessionOK(req, session) /\ Downloaded(req, session, Carried)
      /\ dev_body \in Seq(Nat \X Nat)
  BY DEF Agreement, DeviceOK
<1>8. \/ t = session
      \/ Ended(req, session, t, Carried)
      \/ h.msg_id = session.msg_id /\ Moved(req, session, t, dev_body, Carried)
  BY <1>3, <1>4, <1>5, <1>6, <1>7, FrameOutcome DEF Current
<1> HIDE DEF t
<1>9. CASE t = session
  <2>1. SameUpload(session, session')
    BY <1>1, <1>9 DEF SameUpload
  <2> QED BY <1>1, <1>7, <1>9, <2>1, QuietStep
<1>10. CASE Ended(req, session, t, Carried)
  <2>1. SameUpload(session, session') /\ Downloaded(req, session', Carried)
    BY <1>1, <1>10 DEF Ended
  <2> QED BY <1>1, <1>10, <2>1, QuietStep
<1>11. CASE h.msg_id = session.msg_id /\ Moved(req, session, t, dev_body, Carried)
  <2> DEFINE y == Message(req, t)
  <2>1. /\ t.msg_id = wrapping_inc(session.msg_id)
        /\ SessionOK(req, t) /\ Downloaded(req, t, Carried)
        /\ Ready(y, dev_body, Carried)
    BY <1>11 DEF Moved
  <2>2. Good(t) /\ req \in 0 .. N
    BY <1>1, <1>2, <1>3 DEF ClientInv, TypeOK, UploadInRange, Good
  <2>3. y \in RequestMessage /\ WellFormed(y) /\ y.msg_id = t.msg_id /\ y.request = req
    BY <2>1, <2>2, MessageShape
  <2>4. Current' = y
    BY <1>1 DEF Current
  <2> HIDE DEF y
  <2>5. /\ Current \in RequestMessage /\ Current.request = req
        /\ Current.msg_id = session.msg_id
        /\ c2s \in Seq(RequestMessage) /\ Line(dev_last.msg_id, Append(c2s, Current))
    BY CurrentType DEF Agreement, Pending
  <2>6. dev_last.msg_id = session.msg_id /\ t.msg_id # dev_last.msg_id
    BY <1>6, <1>11, <2>1 DEF NextIdUnused
  <2>7. Line(dev_last.msg_id, Append(c2s, y))
    BY <2>3, <2>5, <2>6, Advanced
  <2>8. req <= req'
    BY <1>1, <1>3
  <2>9. Agreement'
    BY <1>1, <1>2, <2>1, <2>4, <2>7, <2>8, NewIdStep
  <2> QED BY <1>1, <1>11, <2>9
<1> QED BY <1>8, <1>9, <1>10, <1>11

-----------------------------------------------------------------------------
(* Steps of the device.                                                    *)

\* The device is prepared for a message that it has not handled.
LEMMA FreshHead ==
  ASSUME ClientInv, Agreement, c2s # <<>>, Fresh(Head(c2s))
  PROVE  LET m == Head(c2s)
         IN  /\ m \in RequestMessage /\ WellFormed(m) /\ m.msg_id \in MsgId
             /\ m.request \in 1 .. N /\ m.request <= req
             /\ Ready(m, dev_body, Carried)
             /\ dev_last.msg_id # session.msg_id
             /\ m.msg_id = session.msg_id => m = Current
<1> DEFINE m == Head(c2s)
           q == Pending
           n == Len(c2s) + 1
<1>1. /\ Current \in RequestMessage /\ c2s \in Seq(RequestMessage)
      /\ Current.msg_id = session.msg_id /\ Current.request = req
  BY CurrentType DEF Agreement
<1>2. Len(q) = n /\ Len(c2s) \in Nat \ {0} /\ q[1] = m /\ q[n] = Current
  BY <1>1, TailLine DEF Pending
<1>3. m \in Issued
  BY DEF Agreement
<1> HIDE DEF m
<1>4. m \in RequestMessage /\ m.msg_id \in MsgId /\ m.request \in 1 .. N
  BY <1>3, ClientAssumption DEF Issued, RequestMessage
<1>5. Line(dev_last.msg_id, q) /\ AllReady(dev_last.msg_id, q, dev_body, Carried)
  BY DEF Agreement
<1> HIDE DEF q
<1>6. 1 \in 1 .. n /\ n \in 1 .. n /\ 1 <= n
  BY <1>2
<1> HIDE DEF n
<1>7. m.msg_id # dev_last.msg_id
  BY DEF Fresh, m
<1>8. WellFormed(m) /\ m.request <= req /\ Ready(m, dev_body, Carried)
  BY <1>1, <1>2, <1>5, <1>6, <1>7, Zenon DEF Line, AllReady
<1>9. dev_last.msg_id # session.msg_id
  BY <1>1, <1>2, <1>5, <1>6, <1>7, Zenon DEF Line
<1>10. m.msg_id = session.msg_id => m = Current
  BY <1>1, <1>2, <1>5, <1>6, Zenon DEF Line
<1> QED BY <1>4, <1>8, <1>9, <1>10 DEF m

\* What has been received stays true when the device carries out more.
LEMMA DownloadedMore ==
  ASSUME NEW r, NEW s, NEW done, NEW more, done \subseteq more, Downloaded(r, s, done)
  PROVE  Downloaded(r, s, more)
  BY DEF Downloaded

\* The device handles a message and answers it.
LEMMA AnsweredStep ==
  ASSUME ClientInv, Agreement, c2s # <<>>, Fresh(Head(c2s)),
         NEW reply \in Reply, reply.msg_id = Head(c2s).msg_id,
         Answered(Head(c2s), reply), dev_body' \in Seq(Nat \X Nat), Executions',
         Carried \subseteq Carried', Carried' \subseteq Carried \cup {Head(c2s).request},
         Handled(Head(c2s), reply, dev_body', Carried')
  PROVE  Agreement'
<1> DEFINE m == Head(c2s)
           p == Append(Tail(c2s), Current)
           n == Len(c2s)
           d == dev_last.msg_id
<1>1. /\ c2s' = Tail(c2s) /\ s2c' = Append(s2c, reply)
      /\ dev_last' = [msg_id |-> m.msg_id, reply |-> reply]
      /\ UNCHANGED <<req, session, dev_szx>>
  BY DEF Answered, clientVars
<1>2. /\ Current \in RequestMessage /\ c2s \in Seq(RequestMessage)
      /\ Current.msg_id = session.msg_id
  BY CurrentType DEF Agreement
<1>3. Current' = Current /\ Pending' = p
  BY <1>1 DEF Current, Pending
<1>4. /\ m \in RequestMessage /\ m.msg_id \in MsgId /\ m.msg_id # d
      /\ d # session.msg_id /\ (m.msg_id = session.msg_id => m = Current)
      /\ m.request \in 1 .. N
  BY FreshHead DEF Fresh
<1>5. dev_last'.msg_id = m.msg_id /\ dev_last'.reply = reply
  BY <1>1
<1>6. /\ Line(m.msg_id, p)
      /\ \A i \in 1 .. n : p[i].msg_id # m.msg_id =>
            Initial(p[i]) /\ m.request < p[i].request /\ p[i].msg_id # d
  BY <1>2, <1>4, HeadHandled DEF Agreement, Pending
<1>7. /\ Len(Pending) = n + 1 /\ Len(p) = n /\ n \in Nat
      /\ p \in Seq(RequestMessage)
      /\ \A i \in 1 .. n : p[i] = Pending[i + 1]
  BY <1>2, TailLine DEF Pending
<1>8. AllReady(m.msg_id, p, dev_body', Carried')
  <2>1. AllReady(d, Pending, dev_body, Carried)
    BY DEF Agreement
  <2>2. Carried' \subseteq Carried \cup {m.request}
    OBVIOUS
  <2> HIDE DEF p, n, m, d
  <2>3. \A i \in 1 .. n : i + 1 \in 1 .. n + 1
    <3>1. n \in Nat
      BY <1>7
    <3> QED BY <3>1
  <2>4. SUFFICES ASSUME NEW i \in 1 .. n, p[i].msg_id # m.msg_id
                 PROVE  Ready(p[i], dev_body', Carried')
    BY <1>7, Zenon DEF AllReady
  <2>5. Initial(p[i]) /\ m.request < p[i].request /\ p[i].msg_id # d
    BY <1>6, <2>4, Zenon
  <2>6. Ready(p[i], dev_body, Carried)
    BY <1>7, <2>1, <2>3, <2>5, Zenon DEF AllReady
  <2>7. p[i].block2.num = 0 /\ p[i].request \notin Carried
    BY <2>5, <2>6, Zenon DEF Ready, Initial
  <2>8. p[i].request # m.request
    <3>1. p[i] \in RequestMessage
      BY <1>7
    <3> QED BY <1>4, <2>5, <3>1 DEF RequestMessage
  <2>9. p[i].request \notin Carried'
    BY <2>2, <2>7, <2>8
  <2>10. p[i].block1 # NoBlock => ~(p[i].block1.num > 0)
    BY <2>5 DEF Initial
  <2> QED BY <2>7, <2>9, <2>10, Zenon DEF Ready
<1>9. OnlyLast(s2c', session.msg_id, dev_last')
  <2>1. s2c \in Seq(Reply) /\ OnlyLast(s2c, session.msg_id, dev_last)
    BY DEF ClientInv, Agreement
  <2>2. OnlyLast(s2c, session.msg_id, dev_last')
    BY <1>4, <2>1, Zenon DEF OnlyLast
  <2>3. reply.msg_id = session.msg_id =>
           dev_last'.msg_id = session.msg_id /\ reply = dev_last'.reply
    BY <1>5
  <2> QED BY <1>1, <2>1, <2>2, <2>3, OnlyLastAppend
<1>10. dev_last'.msg_id = session.msg_id =>
          Handled(Current, dev_last'.reply, dev_body', Carried')
  BY <1>4, <1>5
<1>11. Downloaded(req, session, Carried')
  BY DownloadedMore DEF Agreement
<1>12. DeviceOK'
  <2>1. dev_last' \in [msg_id : MsgId, reply : Reply]
    BY <1>1, <1>4
  <2> QED BY <1>1, <1>5, <2>1 DEF Agreement, DeviceOK
<1>13. c2s' \in Seq(RequestMessage) /\ c2s' \in Seq(Issued)
  <2>1. c2s \in Seq(Issued)
    BY DEF Agreement
  <2> QED BY <1>1, <1>2, <2>1
<1>14. SessionOK(req, session)
  BY DEF Agreement
<1>15. Line(dev_last'.msg_id, Pending') /\ AllReady(dev_last'.msg_id, Pending', dev_body', Carried')
  BY <1>3, <1>5, <1>6, <1>8
<1> HIDE DEF p, n, m, d
<1> QED
  BY <1>1, <1>3, <1>9, <1>10, <1>11, <1>12, <1>13, <1>14, <1>15, Zenon
  DEF Agreement

\* Nothing is carried out.
LEMMA NothingExecuted ==
  ASSUME Executions, UNCHANGED <<executed, req>>
  PROVE  Executions' /\ Carried' = Carried
  BY DEF Executions, Carried

\* Request r is carried out for the first time, with its body.
LEMMA OneExecuted ==
  ASSUME Executions, NEW r \in 1 .. N, r <= req, r \notin Carried,
         executed' = Append(executed, <<r, RequestBody(r)>>), req' = req
  PROVE  Executions' /\ Carried' = Carried \cup {r}
<1> DEFINE e == <<r, RequestBody(r)>>
           n == Len(executed)
           S == (1 .. N) \X Seq(Nat \X Nat)
<1>1. e \in S
  <2>1. RequestBody(r) \in Seq(Nat \X Nat)
    <3>1. RequestBody(r) = Chunk(r, 0, ReqLen[r]) /\ r \in Nat /\ ReqLen[r] \in Nat /\ 0 \in Nat
      BY Bodies
    <3>2. \A a, b \in Nat : Chunk(r, a, b) \in Seq(Nat \X Nat)
      BY <3>1, ChunkSeq
    <3> QED BY <3>1, <3>2, Zenon
  <2> QED BY <2>1
<1>2. e[1] = r /\ e[2] = RequestBody(r)
  OBVIOUS
<1>3. executed \in Seq(S) /\ n \in Nat
  BY DEF Executions
<1> HIDE DEF e, S
<1>4. executed' = Append(executed, e)
  BY DEF e
<1>5. /\ executed' \in Seq(S) /\ Len(executed') = n + 1
      /\ executed'[n + 1] = e /\ \A i \in 1 .. n : executed'[i] = executed[i]
  BY <1>1, <1>3, <1>4
<1>6. \A i \in 1 .. n + 1 : i = n + 1 \/ i \in 1 .. n
  BY <1>3
<1>7. \A i \in 1 .. n : i \in 1 .. n + 1
  BY <1>3
<1>8. n + 1 \in 1 .. n + 1
  BY <1>3
<1> HIDE DEF n
<1>9. \A i \in 1 .. n : executed[i][1] # r
  BY Zenon DEF Carried, n
<1>10. \A i \in 1 .. n : /\ executed[i][1] <= req
                         /\ executed[i][2] = RequestBody(executed[i][1])
  BY Zenon DEF Executions, n
<1>11. \A i, j \in 1 .. n : executed[i][1] = executed[j][1] => i = j
  BY Zenon DEF Executions, n
<1>12. \A i \in 1 .. n + 1 : /\ executed'[i][1] <= req'
                             /\ executed'[i][2] = RequestBody(executed'[i][1])
  BY <1>2, <1>5, <1>6, <1>10, Zenon
<1>13. \A i, j \in 1 .. n + 1 : executed'[i][1] = executed'[j][1] => i = j
  <2>1. \A i \in 1 .. n : executed'[i][1] = executed[i][1] /\ executed'[i][1] # r
    BY <1>5, <1>9, Zenon
  <2>2. executed'[n + 1][1] = r
    BY <1>2, <1>5, Zenon
  <2>3. \A i, j \in 1 .. n : executed'[i][1] = executed'[j][1] => i = j
    BY <1>11, <2>1, Zenon
  <2> SUFFICES ASSUME NEW i \in 1 .. n + 1, NEW j \in 1 .. n + 1,
                      executed'[i][1] = executed'[j][1]
               PROVE  i = j
    BY Zenon
  <2>4. CASE i \in 1 .. n /\ j \in 1 .. n
    BY <2>3, <2>4, Zenon
  <2>5. CASE i = n + 1
    <3>1. j \notin 1 .. n
      BY <2>1, <2>2, <2>5, Zenon
    <3> QED BY <1>6, <2>5, <3>1, Zenon
  <2>6. CASE j = n + 1
    <3>1. i \notin 1 .. n
      BY <2>1, <2>2, <2>6, Zenon
    <3> QED BY <1>6, <2>6, <3>1, Zenon
  <2> QED BY <1>6, <2>4, <2>5, <2>6, Zenon
<1>14. Executions'
  BY <1>5, <1>12, <1>13 DEF Executions, S
<1>15. Carried' = Carried \cup {r}
  <2>1. Carried' = {executed'[i][1] : i \in 1 .. n + 1}
    BY <1>5, Zenon DEF Carried
  <2>2. Carried = {executed[i][1] : i \in 1 .. n}
    BY DEF Carried, n
  <2>3. executed'[n + 1][1] = r /\ \A i \in 1 .. n : executed'[i][1] = executed[i][1]
    BY <1>2, <1>5, Zenon
  <2>4. ASSUME NEW k \in Carried' PROVE k \in Carried \cup {r}
    BY <1>6, <2>1, <2>2, <2>3, <2>4, Zenon
  <2>5. ASSUME NEW k \in Carried PROVE k \in Carried'
    BY <1>7, <2>1, <2>2, <2>3, <2>5, Zenon
  <2>6. r \in Carried'
    BY <1>8, <2>1, <2>3, Zenon
  <2> QED BY <2>4, <2>5, <2>6, Zenon
<1> QED BY <1>14, <1>15

\* The device's short replies.
LEMMA ShortReply ==
  ASSUME NEW m \in RequestMessage, NEW code \in Code, NEW b \in Block \cup {NoBlock}
  PROVE  LET reply == ReplyTo(m, code, b, NoBlock, <<>>)
         IN  /\ reply \in Reply /\ [reply EXCEPT !.msg_type = "Rst"] \in Reply
             /\ reply.msg_id = m.msg_id /\ reply.code = code /\ reply.block1 = b
             /\ reply.block2 = NoBlock /\ reply.payload = <<>>
             /\ [reply EXCEPT !.msg_type = "Rst"].msg_id = m.msg_id
             /\ [reply EXCEPT !.msg_type = "Rst"].msg_type = "Rst"
<1>1. <<>> \in Seq(Unit)
  OBVIOUS
<1>2. m.msg_id \in MsgId
  BY DEF RequestMessage
<1> QED BY <1>1, <1>2 DEF ReplyTo, Reply

\* The device stores a chunk and asks for more.
LEMMA ContinueStep ==
  ASSUME ClientInv, Agreement, c2s # <<>>,
         DeviceStores(Head(c2s)) \/ DeviceInsists(Head(c2s))
  PROVE  Agreement' /\ s2c' \in Seq(Reply) /\ UNCHANGED <<executed, clientVars>>
<1> DEFINE m == Head(c2s)
           b == [m.block1 EXCEPT !.szx = MinSzx(@)]
           more == [m.block1 EXCEPT !.szx = MinSzx(@), !.more = TRUE]
<1>1. /\ Fresh(m) /\ m.block1 # NoBlock /\ dev_body' = Stored(m)
      /\ executed' = executed /\ UNCHANGED clientVars
      /\ \E c \in {b, more} : Answered(m, ReplyTo(m, RESPONSE_CONTINUE, c, NoBlock, <<>>))
  BY DEF DeviceStores, DeviceInsists, Answered
<1>2. /\ m \in RequestMessage /\ WellFormed(m) /\ m.request \in 1 .. N
      /\ Ready(m, dev_body, Carried)
  BY <1>1, FreshHead
<1>3. DeviceOK /\ Executions
  BY DEF Agreement
<1> HIDE DEF m
<1>4. m.block1 \in Block /\ m.block2 \in Block
  BY <1>1, <1>2 DEF RequestMessage
<1>5. m.block1.szx \in 0 .. 7 /\ m.block2.num \in Nat /\ dev_szx \in 0 .. 7
  BY <1>3, <1>4 DEF Block, DeviceOK
<1>6. MinSzx(m.block1.szx) \in 0 .. 7 /\ MinSzx(m.block1.szx) <= m.block1.szx
  BY <1>5 DEF MinSzx
<1>7. /\ b \in Block /\ b.szx = MinSzx(m.block1.szx)
      /\ more \in Block /\ more.szx = MinSzx(m.block1.szx)
  BY <1>4, <1>6 DEF Block
<1>8. PICK c \in {b, more} : Answered(m, ReplyTo(m, RESPONSE_CONTINUE, c, NoBlock, <<>>))
  BY <1>1
<1> DEFINE reply == ReplyTo(m, RESPONSE_CONTINUE, c, NoBlock, <<>>)
<1> HIDE DEF b, more
<1>9. c \in Block /\ c.szx <= m.block1.szx
  BY <1>6, <1>7
<1>10. NoBlock \notin Block
  BY ExchangeAssumption, Zenon
<1>11. /\ reply \in Reply /\ reply.msg_id = m.msg_id /\ reply.code = RESPONSE_CONTINUE
       /\ reply.block1 = c /\ reply.block2 = NoBlock /\ reply.payload = <<>>
  <2>1. RESPONSE_CONTINUE \in Code /\ m.msg_id \in MsgId /\ <<>> \in Seq(Unit)
    BY <1>2 DEF Code, RequestMessage
  <2> QED BY <1>9, <2>1 DEF ReplyTo, Reply
<1> HIDE DEF reply
<1>12. m.block2.num = 0 /\ m.request \notin Carried
  <2>1. m.block2.num = 0
    BY <1>1, <1>2, <1>5 DEF WellFormed
  <2> QED BY <1>2, <2>1 DEF Ready
<1>13. /\ Stored(m) = Chunk(m.request, 0, From(m.block1) + Len(m.payload))
       /\ Len(Stored(m)) = From(m.block1) + Len(m.payload)
       /\ Stored(m) \in Seq(Nat \X Nat)
  BY <1>1, <1>2, <1>3, <1>12, StoredBody DEF DeviceOK
<1>14. Executions' /\ Carried' = Carried
  BY <1>1, <1>3, NothingExecuted DEF clientVars
<1>15. Handled(m, reply, dev_body', Carried')
  <2>1. Continuation(m, reply, dev_body', Carried)
    BY <1>1, <1>9, <1>10, <1>11, <1>12, <1>13 DEF Continuation
  <2> QED BY <1>14, <2>1 DEF Handled
<1>16. Agreement'
  BY <1>1, <1>8, <1>11, <1>13, <1>14, <1>15, AnsweredStep DEF reply, m
<1>17. s2c' \in Seq(Reply)
  <2>1. s2c \in Seq(Reply) /\ s2c' = Append(s2c, reply)
    BY <1>8 DEF ClientInv, Answered, reply
  <2> QED BY <1>11, <2>1
<1> QED BY <1>1, <1>16, <1>17

\* The device carries a request out and answers it, or sends a later block of
\* the answer.
LEMMA AnswerStep ==
  ASSUME ClientInv, Agreement, c2s # <<>>,
         DeviceExecutes(Head(c2s)) \/ DeviceContinues(Head(c2s))
  PROVE  /\ Agreement' /\ s2c' \in Seq(Reply) /\ UNCHANGED clientVars
         /\ \/ executed' = executed
            \/ \E r \in 1 .. N : r <= req /\ r \notin Carried /\ Carried' = Carried \cup {r}
<1> DEFINE m == Head(c2s)
           reply == AnswerBlock(m)
<1>1. Fresh(m) /\ UNCHANGED clientVars /\ Answered(m, reply)
  BY DEF DeviceExecutes, DeviceContinues, Answered
<1>2. /\ m \in RequestMessage /\ WellFormed(m) /\ m.request \in 1 .. N
      /\ m.request <= req /\ Ready(m, dev_body, Carried)
  BY <1>1, FreshHead
<1>3. DeviceOK /\ Executions /\ dev_szx \in 0 .. 7 /\ dev_body \in Seq(Nat \X Nat)
  BY DEF Agreement, DeviceOK
<1>4. /\ dev_body' \in Seq(Nat \X Nat) /\ m.request \in Carried'
      /\ Executions' /\ Carried \subseteq Carried' /\ Carried' \subseteq Carried \cup {m.request}
      /\ \/ executed' = executed
         \/ m.request \notin Carried /\ Carried' = Carried \cup {m.request}
  <2>1. CASE DeviceExecutes(m)
    <3>1. /\ m.block2.num = 0 /\ (m.block1 # NoBlock => ~m.block1.more)
          /\ executed' = Append(executed, <<m.request, Stored(m)>>) /\ dev_body' = <<>>
      BY <2>1 DEF DeviceExecutes
    <3>2. m.request \notin Carried
      BY <1>2, <3>1 DEF Ready
    <3>3. Stored(m) = RequestBody(m.request)
      BY <1>2, <1>3, <3>1, StoredBody
    <3>4. req' = req
      BY <1>1 DEF clientVars
    <3>5. Executions' /\ Carried' = Carried \cup {m.request}
      BY <1>2, <1>3, <3>1, <3>2, <3>3, <3>4, OneExecuted
    <3>6. <<>> \in Seq(Nat \X Nat)
      OBVIOUS
    <3> QED BY <3>1, <3>2, <3>5, <3>6
  <2>2. CASE DeviceContinues(m)
    <3>1. m.block2.num > 0 /\ dev_body' = dev_body /\ executed' = executed
      BY <2>2 DEF DeviceContinues
    <3>2. Executions' /\ Carried' = Carried
      BY <1>1, <1>3, <3>1, NothingExecuted DEF clientVars
    <3>3. m.request \in Carried
      <4>1. m.block2.num # 0
        BY <1>2, <3>1 DEF RequestMessage, Block
      <4> QED BY <1>2, <4>1 DEF Ready
    <3> QED BY <1>3, <3>1, <3>2, <3>3
  <2> QED BY <2>1, <2>2
<1>5. reply \in Reply /\ reply.msg_id = m.msg_id /\ Answering(m, reply, Carried')
  BY <1>2, <1>3, <1>4, AnswerBlockOK
<1> HIDE DEF reply, m
<1>6. Handled(m, reply, dev_body', Carried')
  BY <1>5 DEF Handled
<1>7. Agreement'
  BY <1>1, <1>4, <1>5, <1>6, AnsweredStep DEF m
<1>8. s2c' \in Seq(Reply)
  <2>1. s2c \in Seq(Reply) /\ s2c' = Append(s2c, reply)
    BY <1>1 DEF ClientInv, Answered
  <2> QED BY <1>5, <2>1
<1> QED BY <1>1, <1>2, <1>4, <1>7, <1>8

\* The device refuses a message.
LEMMA RefuseStep ==
  ASSUME ClientInv, Agreement, c2s # <<>>,
         DeviceRefuses(Head(c2s)) \/ DeviceResets(Head(c2s))
  PROVE  Agreement' /\ s2c' \in Seq(Reply) /\ UNCHANGED <<executed, clientVars>>
<1> DEFINE m == Head(c2s)
           error == ReplyTo(m, "error", NoBlock, NoBlock, <<>>)
           rst == [error EXCEPT !.msg_type = "Rst"]
<1>1. /\ Fresh(m) /\ dev_body' = <<>> /\ executed' = executed /\ UNCHANGED clientVars
      /\ \E c \in {error, rst} : Answered(m, c)
  BY DEF DeviceRefuses, DeviceResets, Answered
<1>2. m \in RequestMessage
  BY <1>1, FreshHead
<1> HIDE DEF m
<1>3. /\ error \in Reply /\ error.msg_id = m.msg_id /\ rst \in Reply
      /\ rst.msg_id = m.msg_id /\ Refusal(error) /\ rst.msg_type = "Rst"
  <2>1. "error" \in Code /\ NoBlock \in Block \cup {NoBlock}
    BY DEF Code
  <2> QED BY <1>2, <2>1, ShortReply DEF Refusal
<1>4. PICK c \in {error, rst} : Answered(m, c)
  BY <1>1
<1> HIDE DEF error, rst
<1>5. c \in Reply /\ c.msg_id = m.msg_id /\ (Refusal(c) \/ c.msg_type = "Rst")
  BY <1>3
<1>6. Handled(m, c, dev_body', Carried')
  BY <1>5 DEF Handled
<1>7. Executions' /\ Carried' = Carried
  BY <1>1, NothingExecuted DEF clientVars, Agreement
<1>8. dev_body' \in Seq(Nat \X Nat)
  <2>1. <<>> \in Seq(Nat \X Nat)
    OBVIOUS
  <2> QED BY <1>1, <2>1
<1>9. Agreement'
  BY <1>1, <1>4, <1>5, <1>6, <1>7, <1>8, AnsweredStep DEF m
<1>10. s2c' \in Seq(Reply)
  <2>1. s2c \in Seq(Reply) /\ s2c' = Append(s2c, c)
    BY <1>4 DEF ClientInv, Answered
  <2> QED BY <1>5, <2>1
<1> QED BY <1>1, <1>9, <1>10

\* Whatever the device does, client, line and device agree; it carries out
\* nothing, or a request that it has not carried out.
LEMMA DeviceStep ==
  ASSUME ClientInv, Agreement, Device
  PROVE  /\ Agreement' /\ ClientInv' /\ UNCHANGED clientVars
         /\ \/ executed' = executed
            \/ \E r \in 1 .. N : r <= req /\ r \notin Carried /\ Carried' = Carried \cup {r}
<1>1. c2s # <<>>
  BY DEF Device
<1>2. CASE DeviceRepeats(Head(c2s))
  <2>1. /\ c2s' = Tail(c2s) /\ s2c' = Append(s2c, dev_last.reply)
        /\ UNCHANGED <<session, req, dev_szx, dev_last, dev_body, executed>>
        /\ UNCHANGED clientVars
    BY <1>2 DEF DeviceRepeats, clientVars, deviceVars
  <2>2. dev_last # None
    <3>1. Head(c2s).msg_id = dev_last.msg_id /\ Head(c2s) \in RequestMessage
      BY <1>1, <1>2 DEF DeviceRepeats, Fresh, Agreement
    <3>2. dev_last.msg_id \in MsgId
      BY <3>1 DEF RequestMessage
    <3> QED BY <3>2, ClientAssumption DEF MsgId, None
  <2>3. Agreement'
    BY <1>1, <2>1, <2>2, HeadGoneStep
  <2>4. s2c \in Seq(Reply) /\ dev_last.reply \in Reply
    BY <2>2 DEF Agreement, DeviceOK, ClientInv
  <2>5. s2c' \in Seq(Reply)
    BY <2>1, <2>4
  <2> QED BY <2>1, <2>3, <2>5 DEF ClientInv, TypeOK, UploadInRange, clientVars
<1>3. CASE DeviceStores(Head(c2s)) \/ DeviceInsists(Head(c2s))
  BY <1>1, <1>3, ContinueStep DEF ClientInv, TypeOK, UploadInRange, clientVars
<1>4. CASE DeviceExecutes(Head(c2s)) \/ DeviceContinues(Head(c2s))
  BY <1>1, <1>4, AnswerStep DEF ClientInv, TypeOK, UploadInRange, clientVars
<1>5. CASE DeviceRefuses(Head(c2s)) \/ DeviceResets(Head(c2s))
  BY <1>1, <1>5, RefuseStep DEF ClientInv, TypeOK, UploadInRange, clientVars
<1> QED BY <1>2, <1>3, <1>4, <1>5 DEF Device

-----------------------------------------------------------------------------
(* Steps of the client.                                                    *)

\* The client leaves its session alone.
LEMMA StillStep ==
  ASSUME ClientInv, Agreement, UNCHANGED <<session, req, c2s, deviceVars>>,
         s2c' = s2c \/ (s2c # <<>> /\ s2c' = Tail(s2c))
  PROVE  Agreement'
<1>1. SameUpload(session, session')
  BY DEF SameUpload
<1>2. Downloaded(req, session', Carried)
  BY DEF Agreement
<1> QED BY <1>1, <1>2, QuietStep DEF deviceVars

\* request() goes on.
LEMMA ResultsStay ==
  ASSUME Results, UNCHANGED <<req, result>>, Carried \subseteq Carried',
         pc' = "idle" <=> pc = "idle", pc = "dead" => pc' = "dead"
  PROVE  Results'
  BY DEF Results

\* request() returns o.
LEMMA ResultsLeave ==
  ASSUME ClientInv, Results, Carried' = Carried, req \in 1 .. N, req' = req, NEW o,
         result' = [result EXCEPT ![req] = o], o.kind # "pending", pc' \in {"idle", "dead"},
         o.kind = "response" /\ o.code = "ok" => o.payload = Answer(req) /\ req \in Carried
  PROVE  Results'
<1>1. result'[req] = o /\ \A r \in 1 .. N : r # req => result'[r] = result[r]
  BY DEF ClientInv, TypeOK
<1> SUFFICES ASSUME NEW r \in 1 .. N
             PROVE  /\ r > req => result'[r].kind = "pending"
                    /\ r < req \/ (r = req /\ pc' = "idle") => result'[r].kind # "pending"
                    /\ r = req /\ pc' \notin {"idle", "dead"} => result'[r].kind = "pending"
                    /\ result'[r].kind = "response" /\ result'[r].code = "ok" =>
                         result'[r].payload = Answer(r) /\ r \in Carried
  BY Zenon DEF Results
<1>2. CASE r = req
  BY <1>1, <1>2
<1>3. CASE r # req
  <2>1. result'[r] = result[r]
    BY <1>1, <1>3
  <2>2. /\ r > req => result[r].kind = "pending"
        /\ r < req => result[r].kind # "pending"
        /\ result[r].kind = "response" /\ result[r].code = "ok" =>
                         result[r].payload = Answer(r) /\ r \in Carried
    BY DEF Results
  <2> QED BY <1>3, <2>1, <2>2
<1> QED BY <1>2, <1>3

\* The next request starts.
LEMMA RequestExchange ==
  ASSUME ExchangeInv, NextIdUnused, Request, UNCHANGED deviceVars
  PROVE  ExchangeInv'
<1>1. ClientInv /\ Agreement /\ Control /\ Results
  BY DEF ExchangeInv
<1>2. ClientInv' /\ Agreement'
  BY <1>1, RequestInv, RequestStep
<1>3. /\ req' = req + 1 /\ pc = "idle" /\ pc' = "send" /\ batch' = 0 /\ result' = result
      /\ session' = NewSession(msg_id', ReqLen[req + 1])
  BY DEF Request
<1>4. /\ session'.done = FALSE /\ session'.error = NoError
      /\ session'.need_resend = FALSE
  BY <1>3 DEF NewSession
<1>5. Control'
  BY <1>3, <1>4 DEF Control, InProgress
<1>6. Carried' = Carried
  BY DEF deviceVars, Carried
<1>7. Results'
  <2> SUFFICES ASSUME NEW r \in 1 .. N
               PROVE  /\ r > req + 1 => result[r].kind = "pending"
                      /\ r < req + 1 => result[r].kind # "pending"
                      /\ r = req + 1 => result[r].kind = "pending"
                      /\ result[r].kind = "response" /\ result[r].code = "ok" =>
                           result[r].payload = Answer(r) /\ r \in Carried
    BY <1>3, <1>6, Zenon DEF Results
  <2>1. r \in Int /\ req \in Int
    BY <1>1, ClientAssumption DEF ClientInv, TypeOK
  <2> QED BY <1>1, <1>3, <2>1 DEF Results
<1> QED BY <1>2, <1>5, <1>7 DEF ExchangeInv

\* The client sends its message.
LEMMA SendExchange ==
  ASSUME ExchangeInv, FirstSend \/ Resend \/ Retransmit, UNCHANGED deviceVars
  PROVE  /\ ExchangeInv' /\ UNCHANGED <<req, result, s2c>>
         /\ c2s' = Append(c2s, Current) /\ SameUpload(session, session')
<1>1. ClientInv /\ Agreement /\ Control /\ Results
  BY DEF ExchangeInv
<1>2. ClientInv'
  BY <1>1, SendInv
<1>3. Good(session) /\ pc # "idle" /\ pc # "dead" /\ req > 0
  <2>1. pc # "idle" /\ pc # "dead"
    BY DEF FirstSend, Resend, Retransmit, ResendDue, RetransmitDue, Waiting
  <2> QED BY <1>1, <2>1 DEF ClientInv, TypeOK, UploadInRange, Good
<1>4. OffsetInRange(session)
  BY <1>3, SendInRange
<1>5. UNCHANGED <<req, result, s2c, batch>>
  BY DEF FirstSend, Resend, Retransmit
<1>6. batch = 0
  BY <1>1 DEF FirstSend, Resend, Retransmit, ResendDue, RetransmitDue, Waiting, Control
<1>7. /\ c2s' = Append(c2s, Current) /\ pc' = "poll" /\ SameUpload(session, session')
      /\ session'.resp_payload = session.resp_payload
      /\ session'.resp_code = session.resp_code /\ session'.done = session.done
      /\ session'.error = session.error
      /\ InProgress(session') /\ ~session'.need_resend
  <2>1. CASE FirstSend
    BY <1>1, <1>4, <1>6, <2>1 DEF FirstSend, send_frame, Current, SameUpload, Control, InProgress
  <2>2. CASE Retransmit
    BY <1>4, <2>2 DEF Retransmit, RetransmitDue, Waiting, send_frame, Current,
                      SameUpload, InProgress
  <2>3. CASE Resend
    <3> DEFINE s == [session EXCEPT !.need_resend = FALSE]
    <3>1. session \in Session /\ session.need_resend /\ InProgress(session)
      BY <1>1, <1>3, <2>3 DEF Good, Resend, ResendDue, Control
    <3>2. /\ SameUpload(session, s) /\ s.need_resend = FALSE
          /\ s.resp_payload = session.resp_payload
          /\ s.resp_code = session.resp_code /\ s.done = session.done
          /\ s.error = session.error
      BY <3>1 DEF Session, SameUpload
    <3>3. session' = s /\ send_frame(req, s, IF s.done THEN "return" ELSE "poll")
      BY <2>3 DEF Resend
    <3> HIDE DEF s
    <3>4. ~s.done /\ InProgress(s)
      BY <3>1, <3>2 DEF InProgress
    <3>5. OffsetInRange(s)
      BY <1>4, <3>2 DEF SameUpload, OffsetInRange, EffectiveLen, Offset
    <3>6. Message(req, s) = Current
      BY <3>2, SameMessage DEF SameUpload, Current
    <3> QED BY <3>2, <3>3, <3>4, <3>5, <3>6 DEF send_frame
  <2> QED BY <2>1, <2>2, <2>3
<1>8. Agreement'
  BY <1>1, <1>3, <1>5, <1>7, SendStep DEF deviceVars
<1>9. Control'
  BY <1>5, <1>6, <1>7 DEF Control, InProgress
<1>10. Carried' = Carried
  BY DEF Carried, deviceVars
<1>11. Results'
  BY <1>1, <1>3, <1>5, <1>7, <1>10, ResultsStay
<1> QED BY <1>2, <1>5, <1>7, <1>8, <1>9, <1>11 DEF ExchangeInv

\* The client takes a reply.
LEMMA FrameExchange ==
  ASSUME ExchangeInv, NextIdUnused, MaxBatch = 1, OnFrame, UNCHANGED deviceVars
  PROVE  ExchangeInv' /\ UNCHANGED <<req, result>>
<1>1. ClientInv /\ Agreement /\ Control /\ Results
  BY DEF ExchangeInv
<1>2. /\ ClientInv' /\ Agreement'
      /\ \/ session' = session
         \/ Ended(req, session, session', Carried)
         \/ Moved(req, session, session', dev_body, Carried)
  BY <1>1, OnFrameInv, FrameStep
<1>3. /\ UNCHANGED <<req, result, pc>> /\ pc = "poll" /\ batch' = batch + 1
      /\ batch \in 0 .. MaxBatch
  BY <1>1 DEF OnFrame, ClientInv, TypeOK
<1>4. batch' # 0
  BY <1>3, ClientAssumption
<1>5. session'.need_resend => InProgress(session')
  BY <1>1, <1>2 DEF Control, Ended, Moved
<1>6. session'.error # NoError => session'.done
  BY <1>1, <1>2 DEF Control, Ended, Moved, InProgress
<1>7. Control'
  BY <1>3, <1>4, <1>5, <1>6 DEF Control, InProgress
<1>8. Carried' = Carried
  BY DEF Carried, deviceVars
<1>9. Results'
  BY <1>1, <1>3, <1>8, ResultsStay
<1> QED BY <1>2, <1>3, <1>7, <1>9 DEF ExchangeInv

\* The client waits, or finds its session at an end.
LEMMA WaitExchange ==
  ASSUME ExchangeInv, PollReturns \/ Finish \/ Sleep \/ DeadlinePasses,
         UNCHANGED deviceVars
  PROVE  ExchangeInv' /\ UNCHANGED <<req, result>>
<1>1. ClientInv /\ Agreement /\ Control /\ Results
  BY DEF ExchangeInv
<1>2. ClientInv'
  BY <1>1, WaitInv
<1>3. UNCHANGED <<req, result, session, c2s, s2c>>
  BY DEF PollReturns, Finish, Sleep, DeadlinePasses
<1>4. Agreement'
  BY <1>1, <1>3, StillStep
<1>5. Control'
  <2>1. CASE PollReturns
    BY <1>1, <2>1 DEF PollReturns, Control, InProgress
  <2>2. CASE Finish
    BY <1>1, <2>2 DEF Finish, Control, InProgress
  <2>3. CASE Sleep
    BY <1>1, <2>3 DEF Sleep, Waiting, Control, InProgress
  <2>4. CASE DeadlinePasses
    BY <1>1, <2>4 DEF DeadlinePasses, Control, InProgress
  <2> QED BY <2>1, <2>2, <2>3, <2>4
<1>6. pc # "idle" /\ pc # "dead" /\ pc' # "idle"
  BY DEF PollReturns, Finish, Sleep, DeadlinePasses, Waiting
<1>7. Carried' = Carried
  BY DEF Carried, deviceVars
<1>8. Results'
  BY <1>1, <1>3, <1>6, <1>7, ResultsStay
<1> QED BY <1>2, <1>3, <1>4, <1>5, <1>8 DEF ExchangeInv

\* request() returns: with the whole answer, or without.
LEMMA LeaveExchange ==
  ASSUME ExchangeInv, TransportFails \/ GiveUp \/ Return, UNCHANGED deviceVars
  PROVE  /\ ExchangeInv' /\ req' = req /\ req \in 1 .. N
         /\ result[req].kind = "pending"
         /\ \E o : /\ result' = [result EXCEPT ![req] = o] /\ o.kind # "pending"
                   /\ o.kind = "response" /\ o.code = "ok" => req \in Carried
<1>1. ClientInv /\ Agreement /\ Control /\ Results
  BY DEF ExchangeInv
<1>2. ClientInv'
  BY <1>1, LeaveInv
<1>3. UNCHANGED <<req, session, c2s, s2c>>
  BY DEF TransportFails, GiveUp, Return
<1>4. Agreement'
  BY <1>1, <1>3, StillStep
<1>5. pc \notin {"idle", "dead"} /\ pc' \in {"idle", "dead"}
  BY DEF TransportFails, GiveUp, Return, ResendDue, RetransmitDue, Waiting
<1>6. req \in 1 .. N
  BY <1>1, <1>5 DEF ClientInv
<1>7. result[req].kind = "pending"
  BY <1>1, <1>5, <1>6 DEF Results
<1>8. \E o : /\ result' = [result EXCEPT ![req] = o] /\ o.kind # "pending"
             /\ o.kind = "response" /\ o.code = "ok" =>
                  o.payload = Answer(req) /\ req \in Carried
  <2>1. CASE TransportFails
    <3> DEFINE o == [kind |-> "io"]
    <3>1. o.kind = "io" /\ result' = [result EXCEPT ![req] = o]
      BY <2>1 DEF TransportFails
    <3> QED BY <3>1
  <2>2. CASE GiveUp
    <3> DEFINE o == [kind |-> "timeout"]
    <3>1. o.kind = "timeout" /\ result' = [result EXCEPT ![req] = o]
      BY <2>2 DEF GiveUp
    <3> QED BY <3>1
  <2>3. CASE Return /\ session.error # NoError
    <3> DEFINE o == [kind |-> "protocol"]
    <3>1. o.kind = "protocol" /\ result' = [result EXCEPT ![req] = o]
      BY <2>3 DEF Return
    <3> QED BY <3>1
  <2>4. CASE Return /\ session.error = NoError
    <3> DEFINE o == [kind |-> "response", code |-> session.resp_code,
                     payload |-> session.resp_payload]
    <3>1. /\ o.kind = "response" /\ o.code = session.resp_code
          /\ o.payload = session.resp_payload /\ result' = [result EXCEPT ![req] = o]
      BY <2>4 DEF Return
    <3> HIDE DEF o
    <3>2. session.done
      BY <1>1, <2>4 DEF Control, Return
    <3>3. session.resp_code = "ok" => session.resp_payload = Answer(req) /\ req \in Carried
      <4>1. req > 0
        BY <1>6
      <4> QED BY <1>1, <2>4, <3>2, <4>1 DEF Agreement, Downloaded
    <3> QED BY <3>1, <3>3
  <2> QED BY <2>1, <2>2, <2>3, <2>4
<1>9. Carried' = Carried
  BY DEF Carried, deviceVars
<1>10. Results'
  BY <1>1, <1>3, <1>5, <1>6, <1>8, <1>9, ResultsLeave
<1>11. Control'
  <2>1. pc' = "idle" => msg_id' = session'.msg_id
    BY <1>3 DEF TransportFails, GiveUp, Return
  <2> QED BY <1>1, <1>3, <1>5, <2>1 DEF Control, InProgress
<1>12. ExchangeInv'
  BY <1>2, <1>4, <1>10, <1>11 DEF ExchangeInv
<1> QED BY <1>3, <1>6, <1>7, <1>8, <1>12

\* The device handles a message; the client's own state stays.
LEMMA DeviceExchange ==
  ASSUME ExchangeInv, Device
  PROVE  /\ ExchangeInv' /\ UNCHANGED <<req, result>>
         /\ \/ executed' = executed
            \/ \E r \in 1 .. N : r <= req /\ r \notin Carried /\ Carried' = Carried \cup {r}
<1>1. ClientInv /\ Agreement /\ Control /\ Results
  BY DEF ExchangeInv
<1>2. /\ Agreement' /\ ClientInv' /\ UNCHANGED clientVars
      /\ \/ executed' = executed
         \/ \E r \in 1 .. N : r <= req /\ r \notin Carried /\ Carried' = Carried \cup {r}
  BY <1>1, DeviceStep
<1>3. UNCHANGED <<req, result, session, pc, batch, msg_id>>
  BY <1>2 DEF clientVars
<1>4. Control'
  BY <1>1, <1>3 DEF Control, InProgress
<1>5. Carried \subseteq Carried'
  <2>1. executed' = executed => Carried' = Carried
    BY DEF Carried
  <2> QED BY <1>2, <2>1
<1>6. Results'
  BY <1>1, <1>3, <1>5, ResultsStay
<1> QED BY <1>2, <1>3, <1>4, <1>6 DEF ExchangeInv

\* The line loses a message.
LEMMA LosesExchange ==
  ASSUME ExchangeInv, Loses
  PROVE  ExchangeInv' /\ UNCHANGED <<req, result, executed>>
<1>1. ClientInv /\ Agreement /\ Control /\ Results
  BY DEF ExchangeInv
<1>2. /\ UNCHANGED <<req, result, session, pc, batch, msg_id>>
      /\ UNCHANGED <<dev_szx, dev_last, dev_body, executed>>
      /\ UNCHANGED clientVars
  BY DEF Loses, clientVars, deviceVars
<1>3. Agreement' /\ s2c' \in Seq(Reply)
  <2>1. CASE c2s # <<>> /\ c2s' = Tail(c2s) /\ UNCHANGED s2c
    BY <1>1, <1>2, <2>1, HeadGoneStep DEF ClientInv
  <2>2. CASE s2c # <<>> /\ s2c' = Tail(s2c) /\ UNCHANGED c2s
    <3>1. Tail(s2c) \in Seq(Reply)
      BY <1>1, <2>2 DEF ClientInv
    <3> QED BY <1>1, <1>2, <2>2, <3>1, StillStep DEF deviceVars
  <2> QED BY <2>1, <2>2 DEF Loses
<1>4. ClientInv'
  BY <1>1, <1>2, <1>3 DEF ClientInv, TypeOK, UploadInRange, clientVars
<1>5. Control'
  BY <1>1, <1>2 DEF Control, InProgress
<1>6. Carried' = Carried
  BY <1>2 DEF Carried
<1>7. Results'
  BY <1>1, <1>2, <1>6, ResultsStay
<1> QED BY <1>2, <1>3, <1>4, <1>5, <1>7 DEF ExchangeInv

\* Nothing changes.
LEMMA StutterExchange ==
  ASSUME ExchangeInv, UNCHANGED vars
  PROVE  ExchangeInv' /\ UNCHANGED <<req, result, executed>>
<1>1. ClientInv /\ Agreement /\ Control /\ Results
  BY DEF ExchangeInv
<1>2. UNCHANGED clientVars /\ UNCHANGED deviceVars /\ UNCHANGED <<c2s, s2c>>
  BY DEF vars
<1>3. UNCHANGED <<req, result, session, pc, batch, msg_id, executed>>
  BY <1>2 DEF clientVars, deviceVars
<1>4. Agreement'
  BY <1>1, <1>2, <1>3, StillStep
<1>5. ClientInv'
  BY <1>1, <1>2 DEF ClientInv, TypeOK, UploadInRange, clientVars
<1>6. Control'
  BY <1>1, <1>3 DEF Control, InProgress
<1>7. Carried' = Carried
  BY <1>3 DEF Carried
<1>8. Results'
  BY <1>1, <1>3, <1>7, ResultsStay
<1> QED BY <1>3, <1>4, <1>5, <1>6, <1>8 DEF ExchangeInv

\* At first nothing is on the line and nothing has been asked.
LEMMA ExchangeStart ==
  ASSUME ExchangeInit
  PROVE  ExchangeInv /\ req = 0 /\ executed = <<>>
<1>1. /\ req = 0 /\ executed = <<>> /\ c2s = <<>> /\ s2c = <<>> /\ dev_body = <<>>
      /\ dev_last = None /\ dev_szx \in 0 .. 7 /\ pc = "idle" /\ batch = 0
      /\ session = NewSession(msg_id, 0) /\ msg_id \in MsgId
      /\ result = [r \in 1 .. N |-> [kind |-> "pending"]]
  BY ExchangeAssumption DEF ExchangeInit, ClientInit
<1>2. ClientInv
  <2>1. AnyInit
    BY DEF ExchangeInit, AnyInit
  <2> QED BY <2>1, AnyStart
<1>3. /\ session.msg_id = msg_id /\ session.done = FALSE /\ session.error = NoError
      /\ session.need_resend = FALSE
  BY <1>1 DEF NewSession
<1>4. dev_last.msg_id = -1 /\ -1 \notin MsgId
  BY <1>1, ClientAssumption DEF None, MsgId
<1>5. SessionOK(req, session) /\ Downloaded(req, session, Carried)
  BY <1>1 DEF SessionOK, Downloaded
<1>6. /\ Current \in RequestMessage /\ WellFormed(Current)
      /\ Current.msg_id = session.msg_id /\ Current.request = 0
  BY <1>1, <1>2, <1>5, CurrentType
<1>7. /\ c2s \in Seq(RequestMessage) /\ c2s \in Seq(Issued) /\ dev_body \in Seq(Nat \X Nat)
      /\ executed \in Seq((1 .. N) \X Seq(Nat \X Nat)) /\ Len(executed) = 0
      /\ Len(s2c) = 0
  BY <1>1
<1>8. DeviceOK
  BY <1>1, <1>7 DEF DeviceOK
<1>9. Executions
  BY <1>7 DEF Executions
<1>10. OnlyLast(s2c, session.msg_id, dev_last)
  BY <1>7 DEF OnlyLast
<1>11. Pending = <<Current>> /\ Pending \in Seq(RequestMessage) /\ Len(Pending) = 1
       /\ Pending[1] = Current /\ \A i \in 1 .. 1 : i = 1
  <2>1. Pending = <<Current>>
    BY <1>1 DEF Pending
  <2> QED BY <1>6, <2>1
<1>12. Current.request <= Current.request
  BY <1>6
<1>13. Current.msg_id # dev_last.msg_id
  BY <1>1, <1>3, <1>4, <1>6
<1>14. Line(dev_last.msg_id, Pending)
  <2>1. \A i \in 1 .. Len(Pending) : i = 1 /\ Pending[i] = Current
    BY <1>11
  <2>2. \A i, j \in 1 .. Len(Pending) : ~(i < j)
    BY <1>11
  <2>3. Len(Pending) > 0 /\ Pending[Len(Pending)] = Current
    BY <1>11
  <2> DEFINE q == Pending
             n == Len(q)
             d == dev_last.msg_id
  <2> HIDE DEF q, n, d
  <2>4. /\ \A i \in 1 .. n : q[i] = Current
        /\ \A i, j \in 1 .. n : ~(i < j)
        /\ q[n] = Current /\ Current.msg_id # d
    BY <1>13, <2>1, <2>2, <2>3, Zenon DEF q, n, d
  <2>5. \A i, j, k \in 1 .. n :
           i <= j /\ j <= k /\ q[i].msg_id = q[k].msg_id => q[j].msg_id = q[i].msg_id
    BY <2>4, Zenon
  <2>6. \A j, k \in 1 .. n : j <= k /\ q[k].msg_id = d => q[j].msg_id = d
    BY <2>4, Zenon
  <2>7. \A i \in 1 .. n : q[i].msg_id = q[n].msg_id => q[i] = q[n]
    BY <2>4, Zenon
  <2>8. \A i, j \in 1 .. n :
           i < j /\ q[i].msg_id # d /\ q[i].msg_id # q[j].msg_id
             => Initial(q[j]) /\ q[i].request < q[j].request
    BY <2>4, Zenon
  <2>9. \A i \in 1 .. n : q[i].request <= q[n].request /\ WellFormed(q[i])
    BY <1>6, <1>12, <2>4, Zenon
  <2>10. q \in Seq(RequestMessage) /\ Len(q) > 0
    BY <1>11, <2>3 DEF q
  <2>11. Line(d, q)
    BY <2>5, <2>6, <2>7, <2>8, <2>9, <2>10, Zenon DEF Line, n
  <2> QED BY <2>11 DEF q, d
<1>15. AllReady(dev_last.msg_id, Pending, dev_body, Carried)
  <2>1. Current.block2.num = 0 /\ (Current.block1 # NoBlock => ~(Current.block1.num > 0))
    <3>1. Good(session) /\ req \in 0 .. N
      BY <1>2 DEF ClientInv, TypeOK, UploadInRange, Good
    <3>2. session.block2_num = 0 /\ session.block1_num = 0
      BY <1>1 DEF NewSession
    <3>3. /\ Current.block2.num = session.block2_num
          /\ Current.block1 # NoBlock => Current.block1.num = session.block1_num
      BY <1>5, <3>1, MessageShape DEF Current
    <3> QED BY <3>2, <3>3
  <2>2. 0 \notin Carried
    BY <1>7 DEF Carried
  <2>3. Ready(Current, dev_body, Carried)
    BY <1>6, <2>1, <2>2 DEF Ready
  <2> QED BY <1>11, <2>3 DEF AllReady
<1>16. dev_last.msg_id # session.msg_id
  BY <1>6, <1>13
<1>17. Agreement
  BY <1>5, <1>7, <1>8, <1>9, <1>10, <1>14, <1>15, <1>16 DEF Agreement
<1>18. Control
  BY <1>1, <1>3 DEF Control, InProgress
<1>19. Results
  <2>1. \A r \in 1 .. N : result[r].kind = "pending" /\ r > 0
    BY <1>1
  <2> QED BY <1>1, <2>1 DEF Results
<1> QED BY <1>1, <1>2, <1>17, <1>18, <1>19 DEF ExchangeInv

\* Every step keeps the invariant.
LEMMA ExchangeStep ==
  ASSUME MaxBatch = 1, ExchangeInv, NextIdUnused, [ExchangeNext]_vars
  PROVE  ExchangeInv'
<1>1. CASE ClientNext /\ UNCHANGED deviceVars
  BY <1>1, RequestExchange, SendExchange, FrameExchange, WaitExchange, LeaveExchange
  DEF ClientNext, ClientStep
<1>2. CASE Device
  BY <1>2, DeviceExchange
<1>3. CASE Loses
  BY <1>3, LosesExchange
<1>4. CASE UNCHANGED vars
  BY <1>4, StutterExchange
<1> QED BY <1>1, <1>2, <1>3, <1>4 DEF ExchangeNext

-----------------------------------------------------------------------------
(* The message ids in use.                                                 *)

\* The id that comes n after f.
Nth(f, n) == IF f + n < MSG_ID_MOD THEN f + n ELSE f + n - MSG_ID_MOD
UsedIds(f, n) == {Nth(f, i) : i \in 0 .. n}

\* The messages of q have ids in S.
IdsOf(q, S) == \A i \in 1 .. Len(q) : q[i].msg_id \in S

IdsIn(S) == IdsOf(c2s, S) /\ IdsOf(s2c, S) /\ dev_last.msg_id \in S \cup {-1}

\* A request takes at most one id for each unit of its body and of the answer,
\* and one for its first message; budget[r] ids suffice for the first r
\* requests.
EnoughIds(budget) ==
    /\ budget \in [0 .. N -> Nat]
    /\ \A r \in 1 .. N : budget[r - 1] + 1 + ReqLen[r] + RespLen[r] <= budget[r]
    /\ \A r \in 0 .. N : budget[r] + 1 < MSG_ID_MOD

\* The ids taken so far, at most.
Spent(budget) == IF req = 0 THEN 0 ELSE budget[req - 1] + 1 + Progress(session)

\* The ids in use are among the n + 1 that came last, the current one first.
IdsInv(budget) ==
    \E f \in MsgId : \E n \in Nat :
        n <= Spent(budget) /\ session.msg_id = Nth(f, n) /\ IdsIn(UsedIds(f, n))

\* Ids are counted modulo MSG_ID_MOD.
LEMMA NthNext ==
  ASSUME NEW f \in MsgId, NEW n \in Nat, n + 1 < MSG_ID_MOD
  PROVE  /\ wrapping_inc(Nth(f, n)) = Nth(f, n + 1)
         /\ Nth(f, n + 1) \notin UsedIds(f, n) /\ Nth(f, n + 1) # -1
         /\ Nth(f, n) \in UsedIds(f, n)
         /\ UsedIds(f, n) \subseteq UsedIds(f, n + 1)
<1> DEFINE M == MSG_ID_MOD
<1>1. M \in Nat \ {0} /\ f \in Nat /\ f < M
  BY ClientAssumption DEF MsgId
<1>2. wrapping_inc(Nth(f, n)) = Nth(f, n + 1)
  <2>1. \A a \in 0 .. M - 1 : (a + 1) % M = IF a + 1 < M THEN a + 1 ELSE 0
    BY <1>1
  <2>2. Nth(f, n) \in 0 .. M - 1
    BY <1>1 DEF Nth
  <2>3. wrapping_inc(Nth(f, n)) = IF Nth(f, n) + 1 < M THEN Nth(f, n) + 1 ELSE 0
    BY <2>1, <2>2 DEF wrapping_inc
  <2> QED BY <1>1, <2>3 DEF Nth
<1>3. \A i \in 0 .. n : Nth(f, i) # Nth(f, n + 1)
  BY <1>1 DEF Nth
<1>4. Nth(f, n + 1) # -1
  BY <1>1 DEF Nth
<1>5. n \in 0 .. n /\ \A i \in 0 .. n : i \in 0 .. n + 1
  OBVIOUS
<1> QED BY <1>2, <1>3, <1>4, <1>5, Zenon DEF UsedIds

\* Ids of messages that come and go.
LEMMA IdsTail ==
  ASSUME NEW T, NEW q \in Seq(T), q # <<>>, NEW S, IdsOf(q, S)
  PROVE  IdsOf(Tail(q), S) /\ Head(q).msg_id \in S
<1>1. Len(q) \in Nat \ {0} /\ Len(Tail(q)) = Len(q) - 1 /\ Head(q) = q[1]
  OBVIOUS
<1>2. \A i \in 1 .. Len(q) - 1 : Tail(q)[i] = q[i + 1] /\ i + 1 \in 1 .. Len(q)
  BY <1>1
<1>3. 1 \in 1 .. Len(q)
  BY <1>1
<1> QED BY <1>1, <1>2, <1>3, Zenon DEF IdsOf

\* A message with a known id.
LEMMA IdsAppend ==
  ASSUME NEW T, NEW q \in Seq(T), NEW m \in T, NEW S, IdsOf(q, S), m.msg_id \in S
  PROVE  IdsOf(Append(q, m), S)
<1> DEFINE p == Append(q, m)
           n == Len(q)
<1>1. n \in Nat /\ Len(p) = n + 1 /\ p[n + 1] = m /\ \A i \in 1 .. n : p[i] = q[i]
  OBVIOUS
<1>2. \A i \in 1 .. n + 1 : i = n + 1 \/ i \in 1 .. n
  BY <1>1
<1> HIDE DEF p, n
<1>3. \A i \in 1 .. n : q[i].msg_id \in S
  BY DEF IdsOf, n
<1> QED BY <1>1, <1>2, <1>3, Zenon DEF IdsOf, p

\* The device answers with the id it is asked with.
LEMMA AnsweredIds ==
  ASSUME ExchangeInv, Device
  PROVE  /\ c2s # <<>> /\ c2s' = Tail(c2s) /\ UNCHANGED <<req, session>>
         /\ \/ /\ dev_last # None /\ UNCHANGED dev_last
               /\ s2c' = Append(s2c, dev_last.reply)
            \/ /\ dev_last'.msg_id = Head(c2s).msg_id
               /\ \E reply : /\ s2c' = Append(s2c, reply)
                             /\ reply.msg_id = Head(c2s).msg_id
<1> DEFINE m == Head(c2s)
<1>1. c2s # <<>>
  BY DEF Device
<1>2. CASE DeviceRepeats(m)
  <2>1. dev_last # None
    <3>1. m.msg_id = dev_last.msg_id /\ m \in RequestMessage
      BY <1>1, <1>2 DEF DeviceRepeats, Fresh, ExchangeInv, Agreement
    <3>2. dev_last.msg_id \in MsgId
      BY <3>1 DEF RequestMessage
    <3> QED BY <3>2, ClientAssumption DEF MsgId, None
  <2> QED BY <1>1, <1>2, <2>1 DEF DeviceRepeats, clientVars, deviceVars
<1>3. ASSUME NEW reply, Answered(m, reply), reply.msg_id = m.msg_id
      PROVE  /\ c2s' = Tail(c2s) /\ UNCHANGED <<req, session>>
             /\ dev_last'.msg_id = m.msg_id
             /\ s2c' = Append(s2c, reply) /\ reply.msg_id = m.msg_id
  BY <1>3 DEF Answered, clientVars
<1>5. CASE ~DeviceRepeats(m)
  <2>1. \E reply : Answered(m, reply) /\ reply.msg_id = m.msg_id
    <3>1. CASE DeviceStores(m) \/ DeviceInsists(m)
      <4>1. PICK b : Answered(m, ReplyTo(m, RESPONSE_CONTINUE, b, NoBlock, <<>>))
        BY <3>1 DEF DeviceStores, DeviceInsists
      <4>2. ReplyTo(m, RESPONSE_CONTINUE, b, NoBlock, <<>>).msg_id = m.msg_id
        BY DEF ReplyTo
      <4> QED BY <4>1, <4>2, Zenon
    <3>2. CASE DeviceExecutes(m) \/ DeviceContinues(m)
      <4>1. AnswerBlock(m).msg_id = m.msg_id
        BY DEF AnswerBlock, ReplyTo
      <4> QED BY <3>2, <4>1 DEF DeviceExecutes, DeviceContinues
    <3>3. CASE DeviceRefuses(m) \/ DeviceResets(m)
      <4> DEFINE error == ReplyTo(m, "error", NoBlock, NoBlock, <<>>)
                 rst == [error EXCEPT !.msg_type = "Rst"]
      <4>1. Answered(m, error) \/ Answered(m, rst)
        BY <3>3 DEF DeviceRefuses, DeviceResets
      <4>2. error.msg_id = m.msg_id /\ rst.msg_id = m.msg_id
        BY DEF ReplyTo
      <4> HIDE DEF error, rst
      <4> QED BY <4>1, <4>2, Zenon
    <3> QED BY <1>5, <3>1, <3>2, <3>3 DEF Device
  <2> QED BY <1>1, <1>3, <2>1
<1> QED BY <1>2, <1>5

\* The ids in use after a step were in use before, or are the current one.
LEMMA IdsInStep ==
  ASSUME MaxBatch = 1, ExchangeInv, [ExchangeNext]_vars,
         NEW S, IdsIn(S), session.msg_id \in S
  PROVE  IdsIn(S)'
<1>1. /\ c2s \in Seq(RequestMessage) /\ s2c \in Seq(Reply)
      /\ IdsOf(c2s, S) /\ IdsOf(s2c, S) /\ dev_last.msg_id \in S \cup {-1}
  BY DEF ExchangeInv, ClientInv, Agreement, IdsIn
<1>2. SUFFICES IdsOf(c2s', S) /\ IdsOf(s2c', S) /\ dev_last'.msg_id \in S \cup {-1}
  BY DEF IdsIn, IdsOf
<1>3. CASE (FirstSend \/ Resend \/ Retransmit) /\ UNCHANGED deviceVars
  <2>1. c2s' = Append(c2s, Current) /\ UNCHANGED <<s2c, dev_last>>
    BY <1>3, SendExchange DEF deviceVars
  <2>2. Current \in RequestMessage /\ Current.msg_id = session.msg_id
    BY CurrentType DEF ExchangeInv, Agreement
  <2>3. IdsOf(Append(c2s, Current), S)
    BY <1>1, <2>2, IdsAppend
  <2> QED BY <1>1, <2>1, <2>3
<1>4. CASE Device
  <2>1. IdsOf(Tail(c2s), S) /\ Head(c2s).msg_id \in S /\ c2s' = Tail(c2s)
    BY <1>1, <1>4, AnsweredIds, IdsTail
  <2>2. CASE dev_last # None /\ UNCHANGED dev_last /\ s2c' = Append(s2c, dev_last.reply)
    <3>1. /\ dev_last.reply \in Reply /\ dev_last.reply.msg_id = dev_last.msg_id
          /\ dev_last.msg_id \in MsgId
      BY <2>2 DEF ExchangeInv, Agreement, DeviceOK
    <3>2. dev_last.msg_id \in S
      BY <1>1, <3>1 DEF MsgId
    <3>3. IdsOf(Append(s2c, dev_last.reply), S)
      BY <1>1, <3>1, <3>2, IdsAppend
    <3> QED BY <1>1, <2>1, <2>2, <3>3
  <2>3. ASSUME NEW reply, s2c' = Append(s2c, reply), reply.msg_id = Head(c2s).msg_id,
               dev_last'.msg_id = Head(c2s).msg_id
        PROVE  IdsOf(s2c', S) /\ dev_last'.msg_id \in S \cup {-1}
    <3>1. s2c' \in Seq(Reply)
      BY <1>4, DeviceExchange DEF ExchangeInv, ClientInv
    <3>2. IdsOf(Append(s2c, reply), S)
      <4>1. reply \in Reply
        <5>1. Len(s2c) + 1 \in 1 .. Len(s2c') /\ s2c'[Len(s2c) + 1] = reply
          BY <1>1, <2>3
        <5> QED BY <3>1, <5>1
      <4> QED BY <1>1, <2>1, <2>3, <4>1, IdsAppend
    <3> QED BY <2>1, <2>3, <3>2
  <2> QED BY <1>4, <2>1, <2>2, <2>3, AnsweredIds
<1>5. CASE /\ c2s' = c2s \/ (c2s # <<>> /\ c2s' = Tail(c2s))
           /\ s2c' = s2c \/ (s2c # <<>> /\ s2c' = Tail(s2c))
           /\ UNCHANGED dev_last
  BY <1>1, <1>5, IdsTail
<1>6. CASE Loses \/ UNCHANGED vars
  BY <1>5, <1>6 DEF Loses, vars, deviceVars
<1>7. CASE /\ \/ Request \/ OnFrame \/ PollReturns \/ Finish \/ Sleep \/ DeadlinePasses
              \/ TransportFails \/ GiveUp \/ Return
           /\ UNCHANGED deviceVars
  BY <1>5, <1>7 DEF Request, OnFrame, PollReturns, Finish, Sleep, DeadlinePasses,
                    TransportFails, GiveUp, Return, deviceVars
<1> QED BY <1>3, <1>4, <1>6, <1>7 DEF ExchangeNext, ClientNext, ClientStep

\* Progress is counted in naturals.
LEMMA ProgressType == ASSUME NEW s \in Session PROVE Progress(s) \in Nat
<1>1. s.block1_num \in Nat /\ s.block2_num \in Nat /\ s.block2_szx \in 0 .. 7
  BY DEF Session
<1>2. Size(s.block2_szx) \in Nat
  BY <1>1, SizeType
<1> QED BY <1>1, <1>2 DEF Progress

\* The budget has room for one more id.
LEMMA SpentFits ==
  ASSUME ExchangeInv, NEW budget, EnoughIds(budget)
  PROVE  /\ Spent(budget) \in Nat /\ Spent(budget) <= budget[req]
         /\ req \in 0 .. N /\ budget[req] \in Nat /\ budget[req] + 1 < MSG_ID_MOD
         /\ Progress(session) \in Nat
<1>1. /\ req \in 0 .. N /\ Good(session) /\ SessionOK(req, session) /\ N \in Nat
  BY ClientAssumption DEF ExchangeInv, ClientInv, TypeOK, UploadInRange, Good, Agreement
<1>2. /\ session.block1_num \in Nat /\ session.block2_num \in Nat
      /\ session.block1_szx \in 0 .. 7 /\ session.block2_szx \in 0 .. 7
      /\ session.req_payload_size \in Nat
  BY <1>1 DEF Good, Session
<1> DEFINE z == Size(session.block1_szx)
           k == session.block1_num
           o == session.block2_num * Size(session.block2_szx)
<1>3. z \in Nat \ {0} /\ o \in Nat
  <2>1. session.block1_szx <= session.block1_szx /\ session.block2_szx <= session.block2_szx
    BY <1>2
  <2>2. Size(session.block1_szx) \in Nat \ {0} /\ Size(session.block2_szx) \in Nat
    BY <1>2, <2>1, SizeDivides
  <2> QED BY <1>2, <2>2
<1>4. k <= session.req_payload_size
  <2>1. CASE k = 0
    BY <1>2, <2>1
  <2>2. CASE k > 0
    <3>1. k * z < session.req_payload_size
      BY <1>1, <2>2 DEF Good, StartsInside, Offset
    <3> HIDE DEF k, z
    <3>2. k <= k * z
      <4>1. \A a \in Nat : \A b \in Nat \ {0} : a <= a * b
        OBVIOUS
      <4> QED BY <1>2, <1>3, <4>1 DEF k
    <3>3. k \in Nat /\ k * z \in Nat
      BY <1>2, <1>3 DEF k
    <3> QED BY <1>2, <3>1, <3>2, <3>3
  <2> QED BY <1>2, <2>1, <2>2
<1>5. Progress(session) = k + o
  BY DEF Progress
<1>6. budget[req] \in Nat /\ budget[req] + 1 < MSG_ID_MOD
  BY <1>1 DEF EnoughIds
<1> HIDE DEF z, o
<1>7. CASE req = 0
  BY <1>1, <1>2, <1>3, <1>5, <1>6, <1>7 DEF Spent
<1>8. CASE req > 0
  <2>1. req \in 1 .. N /\ req - 1 \in 0 .. N
    BY <1>1, <1>8
  <2>2. budget[req - 1] \in Nat /\ budget[req - 1] + 1 + ReqLen[req] + RespLen[req] <= budget[req]
    BY <2>1 DEF EnoughIds
  <2>3. session.req_payload_size = ReqLen[req] /\ o <= RespLen[req]
    BY <1>1, <1>8 DEF SessionOK, o
  <2>4. ReqLen[req] \in Nat /\ RespLen[req] \in Nat
    BY <2>1, Bodies
  <2>5. Spent(budget) = budget[req - 1] + 1 + (k + o)
    BY <1>5, <1>8 DEF Spent
  <2>6. k \in Nat
    BY <1>2
  <2> HIDE DEF k
  <2>7. Spent(budget) <= budget[req] /\ Spent(budget) \in Nat /\ Progress(session) \in Nat
    BY <1>3, <1>4, <1>5, <1>6, <2>2, <2>3, <2>4, <2>5, <2>6
  <2> QED BY <1>1, <1>6, <2>7
<1> QED BY <1>1, <1>7, <1>8

\* No id comes back while it is in use.
LEMMA IdsAreUnused ==
  ASSUME ExchangeInv, NEW budget, EnoughIds(budget), IdsInv(budget)
  PROVE  NextIdUnused
<1>1. PICK f \in MsgId, n \in Nat :
         n <= Spent(budget) /\ session.msg_id = Nth(f, n) /\ IdsIn(UsedIds(f, n))
  BY DEF IdsInv
<1>2. n + 1 < MSG_ID_MOD
  <2>1. /\ Spent(budget) \in Nat /\ Spent(budget) <= budget[req]
        /\ budget[req] \in Nat /\ budget[req] + 1 < MSG_ID_MOD /\ MSG_ID_MOD \in Nat
    BY SpentFits, ClientAssumption
  <2> QED BY <1>1, <2>1
<1>3. /\ wrapping_inc(session.msg_id) = Nth(f, n + 1)
      /\ Nth(f, n + 1) \notin UsedIds(f, n) /\ Nth(f, n + 1) # -1
  BY <1>1, <1>2, NthNext
<1> QED BY <1>1, <1>3, Zenon DEF NextIdUnused, IdsIn, IdsOf

\* The id stays.
LEMMA IdKept ==
  ASSUME ExchangeInv, NEW budget, IdsInv(budget), EnoughIds(budget),
         MaxBatch = 1, [ExchangeNext]_vars,
         req' = req, SameUpload(session, session')
  PROVE  IdsInv(budget)'
<1>1. PICK f \in MsgId, n \in Nat :
         n <= Spent(budget) /\ session.msg_id = Nth(f, n) /\ IdsIn(UsedIds(f, n))
  BY DEF IdsInv
<1>2. n \in 0 .. n
  OBVIOUS
<1>3. session.msg_id \in UsedIds(f, n)
  BY <1>1, <1>2, Zenon DEF UsedIds
<1>4. IdsIn(UsedIds(f, n))'
  BY <1>1, <1>3, IdsInStep
<1>5. Spent(budget)' = Spent(budget) /\ session'.msg_id = session.msg_id
  BY DEF Spent, Progress, SameUpload
<1> QED BY <1>1, <1>4, <1>5 DEF IdsInv

\* The next id is taken, by a request or by a session that makes progress.
LEMMA IdTaken ==
  ASSUME ExchangeInv, ExchangeInv', NEW budget, IdsInv(budget), EnoughIds(budget),
         MaxBatch = 1, [ExchangeNext]_vars,
         session'.msg_id = wrapping_inc(session.msg_id),
         Spent(budget) < Spent(budget)'
  PROVE  IdsInv(budget)'
<1>1. PICK f \in MsgId, n \in Nat :
         n <= Spent(budget) /\ session.msg_id = Nth(f, n) /\ IdsIn(UsedIds(f, n))
  BY DEF IdsInv
<1>2. /\ Spent(budget) \in Nat /\ Spent(budget) <= budget[req]
      /\ budget[req] \in Nat /\ budget[req] + 1 < MSG_ID_MOD /\ MSG_ID_MOD \in Nat
  BY SpentFits, ClientAssumption
<1>3. n + 1 < MSG_ID_MOD
  BY <1>1, <1>2
<1>4. /\ wrapping_inc(session.msg_id) = Nth(f, n + 1) /\ session.msg_id \in UsedIds(f, n)
      /\ UsedIds(f, n) \subseteq UsedIds(f, n + 1)
  BY <1>1, <1>3, NthNext
<1>5. IdsIn(UsedIds(f, n))'
  BY <1>1, <1>4, IdsInStep
<1>6. IdsIn(UsedIds(f, n + 1))'
  BY <1>4, <1>5, Zenon DEF IdsIn, IdsOf, UsedIds
<1>7. n + 1 <= Spent(budget)'
  <2>1. Spent(budget)' \in Int
    <3>1. session' \in Session /\ req' \in 0 .. N
      BY DEF ExchangeInv, ClientInv, TypeOK
    <3>2. Progress(session') \in Nat
      BY <3>1, ProgressType
    <3>3. \A r \in 0 .. N : budget[r] \in Nat
      BY DEF EnoughIds
    <3>4. \A k \in 0 .. N : k # 0 => k - 1 \in 0 .. N
      BY ClientAssumption
    <3>5. req' # 0 => budget[req' - 1] \in Nat
      BY <3>1, <3>3, <3>4, Zenon
    <3> QED BY <3>2, <3>5 DEF Spent
  <2> QED BY <1>1, <1>2, <2>1
<1> QED BY <1>4, <1>6, <1>7 DEF IdsInv

\* Every step keeps the ids apart.
LEMMA IdsStep ==
  ASSUME MaxBatch = 1, ExchangeInv, NEW budget, EnoughIds(budget), IdsInv(budget),
         [ExchangeNext]_vars
  PROVE  ExchangeInv' /\ IdsInv(budget)'
<1>1. NextIdUnused
  BY IdsAreUnused
<1>2. ExchangeInv'
  BY <1>1, ExchangeStep
<1>3. CASE Request /\ UNCHANGED deviceVars
  <2>1. /\ req' = req + 1 /\ session'.msg_id = wrapping_inc(session.msg_id)
        /\ session'.block1_num = 0 /\ session'.block2_num = 0
        /\ session'.block2_szx = SZX
    BY <1>3 DEF Request, NewSession, ExchangeInv, Control
  <2>2. Progress(session') = 0
    <3>1. SZX \in 0 .. 7
      BY ClientAssumption
    <3>2. Size(SZX) \in Nat
      BY <3>1, SizeType
    <3> QED BY <2>1, <3>2 DEF Progress
  <2>3. /\ Spent(budget) \in Nat /\ Spent(budget) <= budget[req]
        /\ req \in 0 .. N /\ budget[req] \in Nat
    BY SpentFits
  <2>4. Spent(budget)' = budget[req] + 1
    <3>1. req' # 0 /\ req' - 1 = req
      BY <2>1, <2>3
    <3> QED BY <2>2, <2>3, <3>1 DEF Spent
  <2>5. Spent(budget) < Spent(budget)'
    BY <2>3, <2>4
  <2> QED BY <1>2, <2>1, <2>5, IdTaken
<1>4. CASE OnFrame /\ UNCHANGED deviceVars
  <2>1. /\ req' = req /\ req \in 1 .. N
        /\ \/ SameUpload(session, session')
           \/ Moved(req, session, session', dev_body, Carried)
    <3>1. \/ session' = session
          \/ Ended(req, session, session', Carried)
          \/ Moved(req, session, session', dev_body, Carried)
      BY <1>1, <1>4, FrameStep DEF ExchangeInv
    <3>2. req' = req /\ req \in 1 .. N
      BY <1>4 DEF OnFrame, ExchangeInv, ClientInv
    <3> QED BY <3>1, <3>2 DEF Ended, SameUpload
  <2>2. CASE SameUpload(session, session')
    BY <1>2, <2>1, <2>2, IdKept
  <2>3. CASE Moved(req, session, session', dev_body, Carried)
    <3>1. /\ session'.msg_id = wrapping_inc(session.msg_id)
          /\ Progress(session) < Progress(session')
      BY <2>3 DEF Moved
    <3>2. budget[req - 1] \in Nat /\ req # 0
      BY <2>1, ClientAssumption DEF EnoughIds
    <3>3. Progress(session) \in Nat /\ Progress(session') \in Nat
      BY <1>2, ProgressType DEF ExchangeInv, ClientInv, TypeOK
    <3>4. /\ Spent(budget) = budget[req - 1] + 1 + Progress(session)
          /\ Spent(budget)' = budget[req - 1] + 1 + Progress(session')
      BY <2>1, <3>2 DEF Spent
    <3>5. Spent(budget) < Spent(budget)'
      BY <3>1, <3>2, <3>3, <3>4
    <3> QED BY <1>2, <3>1, <3>5, IdTaken
  <2> QED BY <2>1, <2>2, <2>3
<1>5. CASE (FirstSend \/ Resend \/ Retransmit) /\ UNCHANGED deviceVars
  BY <1>5, SendExchange, IdKept, <1>2
<1>6. CASE UNCHANGED <<req, session>>
  <2>1. SameUpload(session, session')
    BY <1>6 DEF SameUpload
  <2> QED BY <1>2, <1>6, <2>1, IdKept
<1>7. CASE Device
  BY <1>6, <1>7, AnsweredIds
<1>8. CASE \/ PollReturns \/ Finish \/ Sleep \/ DeadlinePasses
           \/ TransportFails \/ GiveUp \/ Return \/ Loses \/ UNCHANGED vars
  BY <1>6, <1>8 DEF PollReturns, Finish, Sleep, DeadlinePasses, TransportFails,
                    GiveUp, Return, Loses, vars, clientVars
<1> QED
  BY <1>2, <1>3, <1>4, <1>5, <1>7, <1>8 DEF ExchangeNext, ClientNext, ClientStep

\* The invariant holds if message ids do not run out.
LEMMA ExchangeInvHolds ==
  ASSUME MaxBatch = 1, NEW budget, EnoughIds(budget)
  PROVE  ExchangeSpec => [](ExchangeInv /\ IdsInv(budget))
<1>1. ExchangeInit => ExchangeInv /\ IdsInv(budget)
  <2> SUFFICES ASSUME ExchangeInit PROVE ExchangeInv /\ IdsInv(budget)
    OBVIOUS
  <2>1. ExchangeInv /\ req = 0
    BY ExchangeStart
  <2>2. /\ c2s = <<>> /\ s2c = <<>> /\ dev_last = None
        /\ session.msg_id = msg_id /\ msg_id \in MsgId
    BY DEF ExchangeInit, ClientInit, NewSession
  <2>3. msg_id \in Nat /\ msg_id < MSG_ID_MOD
    BY <2>2, ClientAssumption DEF MsgId
  <2>4. Nth(msg_id, 0) = msg_id
    BY <2>3 DEF Nth
  <2>5. IdsIn(UsedIds(msg_id, 0))
    BY <2>2 DEF IdsIn, IdsOf, None
  <2>6. 0 <= Spent(budget) /\ 0 \in Nat
    BY <2>1 DEF Spent
  <2> QED BY <2>1, <2>2, <2>4, <2>5, <2>6 DEF IdsInv
<1>2. ExchangeInv /\ IdsInv(budget) /\ [ExchangeNext]_vars
        => (ExchangeInv /\ IdsInv(budget))'
  BY IdsStep
<1> QED BY <1>1, <1>2, PTL DEF ExchangeSpec

-----------------------------------------------------------------------------
(* The theorems.                                                           *)

\* A message that the device has not handled never leaves a gap.
LEMMA NoGap == ASSUME ExchangeInv PROVE UploadContiguous
<1> SUFFICES ASSUME c2s # <<>>, Fresh(Head(c2s)), Gap(Head(c2s)) PROVE FALSE
  BY DEF UploadContiguous
<1> DEFINE m == Head(c2s)
<1>1. /\ m \in RequestMessage /\ WellFormed(m) /\ m.request \in 1 .. N
      /\ Ready(m, dev_body, Carried)
  BY FreshHead DEF ExchangeInv
<1>2. m.block1 # NoBlock
  BY DEF Gap
<1>3. dev_body \in Seq(Nat \X Nat)
  BY DEF ExchangeInv, Agreement, DeviceOK
<1> HIDE DEF m
<1>4. m.block2.num = 0
  <2>1. m.block2.num \in Nat
    BY <1>1 DEF RequestMessage, Block
  <2> QED BY <1>1, <1>2, <2>1 DEF WellFormed
<1>5. ~Gap(m)
  BY <1>1, <1>2, <1>3, <1>4, StoredBody
<1> QED BY <1>5 DEF m

\* The device finds every chunk next to what it has stored: for any number of
\* requests, bodies, answers, block sizes, retransmissions and losses.
THEOREM UploadHasNoGaps ==
  ASSUME MaxBatch = 1, NEW budget, EnoughIds(budget)
  PROVE  ExchangeSpec => []UploadContiguous
<1>1. ExchangeInv => UploadContiguous
  BY NoGap
<1> QED BY <1>1, ExchangeInvHolds, PTL

\* An answer that request() returns is the device's, whole and in order.
THEOREM AnswersAreWhole ==
  ASSUME MaxBatch = 1, NEW budget, EnoughIds(budget)
  PROVE  ExchangeSpec => []AnswerIntact
<1>1. ExchangeInv => AnswerIntact
  BY DEF ExchangeInv, Results, AnswerIntact
<1> QED BY <1>1, ExchangeInvHolds, PTL

-----------------------------------------------------------------------------
(* The client, over the line, implements CoapService.                      *)

\* The phase of request r, when k requests have started and r has outcome o.
PhaseOf(r, k, o) ==
    CASE r > k -> "new"
      [] r <= k /\ o.kind = "pending" -> "open"
      [] r <= k /\ o.kind = "response" ->
           IF o.code # "ok" THEN "failed"
           ELSE IF o.payload = Answer(r) THEN "answered" ELSE "corrupt"
      [] OTHER -> "failed"

\* The phases in the state.
Phases == [r \in 1 .. N |-> PhaseOf(r, req, result[r])]

\* An outcome that is not corrupt.
Sound(r, o) == o.kind = "response" /\ o.code = "ok" => o.payload = Answer(r)

\* The phase of a request, by cases on its outcome.
LEMMA PhaseCases ==
  ASSUME NEW r \in 1 .. N, NEW k \in 0 .. N, NEW o
  PROVE  /\ r > k => PhaseOf(r, k, o) = "new"
         /\ r <= k /\ o.kind = "pending" => PhaseOf(r, k, o) = "open"
         /\ r <= k /\ Sound(r, o) /\ o.kind = "response" /\ o.code = "ok" =>
              PhaseOf(r, k, o) = "answered"
         /\ r <= k /\ o.kind # "pending" /\ ~(o.kind = "response" /\ o.code = "ok") =>
              PhaseOf(r, k, o) = "failed"
<1>1. r \in Int /\ k \in Int
  BY ClientAssumption
<1>2. CASE r > k
  BY <1>1, <1>2 DEF PhaseOf
<1>3. CASE ~(r > k) /\ o.kind = "pending"
  BY <1>1, <1>3 DEF PhaseOf
<1>4. CASE ~(r > k) /\ o.kind = "response"
  BY <1>1, <1>4 DEF PhaseOf, Sound
<1>5. CASE ~(r > k) /\ o.kind \notin {"pending", "response"}
  BY <1>1, <1>5 DEF PhaseOf
<1> QED BY <1>2, <1>3, <1>4, <1>5

\* The state of CoapService, under the invariant.
Abstract ==
    /\ [r \in 1 .. N |-> Phase(r)] = Phases
    /\ Executions => ExecutedOnce = Carried

\* It is the one that the refinement mapping names.
LEMMA Abstraction == Abstract
<1>1. [r \in 1 .. N |-> Phase(r)] = Phases
  BY DEF Phase, Phases, PhaseOf
<1>2. ASSUME Executions PROVE ExecutedOnce = Carried
  <2>1. /\ executed \in Seq((1 .. N) \X Seq(Nat \X Nat))
        /\ \A i \in 1 .. Len(executed) : executed[i][2] = RequestBody(executed[i][1])
        /\ \A i, j \in 1 .. Len(executed) : executed[i][1] = executed[j][1] => i = j
    BY <1>2 DEF Executions
  <2>2. DOMAIN executed = 1 .. Len(executed) /\ Len(executed) \in Nat
    BY <2>1
  <2>3. \A i \in 1 .. Len(executed) : executed[i][1] \in 1 .. N
    BY <2>1
  <2>4. {e \in 1 .. N : \E i \in DOMAIN executed : executed[i][1] = e} = Carried
    BY <2>2, <2>3, Zenon DEF Carried
  <2>5. ASSUME NEW i \in DOMAIN executed,
               \/ executed[i][2] # RequestBody(executed[i][1])
               \/ \E j \in 1 .. i - 1 : executed[j][1] = executed[i][1]
        PROVE  FALSE
    <3>1. i \in 1 .. Len(executed)
      BY <2>2
    <3>2. PICK j \in 1 .. i - 1 : executed[j][1] = executed[i][1]
      BY <2>1, <2>5, <3>1
    <3>3. j \in 1 .. Len(executed) /\ j # i
      BY <2>2, <3>1
    <3> QED BY <2>1, <3>1, <3>2, <3>3
  <2>6. {0 : i \in {i \in DOMAIN executed :
                        \/ executed[i][2] # RequestBody(executed[i][1])
                        \/ \E j \in 1 .. i - 1 : executed[j][1] = executed[i][1]}} = {}
    BY <2>5, Zenon
  <2> QED BY <2>4, <2>6 DEF ExecutedOnce
<1> QED BY <1>1, <1>2 DEF Abstract

\* The same one step later.
LEMMA AbstractionNext == Abstract'
<1>1. Abstract
  BY Abstraction
<1> QED BY <1>1, PTL

\* What the invariant says about the phase of a request.
LEMMA PhaseNow ==
  ASSUME ExchangeInv, NEW r \in 1 .. N
  PROVE  /\ req \in 0 .. N /\ Sound(r, result[r])
         /\ Phases[r] = PhaseOf(r, req, result[r])
         /\ r > req => result[r].kind = "pending"
         /\ r < req \/ (r = req /\ pc = "idle") => Phases[r] \in {"answered", "failed"}
         /\ r <= req /\ r \notin Carried => Phases[r] \in {"open", "failed"}
<1>1. req \in 0 .. N
  BY DEF ExchangeInv, ClientInv, TypeOK
<1>2. /\ r > req => result[r].kind = "pending"
      /\ r < req \/ (r = req /\ pc = "idle") => result[r].kind # "pending"
      /\ result[r].kind = "response" /\ result[r].code = "ok" =>
            result[r].payload = Answer(r) /\ r \in Carried
  BY DEF ExchangeInv, Results
<1>3. Sound(r, result[r])
  BY <1>2 DEF Sound
<1>4. Phases[r] = PhaseOf(r, req, result[r])
  BY DEF Phases
<1>5. r < req \/ r = req => r <= req
  BY <1>1
<1> DEFINE o == result[r]
<1> HIDE DEF o
<1>6. /\ r <= req /\ o.kind = "pending" => PhaseOf(r, req, o) = "open"
      /\ r <= req /\ Sound(r, o) /\ o.kind = "response" /\ o.code = "ok" =>
              PhaseOf(r, req, o) = "answered"
      /\ r <= req /\ o.kind # "pending" /\ ~(o.kind = "response" /\ o.code = "ok") =>
              PhaseOf(r, req, o) = "failed"
  BY <1>1, PhaseCases
<1> QED BY <1>1, <1>2, <1>3, <1>4, <1>5, <1>6 DEF o

\* A step of the phases and of what has been carried out is one of CoapService.
LEMMA ServiceStep ==
  ASSUME Executions, Executions', NEW r \in 1 .. N,
         \/ /\ Phases[r] = "new"
            /\ \A q \in 1 .. r - 1 : Phases[q] \in {"answered", "failed"}
            /\ Phases' = [Phases EXCEPT ![r] = "open"]
            /\ Carried' = Carried
         \/ /\ Phases[r] \in {"open", "failed"} /\ r \notin Carried
            /\ Carried' = Carried \cup {r} /\ Phases' = Phases
         \/ /\ Phases[r] = "open" /\ r \in Carried
            /\ Phases' = [Phases EXCEPT ![r] = "answered"]
            /\ Carried' = Carried
         \/ /\ Phases[r] = "open"
            /\ Phases' = [Phases EXCEPT ![r] = "failed"]
            /\ Carried' = Carried
  PROVE  Service!Next
<1>1. /\ [q \in 1 .. N |-> Phase(q)] = Phases /\ [q \in 1 .. N |-> Phase(q)]' = Phases'
      /\ ExecutedOnce = Carried /\ ExecutedOnce' = Carried'
  BY Abstraction, AbstractionNext DEF Abstract
<1> QED BY <1>1 DEF Service!Next, Service!Issue, Service!Execute, Service!Answer,
                    Service!Fail

\* A step that changes neither is none of CoapService.
LEMMA ServiceStutter ==
  ASSUME Executions, Executions', UNCHANGED <<req, result, executed>>
  PROVE  UNCHANGED <<[r \in 1 .. N |-> Phase(r)], ExecutedOnce>>
<1>1. Phases' = Phases /\ Carried' = Carried
  BY DEF Phases, Carried
<1> QED BY <1>1, Abstraction, AbstractionNext DEF Abstract

\* Starting a request is Issue.
LEMMA RequestRefines ==
  ASSUME ExchangeInv, ExchangeInv', Request, UNCHANGED deviceVars
  PROVE  Service!Next
<1> DEFINE k == req + 1
<1>1. /\ req \in 0 .. N /\ k \in 1 .. N /\ k \in 0 .. N /\ req' = k /\ result' = result
      /\ pc = "idle"
  BY ClientAssumption DEF ExchangeInv, ClientInv, TypeOK, Request
<1>2. Carried' = Carried /\ Executions /\ Executions'
  BY DEF ExchangeInv, Agreement, deviceVars, Carried
<1>3. k > req /\ k <= k /\ \A q \in 1 .. k - 1 : q \in 1 .. N /\ (q < req \/ q = req)
  <2>1. N \in Nat /\ req \in 0 .. N /\ req + 1 <= N
    BY <1>1, ClientAssumption
  <2> QED BY <2>1
<1>4. \A q \in 1 .. N : q # k => (q > req <=> q > k) /\ (q <= req <=> q <= k)
  BY <1>1
<1>5. Phases = [q \in 1 .. N |-> PhaseOf(q, req, result[q])]
  BY DEF Phases
<1>6. Phases' = [q \in 1 .. N |-> PhaseOf(q, k, result[q])]
  BY <1>1 DEF Phases
<1> HIDE DEF k
<1>7. Phases[k] = "new" /\ result[k].kind = "pending"
  BY <1>1, <1>3, PhaseNow, PhaseCases
<1>8. \A q \in 1 .. k - 1 : Phases[q] \in {"answered", "failed"}
  BY <1>1, <1>3, PhaseNow
<1>9. PhaseOf(k, k, result[k]) = "open"
  BY <1>1, <1>3, <1>7, PhaseCases
<1>10. \A q \in 1 .. N : q # k => PhaseOf(q, k, result[q]) = PhaseOf(q, req, result[q])
  BY <1>4 DEF PhaseOf
<1>11. Phases' = [Phases EXCEPT ![k] = "open"]
  BY <1>1, <1>5, <1>6, <1>9, <1>10
<1> QED BY <1>1, <1>2, <1>7, <1>8, <1>11, ServiceStep

\* Carrying a request out is Execute.
LEMMA DeviceRefines ==
  ASSUME ExchangeInv, ExchangeInv', Device
  PROVE  Service!Next \/ UNCHANGED <<[r \in 1 .. N |-> Phase(r)], ExecutedOnce>>
<1>1. /\ UNCHANGED <<req, result>>
      /\ \/ executed' = executed
         \/ \E r \in 1 .. N : r <= req /\ r \notin Carried /\ Carried' = Carried \cup {r}
  BY DeviceExchange
<1>2. Executions /\ Executions' /\ Phases' = Phases
  BY <1>1 DEF ExchangeInv, Agreement, Phases
<1>3. CASE executed' = executed
  BY <1>1, <1>2, <1>3, ServiceStutter
<1>4. ASSUME NEW r \in 1 .. N, r <= req, r \notin Carried, Carried' = Carried \cup {r}
      PROVE  Service!Next
  <2>1. Phases[r] \in {"open", "failed"}
    BY <1>4, PhaseNow
  <2> QED BY <1>2, <1>4, <2>1, ServiceStep
<1> QED BY <1>1, <1>3, <1>4

\* Returning is Answer or Fail.
LEMMA LeaveRefines ==
  ASSUME ExchangeInv, ExchangeInv', TransportFails \/ GiveUp \/ Return,
         UNCHANGED deviceVars
  PROVE  Service!Next
<1>1. /\ req' = req /\ req \in 1 .. N /\ result[req].kind = "pending"
      /\ \E o : /\ result' = [result EXCEPT ![req] = o] /\ o.kind # "pending"
                /\ o.kind = "response" /\ o.code = "ok" => req \in Carried
  BY LeaveExchange
<1>2. PICK o : /\ result' = [result EXCEPT ![req] = o] /\ o.kind # "pending"
               /\ o.kind = "response" /\ o.code = "ok" => req \in Carried
  BY <1>1
<1>3. Carried' = Carried /\ Executions /\ Executions'
  BY DEF ExchangeInv, Agreement, deviceVars, Carried
<1>4. req \in 0 .. N /\ req <= req
  BY <1>1, ClientAssumption
<1>5. result'[req] = o /\ \A q \in 1 .. N : q # req => result'[q] = result[q]
  BY <1>1, <1>2 DEF ExchangeInv, ClientInv, TypeOK
<1>6. Sound(req, o)
  <2>1. Results'
    BY DEF ExchangeInv
  <2> QED BY <1>1, <1>5, <2>1 DEF Results, Sound
<1>7. Phases[req] = "open"
  BY <1>1, <1>4, PhaseNow, PhaseCases
<1>8. Phases = [q \in 1 .. N |-> PhaseOf(q, req, result[q])]
  BY DEF Phases
<1>9. Phases' = [q \in 1 .. N |-> PhaseOf(q, req, result'[q])]
  BY <1>1 DEF Phases
<1>10. Phases' = [Phases EXCEPT ![req] = PhaseOf(req, req, o)]
  BY <1>1, <1>5, <1>8, <1>9
<1>11. CASE o.kind = "response" /\ o.code = "ok"
  <2>1. PhaseOf(req, req, o) = "answered" /\ req \in Carried
    BY <1>1, <1>2, <1>4, <1>6, <1>11, PhaseCases
  <2> QED BY <1>1, <1>3, <1>7, <1>10, <2>1, ServiceStep
<1>12. CASE ~(o.kind = "response" /\ o.code = "ok")
  <2>1. PhaseOf(req, req, o) = "failed"
    BY <1>1, <1>2, <1>4, <1>12, PhaseCases
  <2> QED BY <1>1, <1>3, <1>7, <1>10, <2>1, ServiceStep
<1> QED BY <1>11, <1>12

\* Every step is one of CoapService or leaves its state alone.
LEMMA StepRefines ==
  ASSUME MaxBatch = 1, ExchangeInv, NextIdUnused, [ExchangeNext]_vars
  PROVE  Service!Next \/ UNCHANGED <<[r \in 1 .. N |-> Phase(r)], ExecutedOnce>>
<1>1. ExchangeInv' /\ Executions /\ Executions'
  BY ExchangeStep DEF ExchangeInv, Agreement
<1>2. CASE Request /\ UNCHANGED deviceVars
  BY <1>1, <1>2, RequestRefines
<1>3. CASE (TransportFails \/ GiveUp \/ Return) /\ UNCHANGED deviceVars
  BY <1>1, <1>3, LeaveRefines
<1>4. CASE Device
  BY <1>1, <1>4, DeviceRefines
<1>5. CASE \/ /\ \/ FirstSend \/ Resend \/ Retransmit \/ OnFrame
                 \/ PollReturns \/ Finish \/ Sleep \/ DeadlinePasses
              /\ UNCHANGED deviceVars
           \/ Loses
           \/ UNCHANGED vars
  <2>1. UNCHANGED <<req, result, executed>>
    BY <1>5, SendExchange, FrameExchange, WaitExchange, LosesExchange, StutterExchange
    DEF deviceVars
  <2> QED BY <1>1, <2>1, ServiceStutter
<1> QED BY <1>2, <1>3, <1>4, <1>5 DEF ExchangeNext, ClientNext, ClientStep

\* The initial state is one of CoapService.
LEMMA StartRefines == ASSUME ExchangeInit PROVE Service!Init
<1>1. ExchangeInv /\ req = 0 /\ executed = <<>>
  BY ExchangeStart
<1>2. \A r \in 1 .. N : Phases[r] = "new"
  <2>1. \A r \in 1 .. N : r > req /\ req \in 0 .. N
    BY <1>1, ClientAssumption
  <2> QED BY <1>1, <2>1, PhaseNow, PhaseCases
<1>3. Phases = [r \in 1 .. N |-> "new"]
  BY <1>2 DEF Phases
<1>4. Carried = {} /\ Executions
  BY <1>1 DEF Carried, ExchangeInv, Agreement
<1> QED BY <1>3, <1>4, Abstraction DEF Abstract, Service!Init

\* Over a line that loses messages, with retransmissions, blocks in both
\* directions, sizes that the device negotiates and late replies, request()
\* keeps what CoapService promises: for any number of requests, any bodies and
\* answers, any block sizes and any number of losses and retransmissions.
THEOREM RequestKeepsPromise ==
  ASSUME MaxBatch = 1, NEW budget, EnoughIds(budget)
  PROVE  ExchangeSpec => Promise
<1>1. ExchangeInit => Service!Init
  BY StartRefines
<1>2. ExchangeInv /\ IdsInv(budget) /\ [ExchangeNext]_vars =>
        [Service!Next]_<<[r \in 1 .. N |-> Phase(r)], ExecutedOnce>>
  BY IdsAreUnused, StepRefines
<1>3. ExchangeSpec => [](ExchangeInv /\ IdsInv(budget))
  BY ExchangeInvHolds
<1> QED BY <1>1, <1>2, <1>3, PTL DEF ExchangeSpec, Promise, Service!Spec
=============================================================================
