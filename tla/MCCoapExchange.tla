--------------------------- MODULE MCCoapExchange ---------------------------
EXTENDS CoapExchange

\* A body that needs more than one block, then no body; a short answer, then one
\* that needs more than one block.
PutThenGet == <<5, 0>>
ShortThenLong == <<2, 3>>
NoReplies == {}
MCUnit == {<<r, i>> : r \in 1 .. N, i \in 1 .. 3}
=============================================================================
