----------------------------- MODULE MC_Framing -----------------------------
EXTENDS Framing

\* Bytes with the high bit too; lengths of one, two and three bytes.
MCName == {<<1>>}
MCPayload == {<< >>, <<5, 0>>, [i \in 1 .. 15 |-> i % 8]}
=============================================================================
