---------------------------- MODULE MCHashArray ----------------------------
EXTENDS HashArray

CONSTANTS x, y

\* x falls in the bucket of "2", y moves when two lists become four
HashValue == [k \in Keys |-> CASE k = x -> 0 [] k = y -> 2 [] OTHER -> (5 - k) % 8]

MCInts == {1, 2, 3}
=============================================================================
