------------------------------ MODULE MCBitLine -------------------------------
\* BitLine for TLC: nothing, one bit of each value, and two equal ones, which only S
\* tells apart.
EXTENDS BitLine

Batches == {<<>>, <<0>>, <<1>>, <<1, 1>>}
=============================================================================
