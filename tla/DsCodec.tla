------------------------------- MODULE DsCodec --------------------------------
(***************************************************************************)
(* The Data-Strobe codec of ds_codec.py: D carries the bit, S changes when *)
(* D does not, so that exactly one of them changes with every bit.  A      *)
(* sample is the pair of levels after a bit.                               *)
(***************************************************************************)
EXTENDS Integers, Sequences

Bit == {0, 1}

Level == [d : Bit, s : Bit]

\* The levels that encode bit after level.
NextLevel(level, bit) ==
  [d |-> bit, s |-> IF bit = level.d THEN 1 - level.s ELSE level.s]

\* ds_encode(): one sample a bit, from the initial levels on.
DsEncode(bits, initial) ==
  LET sample[i \in 0 .. Len(bits)] ==
        IF i = 0 THEN initial ELSE NextLevel(sample[i - 1], bits[i])
  IN  [i \in DOMAIN bits |-> sample[i]]

\* Mutant: both levels may change at once.
ValidTransitionBoth(before, after) == after # before

\* The check of ds_decode(): both changed and neither changed are refused.
ValidTransition(before, after) == (after.d # before.d) # (after.s # before.s)

\* ds_decode() with validate: whether it accepts the samples, and what they say.
DsAccepts(samples, initial) ==
  \A i \in DOMAIN samples :
    ValidTransition(IF i = 1 THEN initial ELSE samples[i - 1], samples[i])

DsDecode(samples) == [i \in DOMAIN samples |-> samples[i].d]
=============================================================================
