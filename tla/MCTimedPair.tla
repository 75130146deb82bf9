---------------------------- MODULE MCTimedPair ----------------------------
(***************************************************************************)
(* TimedPair for TLC: offsets from both ends at once to one end in Started *)
(* before the other, a packet longer than the window one way and two short *)
(* ones the other, and data bytes of both parities.                        *)
(***************************************************************************)
EXTENDS TimedPair

MCByte == [D1 |-> 53, D2 |-> 131, D3 |-> 0, D4 |-> 255, D5 |-> 64, D6 |-> 12, D7 |-> 248, D8 |-> 90,
           DX |-> 1]

Packets ==
  [a |-> <<"D1", "D2", "D3", "D4", "D5", "D6", "D7", "D8", "D2", "EOP">>,
   b |-> <<"D2", "EEP", "D1", "EOP">>]

NoPackets == [i \in End |-> <<>>]

Offsets == {0, 61, 114}
=============================================================================
