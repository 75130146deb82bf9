----------------------------- MODULE MCCodecLine ------------------------------
\* CodecLine for TLC: every character type, and data bytes whose bits are all
\* equal, and that are not palindromes.
EXTENDS CodecLine

OfType(t, values) == {[type |-> t, value |-> v] : v \in values}

MCRequests ==
  UNION {OfType("NULL", {0}), OfType("FCT", {0}), OfType("EOP", {0}), OfType("EEP", {0}),
         OfType("DATA", {0, 113, 255}), OfType("TIMECODE", {37}), OfType("BROADCAST", {135})}

ASSUME RequestsAreConstructed == \A r \in MCRequests : Constructed(r)
=============================================================================
