----------------------------- MODULE MCParserLink -----------------------------
\* ParserLink for TLC: control characters, and a data character with an odd number
\* of ones.  A handshake is begun with NULLs.
EXTENDS ParserLink

MCRequests ==
  {[type |-> "NULL", value |-> 0], [type |-> "FCT", value |-> 0],
   [type |-> "EOP", value |-> 0], [type |-> "DATA", value |-> 112]}

MCNulls == {[type |-> "NULL", value |-> 0]}
=============================================================================
