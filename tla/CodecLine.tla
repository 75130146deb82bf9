------------------------------ MODULE CodecLine -------------------------------
(***************************************************************************)
(* An Encoder and a Decoder over a line that may flip one bit per session, *)
(* or whose encoder is told to send a bad parity or an illegal ESC pair    *)
(* once.  Reporting an error ends the session, as it resets the link or    *)
(* makes a strict CharMonitor raise; a new one starts with both ends reset *)
(* and the line empty.                                                     *)
(***************************************************************************)
EXTENDS Characters

CONSTANTS
  Requests,         \* the requests to encode
  MaxBadParityAhead \* bound on the offset of force_bad_parity

ASSUME CodecConstants ==
  /\ Requests \subseteq Request
  /\ MaxBadParityAhead \in Nat

\* What the constructors of requests, and control types by themselves, ask for: six
\* bits in a time-code, the default type field in a broadcast, no ESC without a second.
Constructed(r) ==
  /\ r \in Request /\ r.type # "ESC"
  /\ r.type \in ControlType \cup {"NULL"} => r.value = NoValue
  /\ r.type = "TIMECODE" => r.value \div 64 = 0
  /\ r.type = "BROADCAST" => r.value \div 64 = 2

VARIABLES
  enc, dec,
  line,      \* bits under way
  expected,  \* requests encoded and not yet decoded
  wrong,     \* characters decoded without an error that are not what was sent
  faulty,    \* the fault of this session has happened
  due,       \* primitives that may still be completed before it is reported
  reported   \* a decoded character has carried an error

vars == <<enc, dec, line, expected, wrong, faulty, due, reported>>

Init ==
  /\ enc = NewEncoder
  /\ dec = NewDecoder
  /\ line = <<>>
  /\ expected = <<>>
  /\ wrong = 0
  /\ faulty = FALSE
  /\ due = 0
  /\ reported = FALSE

\* The TX loop encodes the next character when the driver has done the last one.
Send(r) ==
  /\ ~reported
  /\ line = <<>>
  /\ enc' = Encode(enc, r).enc
  /\ line' = Encode(enc, r).bits
  /\ expected' = Append(expected, r)
  /\ UNCHANGED <<dec, wrong, faulty, due, reported>>

\* What a decoded character is when it is right.
Intended(r, char) == char = [type |-> r.type, value |-> r.value, errors |-> {}]

\* The decoder takes a bit, the first of the line or what a flip makes of it.
Take(bit) ==
  LET fed == FeedBit(dec, bit)
  IN  /\ dec' = fed.dec
      /\ line' = Tail(line)
      /\ reported' = \E i \in DOMAIN fed.chars : fed.chars[i].errors # {}
      /\ wrong' = IF /\ fed.chars # <<>>
                     /\ fed.chars[1].errors = {}
                     /\ expected = <<>> \/ ~Intended(Head(expected), fed.chars[1])
                  THEN wrong + 1 ELSE wrong
      /\ expected' = IF fed.chars = <<>> \/ expected = <<>> THEN expected ELSE Tail(expected)
      /\ UNCHANGED enc

CompletesPrimitive(bit) == Complete(Append(dec.buffer, bit))

Deliver ==
  /\ ~reported
  /\ line # <<>>
  /\ Take(Head(line))
  /\ due' = IF faulty /\ due > 0 /\ CompletesPrimitive(Head(line)) THEN due - 1 ELSE due
  /\ UNCHANGED faulty

Flip ==
  /\ ~reported /\ ~faulty
  /\ line # <<>>
  /\ Take(1 - Head(line))
  /\ due' = IF CompletesPrimitive(1 - Head(line)) THEN 1 ELSE 2
  /\ faulty' = TRUE

InjectBadParity(offset) ==
  /\ ~reported /\ ~faulty
  /\ line = <<>>
  /\ enc' = ForceBadParity(enc, offset)
  /\ due' = offset + 1
  /\ faulty' = TRUE
  /\ UNCHANGED <<dec, line, expected, wrong, reported>>

\* send_illegal_escape(): an ESC before something other than an FCT or data.
InjectIllegalEscape(following) ==
  /\ ~reported /\ ~faulty
  /\ line = <<>>
  /\ LET escape == Encode(enc, [type |-> "ESC", value |-> NoValue])
         second == Encode(escape.enc, [type |-> following, value |-> NoValue])
     IN  /\ enc' = second.enc
         /\ line' = escape.bits \o second.bits
  /\ due' = 2
  /\ faulty' = TRUE
  /\ UNCHANGED <<dec, expected, wrong, reported>>

\* The link is reset at both ends and the line falls silent.
Restart ==
  /\ enc' = NewEncoder
  /\ dec' = ResetDecoder(dec)
  /\ line' = <<>>
  /\ expected' = <<>>
  /\ wrong' = 0
  /\ faulty' = FALSE
  /\ due' = 0
  /\ reported' = FALSE

Next ==
  \/ \E r \in Requests : Send(r)
  \/ Deliver \/ Flip
  \/ \E offset \in 0 .. MaxBadParityAhead : InjectBadParity(offset)
  \/ \E following \in {"ESC", "EOP", "EEP"} : InjectIllegalEscape(following)
  \/ Restart

Spec == Init /\ [][Next]_vars

-----------------------------------------------------------------------------
\* Without a fault every character is decoded as it was encoded, in order, without
\* an error, and by the time its last bit is taken (Encoder and Decoder share one
\* parity chain, over ESC pairs and from a reset on).
RoundTrip ==
  ~faulty => /\ wrong = 0 /\ ~reported
             /\ line = <<>> => expected = <<>> /\ dec.buffer = <<>>

\* One flipped bit, one forced bad parity or one illegal ESC pair is reported at the
\* latest with the primitive after the one it hit, or with what resolves the ESC it
\* hit: even when the flip turned a data character into a control one and shifted
\* the frame.
FaultReported == faulty /\ due = 0 => reported \/ dec.pending

\* Until it is reported a fault passes at most one wrong character on: the parity
\* of a content is checked with the next character, when its N-Char is out.
AtMostOneWrong == wrong <= 1
=============================================================================
