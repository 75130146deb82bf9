------------------------------ MODULE Characters ------------------------------
(***************************************************************************)
(* The character codec of characters.py: Encoder, Decoder and the parity   *)
(* chain between them, as operators over one record each.  A primitive is  *)
(* parity, data-control flag and content, two bits for a control character *)
(* and eight for a data one, least significant first.  Raw bits, parity    *)
(* reports, times and statistics of a decoded Character are left out; its  *)
(* error string is the set of the labels joined in it.                     *)
(***************************************************************************)
EXTENDS Integers, Sequences, FiniteSets

Bit == {0, 1}

ControlType == {"FCT", "EOP", "EEP", "ESC"}

CharType == ControlType \cup {"DATA", "NULL", "TIMECODE", "BROADCAST"}

CharError == {"parity_error", "escape_error", "reserved_escape_data_type"}

NoValue == 0

\* What the application asks for: a type, with a byte where the type has one.
Request == [type : CharType, value : 0 .. 255]

\* What the decoder hands out.
Character == [type : CharType, value : 0 .. 255, errors : SUBSET CharError]

-----------------------------------------------------------------------------
ControlContent == [FCT |-> <<0, 0>>, EOP |-> <<0, 1>>, EEP |-> <<1, 0>>, ESC |-> <<1, 1>>]

ControlTypeOf(content) == CHOOSE t \in ControlType : ControlContent[t] = content

LsbBits(byte) == [i \in 1 .. 8 |-> (byte \div 2 ^ (i - 1)) % 2]

\* Mutant: most significant bit first.
MsbToByte(b) == 128 * b[1] + 64 * b[2] + 32 * b[3] + 16 * b[4]
                + 8 * b[5] + 4 * b[6] + 2 * b[7] + b[8]

LsbToByte(b) == b[1] + 2 * b[2] + 4 * b[3] + 8 * b[4]
                + 16 * b[5] + 32 * b[6] + 64 * b[7] + 128 * b[8]

Ones(bits) == Cardinality({i \in DOMAIN bits : bits[i] = 1})

\* Odd parity over the content of the previous character, the parity bit itself
\* and the flag of the current one.
\* Mutant: the flag is not covered.
ParityOfContent(prev, dc) == (Ones(prev) + 1) % 2

Parity(prev, dc) == (Ones(prev) + dc + 1) % 2

-----------------------------------------------------------------------------
(***************************************************************************)
(* Encoder: prev is _prev_content_bits, bad the primitives ahead whose     *)
(* parity force_bad_parity wants flipped.                                  *)
(***************************************************************************)
NewEncoder == [prev |-> <<>>, bad |-> {}]

ForceBadParity(enc, offset) == [enc EXCEPT !.bad = @ \cup {offset}]

AfterPrimitive(enc, p) == [prev |-> p.content, bad |-> {o - 1 : o \in enc.bad \ {0}}]

PrimitiveBits(enc, p) ==
  LET parity == IF 0 \in enc.bad THEN 1 - Parity(enc.prev, p.dc) ELSE Parity(enc.prev, p.dc)
  IN  <<parity, p.dc>> \o p.content

Control(t) == [dc |-> 1, content |-> ControlContent[t]]

Data(byte) == [dc |-> 0, content |-> LsbBits(byte)]

\* The one or two primitives of a request.
Primitives(r) ==
  CASE r.type \in ControlType -> <<Control(r.type)>>
    [] r.type = "DATA"        -> <<Data(r.value)>>
    [] r.type = "NULL"        -> <<Control("ESC"), Control("FCT")>>
    [] r.type = "TIMECODE"    -> <<Control("ESC"), Data(r.value % 64)>>
    [] r.type = "BROADCAST"   -> <<Control("ESC"), Data(r.value)>>

\* encode(): the bits of the request, and the encoder after it.
Encode(enc, r) ==
  LET ps  == Primitives(r)
      mid == AfterPrimitive(enc, ps[1])
  IN  IF Len(ps) = 1
      THEN [bits |-> PrimitiveBits(enc, ps[1]), enc |-> mid]
      ELSE [bits |-> PrimitiveBits(enc, ps[1]) \o PrimitiveBits(mid, ps[2]),
            enc  |-> AfterPrimitive(mid, ps[2])]

-----------------------------------------------------------------------------
(***************************************************************************)
(* Decoder: prev is _prev_content_bits, buffer the bits of the incomplete  *)
(* primitive, pending the ESC held (_pending_escape) and pendingBad its    *)
(* parity error.  _expected_len is a function of the buffer.               *)
(***************************************************************************)
DecoderRecord == [prev : Seq(Bit), buffer : Seq(Bit), pending : BOOLEAN, pendingBad : BOOLEAN]

NewDecoder == [prev |-> <<>>, buffer |-> <<>>, pending |-> FALSE, pendingBad |-> FALSE]

ResetDecoder(dec) == NewDecoder

\* Mutant: a control character is taken to have a bit more.
CompleteLate(buffer) ==
  /\ Len(buffer) >= 2
  /\ Len(buffer) = IF buffer[2] = 1 THEN 5 ELSE 10

Complete(buffer) ==
  /\ Len(buffer) >= 2
  /\ Len(buffer) = IF buffer[2] = 1 THEN 4 ELSE 10

ParityErrors(dec, raw) == IF raw[1] = Parity(dec.prev, raw[2]) THEN {} ELSE {"parity_error"}

PrimitiveType(raw) == IF raw[2] = 0 THEN "DATA" ELSE ControlTypeOf(SubSeq(raw, 3, 4))

PrimitiveValue(raw) == IF raw[2] = 0 THEN LsbToByte(SubSeq(raw, 3, 10)) ELSE NoValue

EscapedType(raw) ==
  LET type  == PrimitiveType(raw)
      field == PrimitiveValue(raw) \div 64
  IN  CASE type = "FCT"                 -> "NULL"
        [] type = "DATA" /\ field = 0   -> "TIMECODE"
        [] type = "DATA" /\ field # 0   -> "BROADCAST"
        [] type \in ControlType \ {"FCT"} -> type

EscapedErrors(raw) ==
  CASE PrimitiveType(raw) = "FCT"  -> {}
    [] PrimitiveType(raw) = "DATA" ->
         IF PrimitiveValue(raw) \div 64 \in {0, 2} THEN {} ELSE {"reserved_escape_data_type"}
    [] OTHER                       -> {"escape_error"}

\* Mutant: the parity error of a held ESC is lost.
HeldErrorsLost(dec) == {}

HeldErrors(dec) == IF dec.pendingBad THEN {"parity_error"} ELSE {}

\* A completed primitive with the ESC before it, if one is held: what it resolves
\* to, if anything.  An ESC that follows no ESC is held.
Resolve(dec, raw) ==
  LET errors == ParityErrors(dec, raw)
  IN  IF dec.pending
      THEN <<[type |-> EscapedType(raw), value |-> PrimitiveValue(raw),
              errors |-> HeldErrors(dec) \cup errors \cup EscapedErrors(raw)]>>
      ELSE IF PrimitiveType(raw) = "ESC" THEN <<>>
      ELSE <<[type |-> PrimitiveType(raw), value |-> PrimitiveValue(raw), errors |-> errors]>>

\* Mutant: the held ESC is not given up when it is resolved.
AfterResolveStillPending(dec, raw) ==
  [prev |-> SubSeq(raw, 3, Len(raw)), buffer |-> <<>>, pendingBad |-> FALSE,
   pending |-> dec.pending \/ PrimitiveType(raw) = "ESC"]

AfterResolve(dec, raw) ==
  LET held == ~dec.pending /\ PrimitiveType(raw) = "ESC"
  IN  [prev       |-> SubSeq(raw, 3, Len(raw)),
       buffer     |-> <<>>,
       pending    |-> held,
       pendingBad |-> held /\ ParityErrors(dec, raw) # {}]

\* feed(): the characters that the bit completes, none or one, and the decoder.
FeedBit(dec, bit) ==
  LET raw == Append(dec.buffer, bit)
  IN  IF Complete(raw)
      THEN [chars |-> Resolve(dec, raw), dec |-> AfterResolve(dec, raw)]
      ELSE [chars |-> <<>>, dec |-> [dec EXCEPT !.buffer = raw]]

-----------------------------------------------------------------------------
\* The parser of link.py over the decoder: the errors that reset the link, and the
\* FSM event of a character.  A bare ESC without an error would be ignored.
IsHardError(char) == char.errors \cap {"parity_error", "escape_error"} # {}

EventOf(char) ==
  IF IsHardError(char) THEN "RX_ERR"
  ELSE CASE char.type = "NULL"                      -> "GOT_NULL"
         [] char.type = "FCT"                       -> "GOT_FCT"
         [] char.type \in {"DATA", "EOP", "EEP"}    -> "GOT_N_CHAR"
         [] char.type \in {"TIMECODE", "BROADCAST"} -> "GOT_TIME_CODE"
         [] OTHER                                   -> "NONE"
=============================================================================
