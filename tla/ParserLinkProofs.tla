--------------------------- MODULE ParserLinkProofs ---------------------------
(***************************************************************************)
(* ParserLink proved for every set of requests and commands: what keeps    *)
(* the decoder of an endpoint on the boundaries of the peer's characters.  *)
(***************************************************************************)
EXTENDS ParserLink, LinkLemmas

-----------------------------------------------------------------------------
\* A primitive is held, or resolves to a character that feeds the FSM an event: an ESC
\* is never handed out without an error.
LEMMA EventOfResolved ==
  ASSUME NEW d, NEW w, Whole(w)
  PROVE  \/ Resolve(d, w) = <<>> /\ Holds(d, w)
         \/ ~Holds(d, w) /\ \E c : Resolve(d, w) = <<c>> /\ EventOf(c) \in Event
<1>1. PrimitiveType(w) \in ControlType \cup {"DATA"}
  BY TypeOfWhole
<1> DEFINE value == PrimitiveValue(w)
           held == HeldErrors(d)
           wrong == ParityErrors(d, w)
           type == PrimitiveType(w)
<1>2. \A c : c.type \in CharType /\ (c.type = "ESC" => "escape_error" \in c.errors)
               => EventOf(c) \in Event
  BY Zenon DEF EventOf, Event, IsHardError, CharType, ControlType
<1>3. \A v, x, t : LET c == [type |-> t, value |-> v, errors |-> x]
                   IN  c.type = t /\ c.errors = x
  BY Zenon
<1>4. EscapedType(w) \in CharType
  BY <1>1, Zenon DEF EscapedType, CharType, ControlType
<1>5. EscapedType(w) = "ESC" => "escape_error" \in EscapedErrors(w)
  BY <1>1, Zenon DEF EscapedType, EscapedErrors, CharType, ControlType
<1>6. CASE d.pending
  <2> DEFINE c == [type |-> EscapedType(w), value |-> value,
                   errors |-> held \cup wrong \cup EscapedErrors(w)]
  <2>1. Resolve(d, w) = <<c>>
    BY <1>6, Zenon DEF Resolve
  <2>2. c.type = EscapedType(w) /\ c.errors = held \cup wrong \cup EscapedErrors(w)
    BY <1>3, Zenon
  <2>3. EventOf(c) \in Event
    BY <1>2, <1>4, <1>5, <2>2, Zenon
  <2> QED
    BY <1>6, <2>1, <2>3, Zenon DEF Holds
<1>7. CASE ~d.pending /\ type = "ESC"
  BY <1>7, Zenon DEF Resolve, Holds
<1>8. CASE ~d.pending /\ type # "ESC"
  <2> DEFINE c == [type |-> type, value |-> value, errors |-> wrong]
  <2>1. Resolve(d, w) = <<c>>
    BY <1>8, Zenon DEF Resolve
  <2>2. c.type = type
    BY <1>3, Zenon
  <2>3. EventOf(c) \in Event
    BY <1>1, <1>2, <1>8, <2>2, Zenon DEF CharType
  <2> QED
    BY <1>8, <2>1, <2>3, Zenon DEF Holds
<1> QED
  BY <1>6, <1>7, <1>8, Zenon

-----------------------------------------------------------------------------
TypeInv ==
  /\ fsm \in FsmRecord
  /\ dec \in DecoderRecord
  /\ Chain(peer)
  /\ line \in Seq(Bit)
  /\ cut \in BOOLEAN /\ data \in BOOLEAN

\* The link is reset.
Falls == fsm'.state = "ERROR_RESET" /\ fsm.state # "ERROR_RESET"

\* Every step is one of the peer's, a bit, or an event that no character fed.
LEMMA StepCases ==
  ASSUME [Next]_vars
  PROVE  \/ \E e \in Event : e # "GOT_NULL" /\ FeedEvent(e)
         \/ \E r \in Requests : r \in Request /\ PeerSends(r)
         \/ PeerResets
         \/ HearBit
         \/ UNCHANGED vars
<1>1. Command => \E e \in Event : e # "GOT_NULL" /\ FeedEvent(e)
  <2>1. \A e \in Commands : e \in Event /\ e # "GOT_NULL"
    BY ParserLinkConstants DEF ParserLinkConstants, Event
  <2> QED
    BY <2>1, Zenon DEF Command
<1>2. Transmitted \/ TimerExpires \/ PeerSilent
        => \E e \in Event : e # "GOT_NULL" /\ FeedEvent(e)
  BY Zenon DEF Transmitted, TimerExpires, PeerSilent, Event
<1>3. Requests \subseteq Request
  BY ParserLinkConstants DEF ParserLinkConstants
<1> QED
  BY <1>1, <1>2, <1>3, Zenon DEF Next

\* What one bit does: it joins the buffer, or it ends a primitive, which leaves the
\* decoder empty whether the link is reset or not; an ESC is held without an event.
LEMMA BitHeard ==
  ASSUME TypeInv, HearBit
  PROVE  LET raw == Append(dec.buffer, Head(line))
         IN  /\ line # <<>> /\ Head(line) \in Bit
             /\ line' = Tail(line) /\ Tail(line) \in Seq(Bit) /\ Len(line') = Len(line) - 1
             /\ UNCHANGED <<peer, cut, data>>
             /\ fsm' \in FsmRecord /\ dec' \in DecoderRecord
             /\ raw \in Seq(Bit) /\ Len(raw) = Len(dec.buffer) + 1
             /\ Complete(raw) =>
                  /\ Whole(raw)
                  /\ dec'.buffer = <<>> /\ (dec'.pending <=> Holds(dec, raw))
                  /\ fsm' \in Heard(Resolve(dec, raw))
             /\ ~Complete(raw) =>
                  /\ dec'.buffer = raw /\ dec'.pending = dec.pending
                  /\ fsm' = fsm
<1> DEFINE bit == Head(line)
           raw == Append(dec.buffer, bit)
           fed == FeedBit(dec, bit)
<1>1. /\ fsm \in FsmRecord /\ dec \in DecoderRecord /\ line \in Seq(Bit)
  BY DEF TypeInv
<1>2. /\ line # <<>> /\ line' = Tail(line)
      /\ UNCHANGED <<peer, cut, data>>
      /\ fsm' \in Heard(fed.chars)
      /\ dec' = IF Falls THEN ResetDecoder(fed.dec) ELSE fed.dec
  BY Zenon DEF HearBit, Falls
<1>3. bit \in Bit /\ Tail(line) \in Seq(Bit) /\ Len(Tail(line)) = Len(line) - 1
  BY <1>1, <1>2, HeadTailProperties, Zenon
<1>4. /\ raw \in Seq(Bit) /\ Len(raw) = Len(dec.buffer) + 1
      /\ fed.dec \in DecoderRecord
      /\ Complete(raw) =>
           /\ Whole(raw)
           /\ fed.dec.buffer = <<>> /\ (fed.dec.pending <=> Holds(dec, raw))
           /\ fed.chars = Resolve(dec, raw)
      /\ ~Complete(raw) =>
           /\ fed.dec.buffer = raw /\ fed.dec.pending = dec.pending
           /\ fed.chars = <<>>
  BY <1>1, <1>3, FeedBitEffect, Zenon
<1>5. \A d : ResetDecoder(d) \in DecoderRecord /\ ResetDecoder(d).buffer = <<>> /\ ~ResetDecoder(d).pending
  BY EmptySeq, Zenon DEF ResetDecoder, NewDecoder, DecoderRecord
<1>6. Heard(<<>>) = {fsm}
  BY Zenon DEF Heard
<1>7. \A c : LET f == Feed(fsm, EventOf(c))
             IN  Heard(<<c>>) \subseteq {f, Feed(f, "CREDIT_ERR")}
  BY DEF Heard
<1>8. \A f \in FsmRecord, e \in Event : Feed(f, e) \in FsmRecord
  BY FeedEffect, Zenon
<1>9. "CREDIT_ERR" \in Event
  BY DEF Event
<1> HIDE DEF fed, raw
<1>10. CASE ~Complete(raw)
  <2>1. fsm' = fsm
    BY <1>2, <1>4, <1>6, <1>10, Zenon
  <2>2. dec' = fed.dec
    BY <1>2, <2>1, Zenon DEF Falls
  <2> QED
    BY <1>1, <1>2, <1>3, <1>4, <1>10, <2>1, <2>2, Zenon DEF raw
<1>11. CASE Complete(raw)
  <2>1. fsm' \in Heard(Resolve(dec, raw))
    BY <1>2, <1>4, <1>11, Zenon
  <2>2. \/ Resolve(dec, raw) = <<>> /\ Holds(dec, raw)
        \/ ~Holds(dec, raw) /\ \E c : Resolve(dec, raw) = <<c>> /\ EventOf(c) \in Event
    BY <1>4, <1>11, EventOfResolved, Zenon
  <2>3. CASE Resolve(dec, raw) = <<>> /\ Holds(dec, raw)
    <3>1. fsm' = fsm
      BY <1>6, <2>1, <2>3, Zenon
    <3>2. dec' = fed.dec
      BY <1>2, <3>1, Zenon DEF Falls
    <3> QED
      BY <1>1, <1>2, <1>3, <1>4, <1>11, <2>1, <3>1, <3>2, Zenon DEF raw
  <2>4. CASE ~Holds(dec, raw) /\ \E c : Resolve(dec, raw) = <<c>> /\ EventOf(c) \in Event
    <3>1. PICK c : Resolve(dec, raw) = <<c>> /\ EventOf(c) \in Event
      BY <2>4
    <3>2. fsm' \in FsmRecord
      BY <1>1, <1>7, <1>8, <1>9, <2>1, <3>1, Zenon
    <3>3. dec' \in DecoderRecord /\ dec'.buffer = <<>> /\ ~dec'.pending
      BY <1>2, <1>4, <1>5, <1>11, <2>4, Zenon
    <3> QED
      BY <1>2, <1>3, <1>4, <1>11, <2>1, <2>4, <3>2, <3>3, Zenon DEF raw
  <2> QED
    BY <2>2, <2>3, <2>4, Zenon
<1> QED
  BY <1>10, <1>11, Zenon

\* And what an event does: it may reset the decoder.
LEMMA EventFed ==
  ASSUME TypeInv, NEW e \in Event, FeedEvent(e)
  PROVE  /\ fsm' = Feed(fsm, e) /\ fsm' \in FsmRecord
         /\ line' = line /\ peer' = peer
         /\ Falls => /\ dec' = NewDecoder
                     /\ cut' = (cut \/ line # <<>>) /\ data' = (data /\ line # <<>>)
         /\ ~Falls => UNCHANGED <<dec, cut, data>>
BY FeedEffect, Zenon DEF TypeInv, FeedEvent, Falls, ResetDecoder

\* An escaped pair is a sequence of bits,
LEMMA Concatenated ==
  ASSUME NEW b, NEW type, Escaped(b, type)
  PROVE  b \in Seq(Bit)
BY ConcatProperties, Zenon DEF Escaped, WholeEscape, Whole

\* and so is every encoded request.
LEMMA EncodedType ==
  ASSUME NEW enc, Chain(enc), NEW r \in Request
  PROVE  Encode(enc, r).bits \in Seq(Bit)
<1>1. r.type \in ControlType \cup {"DATA"} \cup {"NULL"} \cup {"TIMECODE", "BROADCAST"}
  BY DEF Request, CharType
<1> QED
  BY <1>1, EncodedBits, Concatenated, Zenon DEF Whole

\* The initial state has its types,
LEMMA TypeInitial == Init => TypeInv
<1>1. <<>> \in Seq(Bit)
  BY EmptySeq
<1>2. NewDecoder \in DecoderRecord /\ Chain(NewEncoder)
  BY <1>1, Zenon DEF NewDecoder, DecoderRecord, Chain, NewEncoder
<1>3. [NewFsm EXCEPT !.linkStart = TRUE] \in FsmRecord
  BY DEF NewFsm, FsmRecord, State
<1> QED
  BY <1>1, <1>2, <1>3 DEF Init, TypeInv

\* every step keeps them,
LEMMA TypeStep == TypeInv /\ [Next]_vars => TypeInv'
<1> SUFFICES ASSUME TypeInv, [Next]_vars PROVE TypeInv'
  OBVIOUS
<1>1. NewDecoder \in DecoderRecord /\ Chain(NewEncoder)
  BY EmptySeq, Zenon DEF NewDecoder, DecoderRecord, Chain, NewEncoder
<1>2. ASSUME NEW e \in Event, FeedEvent(e) PROVE TypeInv'
  <2>1. /\ fsm' \in FsmRecord /\ line' = line /\ peer' = peer
        /\ Falls => /\ dec' = NewDecoder
                    /\ cut' = (cut \/ line # <<>>) /\ data' = (data /\ line # <<>>)
        /\ ~Falls => UNCHANGED <<dec, cut, data>>
    BY <1>2, EventFed, Zenon
  <2>2. dec' \in DecoderRecord
    BY <1>1, <2>1, Zenon DEF TypeInv
  <2>3. cut' \in BOOLEAN /\ data' \in BOOLEAN
    BY <2>1, Zenon DEF TypeInv
  <2> QED
    BY <2>1, <2>2, <2>3, Zenon DEF TypeInv, Chain
<1>3. ASSUME NEW r \in Requests, r \in Request, PeerSends(r) PROVE TypeInv'
  <2>1. line' \in Seq(Bit) /\ Chain(peer')
    BY <1>3, EncodedType, EncodedBits, Zenon DEF PeerSends, TypeInv
  <2> QED
    BY <1>3, <2>1, Zenon DEF PeerSends, TypeInv, Chain
<1>4. CASE PeerResets
  BY <1>1, <1>4, Zenon DEF PeerResets, TypeInv, Chain
<1>5. CASE HearBit
  <2>1. /\ line' = Tail(line) /\ Tail(line) \in Seq(Bit)
        /\ UNCHANGED <<peer, cut, data>>
        /\ fsm' \in FsmRecord /\ dec' \in DecoderRecord
    BY <1>5, BitHeard, Zenon
  <2> QED
    BY <2>1, Zenon DEF TypeInv, Chain
<1>6. CASE UNCHANGED vars
  BY <1>6, Zenon DEF vars, TypeInv, Chain
<1> QED
  BY <1>2, <1>3, <1>4, <1>5, <1>6, StepCases, Zenon

\* and so they hold throughout.
LEMMA TypeAlways == Spec => []TypeInv
BY TypeInitial, TypeStep, PTL DEF Spec

-----------------------------------------------------------------------------
\* Lengths, as numbers: what is still to come of the peer's character, and what the
\* decoder holds of its own.
Ahead == Len(line)

Gathered == Len(dec.buffer)

\* A bit moved from the line to the buffer keeps the sum, a primitive completed or a
\* request added keeps its parity.
LEMMA EvenSums ==
  /\ \A a, h \in Nat : a > 0 => (a - 1) + (h + 1) = a + h
  /\ \A a, h \in Nat : a > 0 /\ (h + 1 = 4 \/ h + 1 = 10) => ((a - 1) + 0) % 2 = (a + h) % 2
  /\ \A n \in {4, 8, 10, 14} : \A h \in Nat : (n + h) % 2 = (0 + h) % 2
OBVIOUS

\* A request is an even number of bits.
LEMMA EvenRequests ==
  ASSUME NEW enc, Chain(enc), NEW r \in Request
  PROVE  Len(Encode(enc, r).bits) \in {4, 8, 10, 14}
<1> DEFINE b == Encode(enc, r).bits
<1>1. r.type \in ControlType \cup {"DATA"} \/ r.type = "NULL" \/ r.type \in {"TIMECODE", "BROADCAST"}
  BY DEF Request, CharType
<1>2. \A w : Whole(w) => Len(w) \in {4, 10}
  BY TypeOfWhole, Zenon
<1>3. \A e, w : e \in Seq(Bit) /\ w \in Seq(Bit) => Len(e \o w) = Len(e) + Len(w)
  BY ConcatProperties, Zenon
<1>4. \A type : Escaped(b, type) => Len(b) \in {8, 14}
  <2> SUFFICES ASSUME NEW e, NEW w, WholeEscape(e), Whole(w), b = e \o w
               PROVE  Len(b) \in {8, 14}
    BY Zenon DEF Escaped
  <2>1. Len(e) = 4 /\ Len(w) \in {4, 10} /\ Len(b) = Len(e) + Len(w)
    BY <1>2, <1>3, Zenon DEF WholeEscape, Whole
  <2>2. \A m, n, o : m = 4 /\ n \in {4, 10} /\ o = m + n => o \in {8, 14}
    OBVIOUS
  <2> QED
    BY <2>1, <2>2, Zenon
<1>5. Len(b) \in {4, 10} \/ Len(b) \in {8, 14}
  BY <1>1, <1>2, <1>4, EncodedBits, Zenon
<1> QED
  BY <1>5

\* Bits are heard as they are driven and primitives are of even length, so the phase
\* changes in a step only by the reset of an event that no character fed, and is
\* lost only with bits ahead.
LEMMA PhaseStep ==
  ASSUME TypeInv, [Next]_vars
  PROVE  /\ OutOfPhase' # OutOfPhase => fsm'.state = "ERROR_RESET" /\ UNCHANGED line
         /\ ~OutOfPhase /\ OutOfPhase' => line # <<>>
<1>1. /\ line \in Seq(Bit) /\ dec.buffer \in Seq(Bit)
      /\ Ahead \in Nat /\ Gathered \in Nat
  <2>1. line \in Seq(Bit) /\ dec.buffer \in Seq(Bit)
    BY Zenon DEF TypeInv, DecoderRecord
  <2> QED
    BY <2>1, LenProperties, Zenon DEF Ahead, Gathered
<1>2. /\ OutOfPhase <=> (Ahead + Gathered) % 2 = 1
      /\ OutOfPhase' <=> (Ahead' + Gathered') % 2 = 1
  BY Zenon DEF OutOfPhase, Ahead, Gathered
<1>3. Len(<<>>) = 0
  OBVIOUS
<1>4. ASSUME NEW e \in Event, FeedEvent(e)
      PROVE  /\ OutOfPhase' # OutOfPhase => fsm'.state = "ERROR_RESET" /\ UNCHANGED line
             /\ ~OutOfPhase /\ OutOfPhase' => line # <<>>
  <2>1. /\ line' = line
        /\ Falls => dec' = NewDecoder
        /\ ~Falls => dec' = dec
    BY <1>4, EventFed, Zenon
  <2>2. CASE Falls
    <3>0. NewDecoder.buffer = <<>>
      BY DEF NewDecoder
    <3>1. Ahead' = Ahead /\ Gathered' = 0
      BY <1>3, <2>1, <2>2, <3>0, Zenon DEF Ahead, Gathered
    <3>2. line = <<>> => Ahead = 0
      BY <1>3, Zenon DEF Ahead
    <3>3. fsm'.state = "ERROR_RESET"
      BY <2>2 DEF Falls
    <3>4. (0 + 0) % 2 # 1
      OBVIOUS
    <3>5. OutOfPhase' => Ahead # 0
      BY <1>2, <3>1, <3>4, Zenon
    <3> QED
      BY <2>1, <3>2, <3>3, <3>5
  <2>3. CASE ~Falls
    <3>1. Ahead' = Ahead /\ Gathered' = Gathered
      BY <2>1, <2>3, Zenon DEF Ahead, Gathered
    <3>2. OutOfPhase' = OutOfPhase
      BY <3>1, Zenon DEF OutOfPhase, Ahead, Gathered
    <3> QED
      BY <3>2
  <2> QED
    BY <2>2, <2>3
<1>5. ASSUME ~\E e \in Event : FeedEvent(e) PROVE OutOfPhase' = OutOfPhase
  <2>1. ASSUME NEW r \in Requests, r \in Request, PeerSends(r)
        PROVE  (Ahead' + Gathered') % 2 = (Ahead + Gathered) % 2
    <3>1. Len(Encode(peer, r).bits) \in {4, 8, 10, 14}
      BY <2>1, EvenRequests DEF TypeInv
    <3>2. Ahead' \in {4, 8, 10, 14} /\ Gathered' = Gathered /\ Ahead = 0
      BY <1>3, <2>1, <3>1, Zenon DEF PeerSends, Ahead, Gathered
    <3> QED
      BY <1>1, <3>2, EvenSums, Zenon
  <2>2. ASSUME HearBit PROVE (Ahead' + Gathered') % 2 = (Ahead + Gathered) % 2
    <3> DEFINE raw == Append(dec.buffer, Head(line))
    <3>1. /\ line # <<>> /\ Len(line') = Len(line) - 1
          /\ raw \in Seq(Bit) /\ Len(raw) = Len(dec.buffer) + 1
          /\ Complete(raw) => Whole(raw) /\ dec'.buffer = <<>>
          /\ ~Complete(raw) => dec'.buffer = raw
      BY <2>2, BitHeard, Zenon
    <3>2. Ahead > 0
      <4>1. Len(line) \in Nat \ {0}
        BY <1>1, <3>1, EmptySeq, Zenon
      <4> QED
        BY <4>1 DEF Ahead
    <3>3. Ahead' = Ahead - 1
      BY <3>1, Zenon DEF Ahead
    <3>4. CASE Complete(raw)
      <4>1. Gathered' = 0
        BY <1>3, <3>1, <3>4, Zenon DEF Gathered
      <4>2. Len(raw) = 4 \/ Len(raw) = 10
        BY <3>1, <3>4, TypeOfWhole, Zenon
      <4>3. Gathered + 1 = 4 \/ Gathered + 1 = 10
        BY <3>1, <4>2, Zenon DEF Gathered
      <4> QED
        BY <1>1, <3>2, <3>3, <4>1, <4>3, EvenSums, Zenon
    <3>5. CASE ~Complete(raw)
      <4>1. Gathered' = Gathered + 1
        BY <3>1, <3>5, Zenon DEF Gathered
      <4> QED
        BY <1>1, <3>2, <3>3, <4>1, EvenSums, Zenon
    <3> QED
      BY <3>4, <3>5, Zenon
  <2>3. ASSUME PeerResets \/ UNCHANGED vars PROVE Ahead' = Ahead /\ Gathered' = Gathered
    BY <2>3, Zenon DEF PeerResets, vars, Ahead, Gathered
  <2>4. (Ahead' + Gathered') % 2 = (Ahead + Gathered) % 2
    BY <1>5, <2>1, <2>2, <2>3, StepCases, Zenon
  <2> QED
    BY <2>4, Zenon DEF OutOfPhase, Ahead, Gathered
<1>6. CASE \E e \in Event : FeedEvent(e)
  BY <1>4, <1>6, Zenon
<1>7. CASE ~\E e \in Event : FeedEvent(e)
  <2>1. OutOfPhase' = OutOfPhase
    BY <1>5, <1>7, Zenon
  <2> QED
    BY <2>1
<1> QED
  BY <1>6, <1>7, Zenon

\* However many characters are heard, refused or answered with a reset, the decoder
\* and the peer stay in phase or out of it; only a reset that no character brought
\* about (a timer, a command, an event of the TX loop) changes that, and it puts
\* them out of phase only in the middle of a character.
THEOREM PhaseAlwaysKept == Spec => PhaseKept
<1>1. TypeInv /\ [Next]_vars =>
        [/\ OutOfPhase' # OutOfPhase => fsm'.state = "ERROR_RESET" /\ UNCHANGED line
         /\ ~OutOfPhase /\ OutOfPhase' => line # <<>>]_vars
  BY PhaseStep, Zenon
<1> QED
  BY <1>1, TypeAlways, PTL DEF Spec, PhaseKept

-----------------------------------------------------------------------------
\* The TX loop of an endpoint sends NULLs, FCTs and N-Chars and never an ESC by itself
\* (link.py:378-427); a bare ESC is held over the end of its character.
NoBareEscape == \A r \in Requests : r.type # "ESC"

\* Where the decoder stands in what the peer drives: at the boundary of its
\* characters, inside a primitive that ends one, or inside the ESC of two.
AtBoundary == line = <<>> /\ dec.buffer = <<>> /\ ~dec.pending

InPrimitive ==
  \E w : Whole(w) /\ PrimitiveType(w) # "ESC" /\ Between(w, dec.buffer, line)

InEscape ==
  /\ ~dec.pending
  /\ \E e, w, rest : /\ WholeEscape(e) /\ Whole(w) /\ PrimitiveType(w) # "ESC"
                     /\ Between(e, dec.buffer, rest)
                     /\ line = rest \o w

InStep == ~cut => AtBoundary \/ InPrimitive \/ InEscape

\* Inside a character there are bits to come.
LEMMA InsideIsAhead == InPrimitive \/ InEscape => line # <<>>
<1>1. InPrimitive => line # <<>>
  BY Zenon DEF InPrimitive, Between
<1>2. ASSUME NEW e, NEW w, NEW rest, Whole(w), Between(e, dec.buffer, rest), line = rest \o w
      PROVE  line # <<>>
  <2>1. rest \in Seq(Bit) /\ rest # <<>> /\ w \in Seq(Bit)
    BY <1>2, Zenon DEF Between, Whole
  <2> QED
    BY <1>2, <2>1, BitsConcat, Zenon
<1> QED
  BY <1>1, <1>2, Zenon DEF InEscape

\* The peer begins a request at a boundary.
LEMMA InStepSends ==
  ASSUME TypeInv, NEW r \in Request, r.type # "ESC", PeerSends(r), AtBoundary
  PROVE  InPrimitive' \/ InEscape'
<1> DEFINE b == Encode(peer, r).bits
<1>1. line' = b /\ dec' = dec /\ dec.buffer = <<>> /\ ~dec.pending /\ Chain(peer)
  BY Zenon DEF PeerSends, AtBoundary, TypeInv
<1>2. r.type \in ControlType \cup {"DATA"} \/ r.type = "NULL" \/ r.type \in {"TIMECODE", "BROADCAST"}
  BY DEF Request, CharType
<1>3. /\ r.type \in ControlType \cup {"DATA"} => Whole(b) /\ PrimitiveType(b) = r.type
      /\ r.type = "NULL" => Escaped(b, "FCT")
      /\ r.type \in {"TIMECODE", "BROADCAST"} => Escaped(b, "DATA")
  BY <1>1, EncodedBits, Zenon
<1> HIDE DEF b
<1>4. ASSUME Whole(b), PrimitiveType(b) = r.type PROVE InPrimitive'
  <2>1. Between(b, <<>>, b)
    BY <1>4, NotBegun, Zenon
  <2> QED
    BY <1>1, <1>4, <2>1, Zenon DEF InPrimitive
<1>5. ASSUME NEW type, type # "ESC", Escaped(b, type) PROVE InEscape'
  <2>1. PICK e, w : WholeEscape(e) /\ Whole(w) /\ PrimitiveType(w) = type /\ b = e \o w
    BY <1>5, Zenon DEF Escaped
  <2>2. Between(e, <<>>, e)
    BY <2>1, NotBegun, Zenon DEF WholeEscape
  <2> QED
    BY <1>1, <1>5, <2>1, <2>2, Zenon DEF InEscape
<1> QED
  BY <1>2, <1>3, <1>4, <1>5, "FCT" # "ESC", "DATA" # "ESC", Zenon

\* A bit of the primitive that ends a character.
LEMMA InStepPrimitive ==
  ASSUME TypeInv, HearBit, InPrimitive
  PROVE  AtBoundary' \/ InPrimitive'
<1> DEFINE raw == Append(dec.buffer, Head(line))
<1>1. /\ line' = Tail(line)
      /\ Complete(raw) => dec'.buffer = <<>> /\ (dec'.pending <=> Holds(dec, raw))
      /\ ~Complete(raw) => dec'.buffer = raw
  BY BitHeard, Zenon
<1>2. PICK w : Whole(w) /\ PrimitiveType(w) # "ESC" /\ Between(w, dec.buffer, line)
  BY Zenon DEF InPrimitive
<1>3. /\ Tail(line) = <<>> => raw = w
      /\ Tail(line) # <<>> => Between(w, raw, Tail(line)) /\ ~Complete(raw)
  BY <1>2, OneBitOn, Zenon
<1> HIDE DEF raw
<1>4. CASE Tail(line) = <<>>
  <2>1. Complete(raw) /\ ~Holds(dec, raw)
    BY <1>2, <1>3, <1>4, Zenon DEF Whole, Holds
  <2> QED
    BY <1>1, <1>4, <2>1, Zenon DEF AtBoundary
<1>5. CASE Tail(line) # <<>>
  BY <1>1, <1>2, <1>3, <1>5, Zenon DEF InPrimitive
<1> QED
  BY <1>4, <1>5

\* A bit of the ESC before it: when it is complete it is held, and the primitive
\* that follows is heard from its first bit.
LEMMA InStepEscape ==
  ASSUME TypeInv, HearBit, InEscape
  PROVE  InPrimitive' \/ InEscape'
<1> DEFINE raw == Append(dec.buffer, Head(line))
<1>1. /\ line' = Tail(line)
      /\ Complete(raw) => dec'.buffer = <<>>
      /\ ~Complete(raw) => dec'.buffer = raw /\ dec'.pending = dec.pending
  BY BitHeard, Zenon
<1>2. ~dec.pending
  BY Zenon DEF InEscape
<1>3. PICK e, w, rest : /\ WholeEscape(e) /\ Whole(w) /\ PrimitiveType(w) # "ESC"
                        /\ Between(e, dec.buffer, rest)
                        /\ line = rest \o w
  BY Zenon DEF InEscape
<1>4. rest \in Seq(Bit) /\ rest # <<>> /\ w \in Seq(Bit) /\ Whole(e)
  BY <1>3, Zenon DEF Between, Whole, WholeEscape
<1>5. Head(line) = Head(rest) /\ Tail(line) = Tail(rest) \o w
  BY <1>3, <1>4, HeadOfConcat, Zenon
<1> DEFINE heard == Append(dec.buffer, Head(rest))
<1>6. raw = heard
  BY <1>5, Zenon
<1>7. /\ Tail(rest) = <<>> => heard = e
      /\ Tail(rest) # <<>> => Between(e, heard, Tail(rest)) /\ ~Complete(heard)
  BY <1>3, <1>4, OneBitOn, Zenon
<1> HIDE DEF raw, heard
<1>8. CASE Tail(rest) = <<>>
  <2>1. Complete(raw)
    BY <1>4, <1>6, <1>7, <1>8, Zenon DEF Whole
  <2>2. line' = w
    BY <1>1, <1>4, <1>5, <1>8, ConcatEmptySeq, Zenon
  <2>3. Between(w, <<>>, w)
    BY <1>3, NotBegun, Zenon
  <2> QED
    BY <1>1, <1>3, <2>1, <2>2, <2>3, Zenon DEF InPrimitive
<1>9. CASE Tail(rest) # <<>>
  <2>1. dec'.buffer = heard /\ ~dec'.pending /\ line' = Tail(rest) \o w
    BY <1>1, <1>2, <1>5, <1>6, <1>7, <1>9, Zenon
  <2> QED
    BY <1>3, <1>7, <1>9, <2>1, Zenon DEF InEscape
<1> QED
  BY <1>8, <1>9

\* Every step keeps the decoder in step, or cuts a character.
LEMMA InStepInductive ==
  ASSUME NoBareEscape, TypeInv, InStep, [Next]_vars
  PROVE  InStep'
<1>1. ASSUME NEW e \in Event, FeedEvent(e) PROVE InStep'
  <2>1. /\ line' = line
        /\ Falls => dec' = NewDecoder /\ cut' = (cut \/ line # <<>>)
        /\ ~Falls => dec' = dec /\ cut' = cut
    BY <1>1, EventFed, Zenon
  <2>2. CASE Falls
    <3>1. NewDecoder.buffer = <<>> /\ ~NewDecoder.pending
      BY DEF NewDecoder
    <3>2. dec'.buffer = <<>> /\ ~dec'.pending
      BY <2>1, <2>2, <3>1, Zenon
    <3>3. ~cut' => line' = <<>>
      BY <2>1, <2>2, Zenon
    <3> QED
      BY <3>2, <3>3, Zenon DEF InStep, AtBoundary
  <2>3. CASE ~Falls
    <3>1. line' = line /\ dec' = dec /\ cut' = cut
      BY <2>1, <2>3, Zenon
    <3>2. /\ AtBoundary => AtBoundary'
          /\ InPrimitive => InPrimitive'
          /\ InEscape => InEscape'
      BY <3>1, Zenon DEF AtBoundary, InPrimitive, InEscape
    <3> QED
      BY <3>1, <3>2, Zenon DEF InStep
  <2> QED
    BY <2>2, <2>3
<1>2. ASSUME NEW r \in Requests, r \in Request, PeerSends(r) PROVE InStep'
  <2>1. r.type # "ESC"
    BY <1>2, Zenon DEF NoBareEscape
  <2>2. line = <<>> /\ cut' = cut
    BY <1>2, Zenon DEF PeerSends
  <2>3. ~cut => AtBoundary
    BY <2>2, InsideIsAhead, Zenon DEF InStep
  <2>4. AtBoundary => InPrimitive' \/ InEscape'
    BY <1>2, <2>1, InStepSends, Zenon
  <2> QED
    BY <2>2, <2>3, <2>4, Zenon DEF InStep
<1>3. CASE HearBit
  <2>1. line # <<>> /\ cut' = cut
    BY <1>3, BitHeard, Zenon
  <2>2. ~cut => InPrimitive \/ InEscape
    BY <2>1, Zenon DEF InStep, AtBoundary
  <2> QED
    BY <1>3, <2>1, <2>2, InStepPrimitive, InStepEscape, Zenon DEF InStep
<1>4. CASE PeerResets \/ UNCHANGED vars
  BY <1>4, Zenon DEF PeerResets, vars, InStep, AtBoundary, InPrimitive, InEscape
<1> QED
  BY <1>1, <1>2, <1>3, <1>4, StepCases, Zenon

\* Whatever characters, errors and resets there were: as long as no timer or command
\* has reset the parser in the middle of one, it has nothing left over when the peer
\* has ended a character (link.py:187-211, characters.py:640-735).
THEOREM AlwaysInStepUnlessCut ==
  ASSUME NoBareEscape
  PROVE  Spec => []InStepUnlessCut
<1>1. Init => InStep
  <2>1. NewDecoder.buffer = <<>> /\ ~NewDecoder.pending
    BY DEF NewDecoder
  <2> QED
    BY <2>1, Zenon DEF Init, InStep, AtBoundary
<1>2. TypeInv /\ InStep /\ [Next]_vars => InStep'
  BY InStepInductive
<1>3. InStep => InStepUnlessCut
  BY InsideIsAhead, Zenon DEF InStep, AtBoundary, InStepUnlessCut
<1> QED
  BY <1>1, <1>2, <1>3, TypeAlways, PTL DEF Spec

-----------------------------------------------------------------------------
\* A control primitive says ESC with the content 11 and FCT with 00.
LEMMA EscapeAndFct ==
  ASSUME NEW w, Whole(w), Len(w) = 4
  PROVE  /\ w[2] = 1
         /\ PrimitiveType(w) = "ESC" <=> w[3] = 1 /\ w[4] = 1
         /\ PrimitiveType(w) = "FCT" => w[3] = 0 /\ w[4] = 0
<1>1. w \in Seq(Bit) /\ w[2] = 1
  BY DEF Whole, Complete
<1>2. SubSeq(w, 3, 4) = <<w[3], w[4]>> /\ w[3] \in Bit /\ w[4] \in Bit
  BY <1>1, ContentOfFour
<1>3. PICK t \in ControlType : ControlContent[t] = <<w[3], w[4]>>
  BY <1>2, ContentBits
<1>4. PrimitiveType(w) = t
  BY <1>1, <1>2, <1>3, ContentBits, 1 # 0, Zenon DEF PrimitiveType
<1>5. /\ ControlContent["FCT"] = <<0, 0>> /\ ControlContent["EOP"] = <<0, 1>>
      /\ ControlContent["EEP"] = <<1, 0>> /\ ControlContent["ESC"] = <<1, 1>>
  BY DEF ControlContent
<1>6. t = "FCT" => w[3] = 0 /\ w[4] = 0
  BY <1>3, <1>5
<1>7. t = "ESC" <=> w[3] = 1 /\ w[4] = 1
  BY <1>3, <1>5 DEF ControlType
<1> QED
  BY <1>1, <1>4, <1>6, <1>7, Zenon

\* A stream that ends where a character of the peer ends, whatever bit it begins
\* with: of its control characters and NULLs the third bit from the end of each
\* primitive is the flag, and an ESC is followed by an FCT.
FlagBits(s) == \A i \in 1 .. Len(s) : (Len(s) - i) % 4 = 2 => s[i] = 1

NullsWhole(s) ==
  \A i \in 1 .. Len(s) :
    (Len(s) - i) % 4 = 1 /\ s[i] = 1 /\ s[i + 1] = 1 => i + 4 <= Len(s) /\ s[i + 4] = 0

\* Positions counted from the end of a stream.
LEMMA FromTheEnd ==
  /\ \A n, m, i \in Nat : (n + m) - (n + i) = m - i
  /\ \A n, i \in Nat : i <= n => ((n + 4) - i) % 4 = (n - i) % 4 /\ ((n + 8) - i) % 4 = (n - i) % 4
  /\ \A n, i \in Nat : i <= n /\ (n - i) % 4 = 1 => i + 1 <= n
  /\ \A n, i \in Nat : i <= n /\ (n - i) % 4 = 2 => i + 2 <= n
OBVIOUS

\* The decoder takes the stream from its front,
LEMMA TailOfStream ==
  ASSUME NEW s \in Seq(Bit), NEW t \in Seq(Bit), FlagBits(s \o t), NullsWhole(s \o t)
  PROVE  FlagBits(t) /\ NullsWhole(t)
<1> DEFINE c == s \o t
           n == Len(s)
           m == Len(t)
<1>1. /\ n \in Nat /\ m \in Nat /\ Len(c) = n + m
      /\ \A i \in 1 .. n + m : c[i] = IF i <= n THEN s[i] ELSE t[i - n]
  BY BitsConcat, LenProperties, Zenon
<1>2. \A i \in 1 .. m : c[n + i] = t[i]
  BY <1>1
<1> HIDE DEF c, n, m
<1>3. FlagBits(c) /\ NullsWhole(c)
  BY DEF c
<1>4. FlagBits(t)
  <2> SUFFICES ASSUME NEW i \in 1 .. m, (m - i) % 4 = 2 PROVE t[i] = 1
    BY DEF FlagBits, m
  <2>1. n + i \in 1 .. n + m /\ (n + m) - (n + i) = m - i
    BY <1>1
  <2>2. c[n + i] = 1
    BY <1>1, <1>3, <2>1, Zenon DEF FlagBits
  <2> QED
    BY <1>2, <2>2
<1>5. NullsWhole(t)
  <2> SUFFICES ASSUME NEW i \in 1 .. m, (m - i) % 4 = 1, t[i] = 1, t[i + 1] = 1
               PROVE  i + 4 <= m /\ t[i + 4] = 0
    BY DEF NullsWhole, m
  <2>0. i \in Nat /\ i <= m /\ i + 1 <= m
    BY <1>1, FromTheEnd
  <2>1. /\ n + i \in 1 .. n + m /\ (n + m) - (n + i) = m - i
        /\ i + 1 \in 1 .. m /\ n + (i + 1) = (n + i) + 1
    BY <1>1, <2>0
  <2>2. c[n + i] = 1 /\ c[(n + i) + 1] = 1
    BY <1>2, <2>1
  <2>3. (n + i) + 4 <= n + m /\ c[(n + i) + 4] = 0
    BY <1>1, <1>3, <2>1, <2>2, Zenon DEF NullsWhole
  <2>4. i + 4 \in 1 .. m /\ n + (i + 4) = (n + i) + 4
    BY <1>1, <2>3
  <2> QED
    BY <1>2, <2>3, <2>4
<1> QED
  BY <1>4, <1>5

\* and the peer adds whole characters at its end.
LEMMA StreamGoesOn ==
  ASSUME NEW s \in Seq(Bit), NEW t \in Seq(Bit), Len(t) \in {4, 8},
         FlagBits(s), NullsWhole(s), FlagBits(t), NullsWhole(t)
  PROVE  FlagBits(s \o t) /\ NullsWhole(s \o t)
<1> DEFINE c == s \o t
           n == Len(s)
           m == Len(t)
<1>1. /\ n \in Nat /\ m \in Nat /\ m \in {4, 8} /\ Len(c) = n + m
      /\ \A i \in 1 .. n + m : c[i] = IF i <= n THEN s[i] ELSE t[i - n]
  BY BitsConcat, LenProperties, Zenon
<1>2. /\ \A i \in 1 .. n : c[i] = s[i]
      /\ \A i \in 1 .. m : c[n + i] = t[i]
  BY <1>1
<1> HIDE DEF c, n, m
<1>3. ASSUME NEW i \in 1 .. n + m
      PROVE  \/ i \in 1 .. n /\ ((n + m) - i) % 4 = (n - i) % 4
             \/ \E j \in 1 .. m : i = n + j /\ (n + m) - i = m - j
  <2>1. CASE i <= n
    <3>1. i \in Nat /\ i \in 1 .. n
      BY <1>1, <2>1
    <3>2. ((n + m) - i) % 4 = (n - i) % 4
      BY <1>1, <2>1, <3>1, FromTheEnd, Zenon
    <3> QED
      BY <3>1, <3>2
  <2>2. CASE ~(i <= n)
    <3>1. i - n \in 1 .. m /\ i = n + (i - n) /\ (n + m) - i = m - (i - n)
      BY <1>1, <2>2
    <3> QED
      BY <3>1, Zenon
  <2> QED
    BY <2>1, <2>2
<1>4. ASSUME NEW i \in 1 .. n + m, ((n + m) - i) % 4 = 2 PROVE c[i] = 1
  <2>1. CASE i \in 1 .. n /\ ((n + m) - i) % 4 = (n - i) % 4
    <3>1. s[i] = 1
      BY <1>4, <2>1, Zenon DEF FlagBits, n
    <3> QED
      BY <1>2, <2>1, <3>1, Zenon
  <2>2. ASSUME NEW j \in 1 .. m, i = n + j, (n + m) - i = m - j PROVE c[i] = 1
    <3>1. t[j] = 1
      BY <1>4, <2>2, Zenon DEF FlagBits, m
    <3> QED
      BY <1>2, <2>2, <3>1, Zenon
  <2> QED
    BY <1>3, <2>1, <2>2, Zenon
<1>5. ASSUME NEW i \in 1 .. n + m, ((n + m) - i) % 4 = 1, c[i] = 1, c[i + 1] = 1
      PROVE  i + 4 <= n + m /\ c[i + 4] = 0
  <2>1. CASE i \in 1 .. n /\ ((n + m) - i) % 4 = (n - i) % 4
    <3>1. (n - i) % 4 = 1
      BY <1>5, <2>1, Zenon
    <3>2. i + 1 \in 1 .. n
      BY <1>1, <2>1, <3>1
    <3>3. s[i] = 1 /\ s[i + 1] = 1
      BY <1>2, <1>5, <2>1, <3>2, Zenon
    <3>4. i + 4 <= n /\ s[i + 4] = 0
      BY <2>1, <3>1, <3>3, Zenon DEF NullsWhole, n
    <3>5. i + 4 \in 1 .. n /\ i + 4 <= n + m
      BY <1>1, <3>4
    <3> QED
      BY <1>2, <3>4, <3>5, Zenon
  <2>2. ASSUME NEW j \in 1 .. m, i = n + j, (n + m) - i = m - j
        PROVE  i + 4 <= n + m /\ c[i + 4] = 0
    <3>1. (m - j) % 4 = 1
      BY <1>5, <2>2, Zenon
    <3>2. j + 1 \in 1 .. m /\ i + 1 = n + (j + 1)
      BY <1>1, <2>2, <3>1
    <3>3. t[j] = 1 /\ t[j + 1] = 1
      BY <1>2, <1>5, <2>2, <3>2, Zenon
    <3>4. j + 4 <= m /\ t[j + 4] = 0
      BY <3>1, <3>3, Zenon DEF NullsWhole, m
    <3>5. j + 4 \in 1 .. m /\ i + 4 = n + (j + 4) /\ i + 4 <= n + m
      BY <1>1, <2>2, <3>4
    <3> QED
      BY <1>2, <3>4, <3>5, Zenon
  <2> QED
    BY <1>3, <2>1, <2>2, Zenon
<1>6. FlagBits(c)
  BY <1>1, <1>4, Zenon DEF FlagBits
<1>7. NullsWhole(c)
  BY <1>1, <1>5, Zenon DEF NullsWhole
<1> QED
  BY <1>6, <1>7 DEF c

\* What the peer adds, as long as it sends control characters and NULLs.
LEMMA ControlRequests ==
  ASSUME NEW enc, Chain(enc), NEW r \in Request,
         r.type \in ControlType \cup {"NULL"}, r.type # "ESC"
  PROVE  LET b == Encode(enc, r).bits
         IN  b \in Seq(Bit) /\ Len(b) \in {4, 8} /\ FlagBits(b) /\ NullsWhole(b)
<1> DEFINE b == Encode(enc, r).bits
<1>1. b \in Seq(Bit)
  BY EncodedType
<1>2. /\ r.type \in ControlType => Whole(b) /\ PrimitiveType(b) = r.type
      /\ r.type = "NULL" => Escaped(b, "FCT")
  BY EncodedBits, Zenon
<1> HIDE DEF b
<1>3. ASSUME r.type \in ControlType
      PROVE  Len(b) \in {4, 8} /\ FlagBits(b) /\ NullsWhole(b)
  <2>1. Whole(b) /\ PrimitiveType(b) # "ESC" /\ PrimitiveType(b) # "DATA"
    BY <1>2, <1>3 DEF ControlType
  <2>2. Len(b) = 4
    BY <2>1, TypeOfWhole, Zenon
  <2>3. b[2] = 1 /\ ~(b[3] = 1 /\ b[4] = 1)
    BY <2>1, <2>2, EscapeAndFct, Zenon
  <2>4. /\ \A i \in 1 .. 4 : (4 - i) % 4 = 2 => i = 2
        /\ \A i \in 1 .. 4 : (4 - i) % 4 = 1 => i = 3
    OBVIOUS
  <2>5. \A i \in 1 .. 4 : (4 - i) % 4 = 1 => ~(b[i] = 1 /\ b[i + 1] = 1)
    <3> SUFFICES ASSUME NEW i \in 1 .. 4, (4 - i) % 4 = 1 PROVE ~(b[i] = 1 /\ b[i + 1] = 1)
      OBVIOUS
    <3>1. i = 3 /\ i + 1 = 4
      BY <2>4
    <3> QED
      BY <2>3, <3>1, Zenon
  <2> QED
    BY <2>2, <2>3, <2>4, <2>5 DEF FlagBits, NullsWhole
<1>4. ASSUME r.type = "NULL"
      PROVE  Len(b) \in {4, 8} /\ FlagBits(b) /\ NullsWhole(b)
  <2>1. PICK e, w : WholeEscape(e) /\ Whole(w) /\ PrimitiveType(w) = "FCT" /\ b = e \o w
    BY <1>2, <1>4, Zenon DEF Escaped
  <2>2. /\ Whole(e) /\ Len(e) = 4 /\ e \in Seq(Bit) /\ w \in Seq(Bit)
        /\ Len(w) = 4
    BY <2>1, TypeOfWhole, "FCT" # "DATA", Zenon DEF WholeEscape, Whole
  <2>3. e[2] = 1 /\ w[2] = 1 /\ w[3] = 0 /\ w[4] = 0
    BY <2>1, <2>2, EscapeAndFct, Zenon
  <2>4. /\ Len(b) = Len(e) + Len(w)
        /\ \A i \in 1 .. Len(e) + Len(w) : b[i] = IF i <= Len(e) THEN e[i] ELSE w[i - Len(e)]
    BY <2>1, <2>2, BitsConcat, Zenon
  <2>5. Len(b) = 8 /\ b[2] = 1 /\ b[6] = 1 /\ b[7] = 0
    BY <2>2, <2>3, <2>4
  <2>6. /\ \A i \in 1 .. 8 : (8 - i) % 4 = 2 => i = 2 \/ i = 6
        /\ \A i \in 1 .. 8 : (8 - i) % 4 = 1 => i = 3 \/ i = 7
        /\ 3 + 4 = 7 /\ 7 <= 8 /\ 0 # 1
    OBVIOUS
  <2>7. FlagBits(b)
    BY <2>5, <2>6, Zenon DEF FlagBits
  <2>8. NullsWhole(b)
    BY <2>5, <2>6, Zenon DEF NullsWhole
  <2> QED
    BY <2>5, <2>7, <2>8
<1> QED
  BY <1>1, <1>3, <1>4 DEF b

-----------------------------------------------------------------------------
\* What the decoder has taken of its primitive and what it will be given of the
\* peer's request.
Stream == dec.buffer \o line

\* Where the decoder takes the flag of a primitive for its parity bit, a held ESC is
\* followed by what looks to it like data.
StreamInv ==
  ~data => /\ FlagBits(Stream) /\ NullsWhole(Stream)
           /\ dec.pending /\ Len(Stream) % 4 = 3 => Stream[2] = 0

\* A resolved NULL is an FCT after a held ESC, and no event but its own sets gotNULL.
LEMMA NullResolved ==
  ASSUME NEW d, NEW w, Whole(w), NEW f \in FsmRecord, f = fsm,
         NEW g \in Heard(Resolve(d, w)), g.gotNull, ~f.gotNull
  PROVE  d.pending /\ PrimitiveType(w) = "FCT"
<1>1. \A x \in FsmRecord, e \in Event : Feed(x, e) \in FsmRecord
                                        /\ (Feed(x, e).gotNull => x.gotNull \/ e = "GOT_NULL")
  BY FeedEffect, Zenon
<1>2. "CREDIT_ERR" \in Event /\ "CREDIT_ERR" # "GOT_NULL"
  BY DEF Event
<1>3. Heard(<<>>) = {fsm}
  BY Zenon DEF Heard
<1>4. \A c : Heard(<<c>>) \subseteq {Feed(fsm, EventOf(c)), Feed(Feed(fsm, EventOf(c)), "CREDIT_ERR")}
  BY DEF Heard
<1>5. PICK c : Resolve(d, w) = <<c>> /\ EventOf(c) \in Event
  BY <1>3, EventOfResolved, Zenon
<1>6. EventOf(c) = "GOT_NULL"
  BY <1>1, <1>2, <1>4, <1>5, Zenon
<1>7. c.type = "NULL"
  BY <1>6, Zenon DEF EventOf
<1>8. PrimitiveType(w) \in ControlType \cup {"DATA"}
  BY TypeOfWhole, Zenon
<1>9. \A x, y : <<x>> = <<y>> => x = y
  OBVIOUS
<1>10. d.pending
  <2>1. ASSUME ~d.pending PROVE c.type = PrimitiveType(w)
    <3>1. PrimitiveType(w) # "ESC"
      BY <1>5, <2>1 DEF Resolve
    <3>2. Resolve(d, w) = <<[type |-> PrimitiveType(w), value |-> PrimitiveValue(w),
                             errors |-> ParityErrors(d, w)]>>
      BY <2>1, <3>1, Zenon DEF Resolve
    <3>3. c = [type |-> PrimitiveType(w), value |-> PrimitiveValue(w),
               errors |-> ParityErrors(d, w)]
      BY <1>5, <1>9, <3>2, Zenon
    <3> QED
      BY <3>3, Zenon
  <2> QED
    BY <1>7, <1>8, <2>1 DEF ControlType
<1>11. c.type = EscapedType(w)
  <2>1. Resolve(d, w) = <<[type |-> EscapedType(w), value |-> PrimitiveValue(w),
                           errors |-> HeldErrors(d) \cup ParityErrors(d, w) \cup EscapedErrors(w)]>>
    BY <1>10, Zenon DEF Resolve
  <2>2. c = [type |-> EscapedType(w), value |-> PrimitiveValue(w),
             errors |-> HeldErrors(d) \cup ParityErrors(d, w) \cup EscapedErrors(w)]
    BY <1>5, <1>9, <2>1, Zenon
  <2> QED
    BY <2>2, Zenon
<1>12. PrimitiveType(w) # "FCT" => EscapedType(w) # "NULL"
  BY <1>8 DEF EscapedType, ControlType
<1> QED
  BY <1>7, <1>10, <1>11, <1>12, Zenon

\* A bit moves from the line to the buffer, and a whole primitive out of the stream.
LEMMA StreamHeard ==
  ASSUME TypeInv, HearBit
  PROVE  LET raw == Append(dec.buffer, Head(line))
         IN  /\ Stream = raw \o Tail(line) /\ Stream \in Seq(Bit)
             /\ \A i \in 1 .. Len(raw) : Stream[i] = raw[i]
             /\ Complete(raw) => Stream' = Tail(line)
             /\ ~Complete(raw) => Stream' = Stream
<1> DEFINE b == dec.buffer
           h == <<Head(line)>>
           t == Tail(line)
           raw == Append(dec.buffer, Head(line))
<1>1. /\ line # <<>> /\ line' = t
      /\ raw \in Seq(Bit)
      /\ Complete(raw) => dec'.buffer = <<>>
      /\ ~Complete(raw) => dec'.buffer = raw
  BY BitHeard, Zenon
<1>2. line \in Seq(Bit) /\ b \in Seq(Bit)
  BY Zenon DEF TypeInv, DecoderRecord
<1>3. Head(line) \in Bit /\ h \in Seq(Bit) /\ t \in Seq(Bit) /\ h \o t = line
  BY <1>1, <1>2, HeadAndTail, Zenon
<1>4. raw = b \o h
  BY <1>2, <1>3, AppendIsConcat, Zenon
<1> HIDE DEF h, t, b, raw
<1>5. raw \o t = b \o (h \o t)
  <2>1. b \in Seq(Bit) /\ h \in Seq(Bit) /\ t \in Seq(Bit)
    BY <1>2, <1>3, Zenon
  <2>2. (b \o h) \o t = b \o (h \o t)
    BY <2>1, BitsConcat
  <2> QED
    BY <1>4, <2>2, Zenon
<1>6. Stream = raw \o t
  BY <1>3, <1>5, Zenon DEF Stream, b
<1>7. Stream \in Seq(Bit)
  BY <1>1, <1>3, <1>6, BitsConcat, Zenon
<1>8. \A i \in 1 .. Len(raw) : Stream[i] = raw[i]
  <2>1. Len(raw) \in Nat /\ Len(t) \in Nat
    BY <1>1, <1>3, LenProperties, Zenon
  <2>2. \A i \in 1 .. Len(raw) + Len(t) :
          (raw \o t)[i] = IF i <= Len(raw) THEN raw[i] ELSE t[i - Len(raw)]
    BY <1>1, <1>3, BitsConcat, Zenon
  <2> QED
    BY <1>6, <2>1, <2>2
<1>9. Complete(raw) => Stream' = t
  <2>1. <<>> \o t = t
    BY <1>3, ConcatEmptySeq, Zenon
  <2> QED
    BY <1>1, <2>1, Zenon DEF Stream
<1>10. ~Complete(raw) => Stream' = Stream
  BY <1>1, <1>6, Zenon DEF Stream
<1> QED
  BY <1>6, <1>7, <1>8, <1>9, <1>10, Zenon DEF raw, t

\* Lengths of streams out of phase.
LEMMA OddStreams ==
  /\ \A m, n \in Nat : m % 4 = 3 /\ n = 4 + m => 2 \in 1 .. n /\ (n - 2) % 4 = 1
  /\ \A m, n \in Nat : n % 4 = 3 /\ (n = m + 4 \/ n = m + 8) => m % 4 = 3 /\ 2 <= m
OBVIOUS

\* A bit: an ESC is held out of phase only when an FCT follows it in the stream.
LEMMA StreamBit ==
  ASSUME TypeInv, HearBit, StreamInv
  PROVE  StreamInv'
<1> DEFINE raw == Append(dec.buffer, Head(line))
           t == Tail(line)
<1>1. /\ data' = data
      /\ raw \in Seq(Bit) /\ t \in Seq(Bit)
      /\ Complete(raw) => Whole(raw) /\ (dec'.pending <=> Holds(dec, raw))
      /\ ~Complete(raw) => dec'.pending = dec.pending
  BY BitHeard, Zenon
<1>2. /\ Stream = raw \o t /\ Stream \in Seq(Bit)
      /\ \A i \in 1 .. Len(raw) : Stream[i] = raw[i]
      /\ Complete(raw) => Stream' = t
      /\ ~Complete(raw) => Stream' = Stream
  BY StreamHeard, Zenon
<1> HIDE DEF raw, t
<1>3. CASE ~Complete(raw)
  BY <1>1, <1>2, <1>3, Zenon DEF StreamInv
<1>4. CASE Complete(raw) /\ ~data
  <2>1. FlagBits(Stream) /\ NullsWhole(Stream)
    BY <1>4, Zenon DEF StreamInv
  <2>2. FlagBits(t) /\ NullsWhole(t)
    BY <1>1, <1>2, <2>1, TailOfStream, Zenon
  <2>3. ASSUME dec'.pending, Len(t) % 4 = 3 PROVE t[2] = 0
    <3>1. Whole(raw) /\ PrimitiveType(raw) = "ESC"
      BY <1>1, <1>4, <2>3, Zenon DEF Holds
    <3>2. Len(raw) = 4
      BY <3>1, TypeOfWhole, "ESC" # "DATA", Zenon
    <3>3. raw[2] = 1 /\ raw[3] = 1
      BY <3>1, <3>2, EscapeAndFct, Zenon
    <3>4. Stream[2] = 1 /\ Stream[3] = 1
      <4>1. 2 \in 1 .. 4 /\ 3 \in 1 .. 4
        OBVIOUS
      <4> QED
        BY <1>2, <3>2, <3>3, <4>1, Zenon
    <3>5. /\ Len(Stream) = Len(raw) + Len(t) /\ Len(t) \in Nat
          /\ \A i \in 1 .. Len(raw) + Len(t) : Stream[i] = IF i <= Len(raw) THEN raw[i] ELSE t[i - Len(raw)]
      <4>1. raw \in Seq(Bit) /\ t \in Seq(Bit) /\ Stream = raw \o t
        BY <1>1, <1>2, Zenon
      <4> QED
        BY <4>1, BitsConcat, LenProperties, Zenon
    <3>6. 2 \in 1 .. Len(Stream) /\ (Len(Stream) - 2) % 4 = 1
      <4>1. Len(Stream) = 4 + Len(t) /\ Len(Stream) \in Nat
        BY <1>2, <3>2, <3>5, LenProperties, Zenon
      <4> QED
        BY <2>3, <3>5, <4>1, OddStreams, Zenon
    <3>7. 2 + 4 <= Len(Stream) /\ Stream[2 + 4] = 0
      BY <2>1, <3>4, <3>6, 2 + 1 = 3, Zenon DEF NullsWhole
    <3> QED
      BY <3>2, <3>5, <3>7
  <2> QED
    BY <1>1, <1>2, <1>4, <2>2, <2>3, Zenon DEF StreamInv
<1>5. CASE data
  BY <1>1, <1>5, Zenon DEF StreamInv
<1> QED
  BY <1>3, <1>4, <1>5, Zenon

\* A request: the stream goes on with whole control characters and NULLs.
LEMMA StreamSends ==
  ASSUME TypeInv, StreamInv, NEW r \in Request, r.type # "ESC", PeerSends(r)
  PROVE  StreamInv'
<1> DEFINE b == Encode(peer, r).bits
<1>1. /\ line = <<>> /\ line' = b /\ dec' = dec /\ Chain(peer)
      /\ data' = (data \/ r.type \notin ControlType \cup {"NULL"})
      /\ data \in BOOLEAN
  BY Zenon DEF PeerSends, TypeInv
<1>2. dec.buffer \in Seq(Bit)
  BY Zenon DEF TypeInv, DecoderRecord
<1>3. Stream = dec.buffer /\ Stream' = dec.buffer \o b
  BY <1>1, <1>2, ConcatEmptySeq, Zenon DEF Stream
<1>4. Stream \in Seq(Bit)
  BY <1>2, <1>3, Zenon
<1> HIDE DEF b
<1>5. ASSUME ~data' PROVE /\ FlagBits(Stream') /\ NullsWhole(Stream')
                          /\ dec'.pending /\ Len(Stream') % 4 = 3 => Stream'[2] = 0
  <2>1. ~data /\ r.type \in ControlType \cup {"NULL"}
    BY <1>1, <1>5, Zenon
  <2>2. b \in Seq(Bit) /\ Len(b) \in {4, 8} /\ FlagBits(b) /\ NullsWhole(b)
    BY <1>1, <2>1, ControlRequests, Zenon DEF b
  <2>3. /\ FlagBits(Stream) /\ NullsWhole(Stream)
        /\ dec.pending /\ Len(Stream) % 4 = 3 => Stream[2] = 0
    BY <2>1, Zenon DEF StreamInv
  <2>4. FlagBits(Stream') /\ NullsWhole(Stream')
    BY <1>3, <1>4, <2>2, <2>3, StreamGoesOn, Zenon
  <2>5. ASSUME dec'.pending, Len(Stream') % 4 = 3 PROVE Stream'[2] = 0
    <3>1. /\ Len(Stream) \in Nat /\ Len(Stream') = Len(Stream) + Len(b)
          /\ \A i \in 1 .. Len(Stream) + Len(b) :
               (Stream \o b)[i] = IF i <= Len(Stream) THEN Stream[i] ELSE b[i - Len(Stream)]
      BY <1>3, <1>4, <2>2, BitsConcat, LenProperties, Zenon
    <3>2. Len(Stream) % 4 = 3 /\ 2 <= Len(Stream)
      <4>1. Len(Stream') \in Nat
        BY <1>3, <1>4, <2>2, BitsConcat, LenProperties, Zenon
      <4>2. Len(Stream') = Len(Stream) + 4 \/ Len(Stream') = Len(Stream) + 8
        BY <2>2, <3>1, Zenon
      <4> QED
        BY <2>5, <3>1, <4>1, <4>2, OddStreams, Zenon
    <3>3. Stream[2] = 0
      BY <1>1, <2>3, <2>5, <3>2, Zenon
    <3>4. 2 \in 1 .. Len(Stream) + Len(b)
      BY <2>2, <3>1, <3>2
    <3>5. (Stream \o b)[2] = 0
      BY <3>1, <3>2, <3>3, <3>4, Zenon
    <3> QED
      BY <1>3, <3>5, Zenon
  <2> QED
    BY <2>4, <2>5, Zenon
<1> QED
  BY <1>5, Zenon DEF StreamInv

\* Every step keeps the stream one of whole control characters and NULLs at its end.
LEMMA StreamInductive ==
  ASSUME NoBareEscape, TypeInv, StreamInv, [Next]_vars
  PROVE  StreamInv'
<1>1. line \in Seq(Bit) /\ dec.buffer \in Seq(Bit) /\ data \in BOOLEAN
  BY Zenon DEF TypeInv, DecoderRecord
<1>2. FlagBits(<<>>) /\ NullsWhole(<<>>)
  BY DEF FlagBits, NullsWhole
<1>3. ASSUME NEW e \in Event, FeedEvent(e) PROVE StreamInv'
  <2>1. /\ line' = line
        /\ Falls => dec' = NewDecoder /\ data' = (data /\ line # <<>>)
        /\ ~Falls => dec' = dec /\ data' = data
    BY <1>3, EventFed, Zenon
  <2>2. CASE Falls
    <3>1. NewDecoder.buffer = <<>> /\ ~NewDecoder.pending
      BY DEF NewDecoder
    <3>2. dec'.buffer = <<>> /\ ~dec'.pending
      BY <2>1, <2>2, <3>1, Zenon
    <3>3. Stream' = line
      <4>1. <<>> \o line = line
        BY <1>1, ConcatEmptySeq, Zenon
      <4> QED
        BY <2>1, <3>2, <4>1, Zenon DEF Stream
    <3>4. CASE line = <<>>
      BY <1>2, <3>2, <3>3, <3>4, Zenon DEF StreamInv
    <3>5. CASE line # <<>>
      <4>1. ~data => FlagBits(line) /\ NullsWhole(line)
        BY <1>1, TailOfStream, Zenon DEF StreamInv, Stream
      <4> QED
        BY <2>1, <2>2, <3>2, <3>3, <3>5, <4>1, Zenon DEF StreamInv
    <3> QED
      BY <3>4, <3>5, Zenon
  <2>3. CASE ~Falls
    <3>1. Stream' = Stream /\ dec' = dec /\ data' = data
      BY <2>1, <2>3, Zenon DEF Stream
    <3> QED
      BY <3>1, Zenon DEF StreamInv
  <2> QED
    BY <2>2, <2>3, Zenon
<1>4. ASSUME NEW r \in Requests, r \in Request, PeerSends(r) PROVE StreamInv'
  <2>1. r.type # "ESC"
    BY Zenon DEF NoBareEscape
  <2> QED
    BY <1>4, <2>1, StreamSends, Zenon
<1>5. CASE PeerResets \/ UNCHANGED vars
  <2>1. Stream' = Stream /\ dec' = dec /\ data' = data
    BY <1>5, Zenon DEF PeerResets, vars, Stream
  <2> QED
    BY <2>1, Zenon DEF StreamInv
<1>6. CASE HearBit
  BY <1>6, StreamBit
<1> QED
  BY <1>3, <1>4, <1>5, <1>6, StepCases, Zenon


\* Out of phase no bit completes an FCT that an ESC is held for.
LEMMA DeafBit ==
  ASSUME TypeInv, StreamInv, HearBit, OutOfPhase, ~data, ~fsm.gotNull
  PROVE  ~fsm'.gotNull
<1> DEFINE raw == Append(dec.buffer, Head(line))
           t == Tail(line)
<1>1. /\ fsm \in FsmRecord
      /\ raw \in Seq(Bit) /\ t \in Seq(Bit)
      /\ Complete(raw) => Whole(raw) /\ fsm' \in Heard(Resolve(dec, raw))
      /\ ~Complete(raw) => fsm' = fsm
  BY BitHeard, Zenon DEF TypeInv
<1>2. /\ Stream = raw \o t /\ Stream \in Seq(Bit)
      /\ \A i \in 1 .. Len(raw) : Stream[i] = raw[i]
  BY StreamHeard, Zenon
<1>3. Len(Stream) \in Nat /\ Len(Stream) % 2 = 1
  <2>1. line \in Seq(Bit) /\ dec.buffer \in Seq(Bit)
    BY Zenon DEF TypeInv, DecoderRecord
  <2>2. Len(Stream) = Gathered + Ahead /\ Gathered \in Nat /\ Ahead \in Nat
    BY <2>1, BitsConcat, LenProperties, Zenon DEF Stream, Gathered, Ahead
  <2>3. (Ahead + Gathered) % 2 = 1
    BY Zenon DEF OutOfPhase, Gathered, Ahead
  <2> QED
    BY <2>2, <2>3
<1>4. \A n \in Nat : n % 2 = 1 => n % 4 = 3 \/ (n % 4 = 1 /\ (n >= 3 => (n - 3) % 4 = 2))
  OBVIOUS
<1> HIDE DEF raw, t
<1>5. SUFFICES ASSUME Whole(raw), dec.pending, PrimitiveType(raw) = "FCT" PROVE FALSE
  <2>1. Complete(raw) /\ fsm'.gotNull => Whole(raw) /\ dec.pending /\ PrimitiveType(raw) = "FCT"
    BY <1>1, NullResolved, Zenon
  <2> QED
    BY <1>1, <2>1, Zenon
<1>6. Len(raw) = 4
  BY <1>5, TypeOfWhole, "FCT" # "DATA", Zenon
<1>7. raw[2] = 1 /\ raw[3] = 0
  BY <1>5, <1>6, EscapeAndFct, Zenon
<1>8. Stream[2] = 1 /\ Stream[3] = 0
  <2>1. 2 \in 1 .. 4 /\ 3 \in 1 .. 4
    OBVIOUS
  <2> QED
    BY <1>2, <1>6, <1>7, <2>1, Zenon
<1>9. CASE Len(Stream) % 4 = 3
  <2>1. Stream[2] = 0
    BY <1>5, <1>9, Zenon DEF StreamInv
  <2> QED
    BY <1>8, <2>1
<1>10. CASE Len(Stream) % 4 # 3
  <2>1. Len(Stream) = Len(raw) + Len(t) /\ Len(t) \in Nat
    BY <1>1, <1>2, BitsConcat, LenProperties, Zenon
  <2>2. Len(Stream) >= 3 /\ 3 \in 1 .. Len(Stream)
    BY <1>6, <2>1
  <2>3. (Len(Stream) - 3) % 4 = 2
    BY <1>3, <1>4, <1>10, <2>2, Zenon
  <2>4. Stream[3] = 1
    BY <2>2, <2>3, Zenon DEF StreamInv, FlagBits
  <2> QED
    BY <1>8, <2>4
<1> QED
  BY <1>9, <1>10

\* No step sets gotNULL out of phase, or leaves phase with it set.
LEMMA DeafInductive ==
  ASSUME NoBareEscape, TypeInv, StreamInv, DeafOutOfPhase, [Next]_vars
  PROVE  DeafOutOfPhase'
<1>1. ASSUME NEW e \in Event, e # "GOT_NULL", FeedEvent(e) PROVE DeafOutOfPhase'
  <2>1. /\ fsm' = Feed(fsm, e) /\ line' = line
        /\ ~Falls => dec' = dec /\ data' = data
    BY <1>1, EventFed, Zenon
  <2>2. /\ Falls => ~fsm'.gotNull
        /\ ~Falls => (fsm'.gotNull => fsm.gotNull)
    BY <1>1, <2>1, FeedEffect, Zenon DEF TypeInv, Falls
  <2>3. ~Falls => OutOfPhase' = OutOfPhase
    BY <2>1, Zenon DEF OutOfPhase
  <2> QED
    BY <2>1, <2>2, <2>3, Zenon DEF DeafOutOfPhase
<1>2. ASSUME NEW r \in Requests, r \in Request, PeerSends(r) PROVE DeafOutOfPhase'
  <2>1. fsm' = fsm /\ (~data' => ~data)
    BY <1>2, Zenon DEF PeerSends
  <2>2. OutOfPhase' => OutOfPhase
    <3>1. line = <<>>
      BY <1>2, Zenon DEF PeerSends
    <3> QED
      BY <3>1, PhaseStep, Zenon
  <2> QED
    BY <2>1, <2>2, Zenon DEF DeafOutOfPhase
<1>3. CASE PeerResets \/ UNCHANGED vars
  <2>1. OutOfPhase' = OutOfPhase /\ data' = data /\ fsm' = fsm
    BY <1>3, Zenon DEF PeerResets, vars, OutOfPhase
  <2> QED
    BY <2>1, Zenon DEF DeafOutOfPhase
<1>4. CASE HearBit
  <2>1. data' = data /\ line # <<>> /\ Len(line') = Len(line) - 1
    BY <1>4, BitHeard, Zenon
  <2>2. OutOfPhase' = OutOfPhase
    <3>1. Len(line) \in Nat
      BY LenProperties, Zenon DEF TypeInv
    <3>2. \A n \in Nat : n - 1 # n
      OBVIOUS
    <3>3. line' # line
      BY <2>1, <3>1, <3>2, Zenon
    <3> QED
      BY <3>3, PhaseStep, Zenon
  <2> QED
    BY <1>4, <2>1, <2>2, DeafBit, Zenon DEF DeafOutOfPhase
<1> QED
  BY <1>1, <1>2, <1>3, <1>4, StepCases, Zenon

\* Out of phase with the peer's NULLs, FCTs and other control characters the endpoint
\* decodes no NULL, whatever it makes of them: gotNULL is never set and no handshake
\* comes past Started, however long the peer goes on (characters.py:448-467,
\* link_fsm.py:275-281).
THEOREM AlwaysDeafOutOfPhase ==
  ASSUME NoBareEscape
  PROVE  Spec => []DeafOutOfPhase
<1>1. Init => StreamInv /\ DeafOutOfPhase
  <2>1. FlagBits(<<>>) /\ NullsWhole(<<>>)
    BY DEF FlagBits, NullsWhole
  <2>2. Init => Stream = <<>> /\ ~dec.pending /\ ~fsm.gotNull
    <3>1. NewDecoder.buffer = <<>> /\ ~NewDecoder.pending
      BY DEF NewDecoder
    <3>2. <<>> \o <<>> = <<>>
      OBVIOUS
    <3>3. ~[NewFsm EXCEPT !.linkStart = TRUE].gotNull
      BY DEF NewFsm
    <3> QED
      BY <3>1, <3>2, <3>3, Zenon DEF Init, Stream
  <2> QED
    BY <2>1, <2>2, Zenon DEF StreamInv, DeafOutOfPhase
<1>2. TypeInv /\ StreamInv /\ [Next]_vars => StreamInv'
  BY StreamInductive
<1>3. TypeInv /\ StreamInv /\ DeafOutOfPhase /\ [Next]_vars => DeafOutOfPhase'
  BY DeafInductive
<1> QED
  BY <1>1, <1>2, <1>3, TypeAlways, PTL DEF Spec
=============================================================================
