--------------------------- MODULE CodecLineProofs ----------------------------
(***************************************************************************)
(* CodecLine proved for every set of requests that the constructors of     *)
(* characters.py make and every offset of a bad parity: the round trip,    *)
(* and what becomes of a fault.                                            *)
(***************************************************************************)
EXTENDS CodecLine, LinkLemmas

-----------------------------------------------------------------------------
\* A byte sent least significant bit first is collected as it was.
LEMMA ByteOfBits == \A byte \in 0 .. 255 : LsbToByte(LsbBits(byte)) = byte
<1> SUFFICES ASSUME NEW byte \in 0 .. 255
             PROVE  LsbToByte(LsbBits(byte)) = byte
  OBVIOUS
<1>1. /\ 2 ^ (1 - 1) = 1 /\ 2 ^ (2 - 1) = 2 /\ 2 ^ (3 - 1) = 4 /\ 2 ^ (4 - 1) = 8
      /\ 2 ^ (5 - 1) = 16 /\ 2 ^ (6 - 1) = 32 /\ 2 ^ (7 - 1) = 64 /\ 2 ^ (8 - 1) = 128
  OBVIOUS
<1>2. \A v \in 0 .. 255 :
        v = ((v \div 1) % 2) + 2 * ((v \div 2) % 2) + 4 * ((v \div 4) % 2) + 8 * ((v \div 8) % 2)
            + 16 * ((v \div 16) % 2) + 32 * ((v \div 32) % 2) + 64 * ((v \div 64) % 2)
            + 128 * ((v \div 128) % 2)
  OBVIOUS
<1> DEFINE b == LsbBits(byte)
<1>3. \A i \in 1 .. 8 : b[i] = (byte \div 2 ^ (i - 1)) % 2
  BY DEF LsbBits
<1> HIDE DEF b
<1>4. /\ b[1] = (byte \div 1) % 2 /\ b[2] = (byte \div 2) % 2
      /\ b[3] = (byte \div 4) % 2 /\ b[4] = (byte \div 8) % 2
      /\ b[5] = (byte \div 16) % 2 /\ b[6] = (byte \div 32) % 2
      /\ b[7] = (byte \div 64) % 2 /\ b[8] = (byte \div 128) % 2
  BY <1>1, <1>3
<1> QED
  BY <1>2, <1>4, Zenon DEF LsbToByte, b

\* The content of a primitive, after its parity bit and flag.
Content(w) == SubSeq(w, 3, Len(w))

\* The parity bit of a primitive is right after the content prev.
InChain(prev, w) == w[1] = Parity(prev, w[2])

\* A primitive on the line: its flag, its content, and a parity bit that is right unless
\* force_bad_parity asked for this one.
LEMMA OnTheLine ==
  ASSUME NEW x, x.prev \in Seq(Bit), NEW dc \in Bit, NEW c \in Seq(Bit),
         (dc = 1 /\ Len(c) = 2) \/ (dc = 0 /\ Len(c) = 8)
  PROVE  LET w == PrimitiveBits(x, [dc |-> dc, content |-> c])
         IN  /\ Whole(w) /\ w[2] = dc /\ Content(w) = c
             /\ InChain(x.prev, w) <=> 0 \notin x.bad
<1> DEFINE p == IF 0 \in x.bad THEN 1 - Parity(x.prev, dc) ELSE Parity(x.prev, dc)
           h == <<p, dc>>
           w == h \o c
<1>1. Parity(x.prev, dc) \in Bit /\ 1 - Parity(x.prev, dc) \in Bit
  BY ParityBit
<1>2. p \in Bit /\ (p = Parity(x.prev, dc) <=> 0 \notin x.bad)
  BY <1>1 DEF Bit
<1>3. PrimitiveBits(x, [dc |-> dc, content |-> c]) = w
  BY Zenon DEF PrimitiveBits
<1> HIDE DEF p
<1>4. h \in Seq(Bit) /\ Len(h) = 2 /\ h[1] = p /\ h[2] = dc
  BY <1>2
<1> HIDE DEF h
<1>5. /\ w \in Seq(Bit) /\ Len(w) = Len(c) + 2 /\ w[2] = h[2]
      /\ SubSeq(w, 3, Len(c) + 2) = c
  BY <1>4, HeadAndContent, Zenon
<1>6. w[1] = h[1]
  <2>1. Len(c) \in Nat /\ 1 \in 1 .. 2 + Len(c)
    BY LenProperties
  <2>2. \A i \in 1 .. Len(h) + Len(c) : (h \o c)[i] = IF i <= Len(h) THEN h[i] ELSE c[i - Len(h)]
    BY <1>4, BitsConcat
  <2>3. (h \o c)[1] = IF 1 <= Len(h) THEN h[1] ELSE c[1 - Len(h)]
    BY <1>4, <2>1, <2>2
  <2>4. 1 <= Len(h)
    BY <1>4
  <2> QED
    BY <2>3, <2>4, Zenon
<1>7. /\ dc = 1 => Len(w) = 4
      /\ dc = 0 => Len(w) = 10
  <2>1. \A n \in Nat : (n = 2 => n + 2 = 4) /\ (n = 8 => n + 2 = 10)
    OBVIOUS
  <2>2. (dc = 1 => Len(c) = 2) /\ (dc = 0 => Len(c) = 8) /\ Len(c) \in Nat
    BY 0 # 1, LenProperties, Zenon
  <2>3. Len(w) = Len(c) + 2
    BY <1>5
  <2> QED
    BY <2>1, <2>2, <2>3, Zenon
<1> HIDE DEF w
<1>8. Whole(w)
  <2>1. w \in Seq(Bit) /\ w[2] = dc /\ dc \in {0, 1}
    BY <1>4, <1>5 DEF Bit
  <2> QED
    BY <1>7, <2>1 DEF Whole, Complete
<1> QED
  BY <1>2, <1>3, <1>4, <1>5, <1>6, <1>8, Zenon DEF Content, InChain

\* What the decoder takes a whole primitive for.
LEMMA ControlOnTheLine ==
  ASSUME NEW x, x.prev \in Seq(Bit), NEW t \in ControlType
  PROVE  LET w == PrimitiveBits(x, Control(t))
         IN  /\ Whole(w) /\ w[2] = 1 /\ Content(w) = ControlContent[t]
             /\ PrimitiveType(w) = t /\ PrimitiveValue(w) = NoValue
             /\ InChain(x.prev, w) <=> 0 \notin x.bad
<1> DEFINE c == ControlContent[t]
           w == PrimitiveBits(x, Control(t))
<1>1. c \in Seq(Bit) /\ Len(c) = 2
  BY ContentBits, Zenon
<1> HIDE DEF c
<1>2. 1 \in Bit /\ ((1 = 1 /\ Len(c) = 2) \/ (1 = 0 /\ Len(c) = 8))
  BY <1>1 DEF Bit
<1> DEFINE v == PrimitiveBits(x, [dc |-> 1, content |-> c])
<1>a. /\ Whole(v) /\ v[2] = 1 /\ Content(v) = c
      /\ InChain(x.prev, v) <=> 0 \notin x.bad
  BY <1>1, <1>2, OnTheLine
<1>3. /\ Whole(w) /\ w[2] = 1 /\ Content(w) = c
      /\ InChain(x.prev, w) <=> 0 \notin x.bad
  BY <1>a, Zenon DEF Control, c
<1>4. PrimitiveType(w) = t
  BY PrimitiveIsWhole, Zenon
<1>5. PrimitiveValue(w) = NoValue
  BY <1>3, 1 # 0, Zenon DEF PrimitiveValue
<1> QED
  BY <1>3, <1>4, <1>5, Zenon DEF c

LEMMA DataOnTheLine ==
  ASSUME NEW x, x.prev \in Seq(Bit), NEW byte \in 0 .. 255
  PROVE  LET w == PrimitiveBits(x, Data(byte))
         IN  /\ Whole(w) /\ w[2] = 0 /\ Content(w) = LsbBits(byte)
             /\ PrimitiveType(w) = "DATA" /\ PrimitiveValue(w) = byte
             /\ InChain(x.prev, w) <=> 0 \notin x.bad
<1> DEFINE c == LsbBits(byte)
           w == PrimitiveBits(x, Data(byte))
<1>0. byte \in Nat
  OBVIOUS
<1>1. c \in Seq(Bit) /\ Len(c) = 8
  BY <1>0, DataBits, Zenon
<1>2. LsbToByte(c) = byte
  BY ByteOfBits, Zenon
<1> HIDE DEF c
<1>3. 0 \in Bit
  BY DEF Bit
<1>4. /\ Whole(w) /\ w[2] = 0 /\ Content(w) = c
      /\ InChain(x.prev, w) <=> 0 \notin x.bad
  BY <1>1, <1>3, OnTheLine, Zenon DEF Data, c
<1>5. PrimitiveType(w) = "DATA"
  BY <1>0, PrimitiveIsWhole, Zenon
<1>6. PrimitiveValue(w) = byte
  <2>1. Len(w) = 10
    BY <1>4, 0 # 1, Zenon DEF Whole, Complete
  <2>2. SubSeq(w, 3, 10) = c
    BY <1>4, <2>1, Zenon DEF Content
  <2> QED
    BY <1>2, <1>4, <2>2, Zenon DEF PrimitiveValue
<1> QED
  BY <1>4, <1>5, <1>6, Zenon DEF c

-----------------------------------------------------------------------------
\* The condition of the theorems.  With another type field than the default the decoder
\* refuses the code or takes it for a time-code; a bare ESC would be held until the
\* character after it, and spoil that one.
OnlyConstructed == \A r \in Requests : Constructed(r)

\* w says r by itself, or after an ESC.
Plain(w, r) == PrimitiveType(w) = r.type /\ r.type # "ESC" /\ PrimitiveValue(w) = r.value

AfterEscape(w, r) ==
  EscapedType(w) = r.type /\ EscapedErrors(w) = {} /\ PrimitiveValue(w) = r.value

EncoderRecord == [prev : Seq(Bit), bad : SUBSET Int]

\* The encoder has gone on by one primitive, w.
Sent(x, w, y) ==
  /\ Whole(w)
  /\ y \in EncoderRecord
  /\ y.prev = Content(w)
  /\ y.bad = {o - 1 : o \in x.bad \ {0}}
  /\ InChain(x.prev, w) <=> 0 \notin x.bad

\* A control character or a data one is such a primitive.
LEMMA SentControl ==
  ASSUME NEW x \in EncoderRecord, NEW t \in ControlType
  PROVE  LET w == PrimitiveBits(x, Control(t))
         IN  /\ Sent(x, w, AfterPrimitive(x, Control(t)))
             /\ w[2] = 1 /\ PrimitiveType(w) = t /\ PrimitiveValue(w) = NoValue
<1> DEFINE w == PrimitiveBits(x, Control(t))
           y == AfterPrimitive(x, Control(t))
<1>1. x.prev \in Seq(Bit) /\ x.bad \subseteq Int
  BY DEF EncoderRecord
<1>2. /\ Whole(w) /\ w[2] = 1 /\ Content(w) = ControlContent[t]
      /\ PrimitiveType(w) = t /\ PrimitiveValue(w) = NoValue
      /\ InChain(x.prev, w) <=> 0 \notin x.bad
  BY <1>1, ControlOnTheLine, Zenon
<1>3. ControlContent[t] \in Seq(Bit)
  BY ContentBits, Zenon
<1>4. {o - 1 : o \in x.bad \ {0}} \subseteq Int
  BY <1>1
<1>5. /\ y.prev = ControlContent[t] /\ y.bad = {o - 1 : o \in x.bad \ {0}}
      /\ y \in EncoderRecord
  BY <1>3, <1>4, Zenon DEF AfterPrimitive, Control, EncoderRecord
<1> QED
  BY <1>2, <1>5, Zenon DEF Sent

LEMMA SentData ==
  ASSUME NEW x \in EncoderRecord, NEW byte \in 0 .. 255
  PROVE  LET w == PrimitiveBits(x, Data(byte))
         IN  /\ Sent(x, w, AfterPrimitive(x, Data(byte)))
             /\ w[2] = 0 /\ PrimitiveType(w) = "DATA" /\ PrimitiveValue(w) = byte
<1> DEFINE w == PrimitiveBits(x, Data(byte))
           y == AfterPrimitive(x, Data(byte))
<1>1. x.prev \in Seq(Bit) /\ x.bad \subseteq Int /\ byte \in Nat
  BY DEF EncoderRecord
<1>2. /\ Whole(w) /\ w[2] = 0 /\ Content(w) = LsbBits(byte)
      /\ PrimitiveType(w) = "DATA" /\ PrimitiveValue(w) = byte
      /\ InChain(x.prev, w) <=> 0 \notin x.bad
  BY <1>1, DataOnTheLine, Zenon
<1>3. LsbBits(byte) \in Seq(Bit)
  BY <1>1, DataBits, Zenon
<1>4. {o - 1 : o \in x.bad \ {0}} \subseteq Int
  BY <1>1
<1>5. /\ y.prev = LsbBits(byte) /\ y.bad = {o - 1 : o \in x.bad \ {0}}
      /\ y \in EncoderRecord
  BY <1>3, <1>4, Zenon DEF AfterPrimitive, Data, EncoderRecord
<1> QED
  BY <1>2, <1>5, Zenon DEF Sent

\* An ESC that the encoder has put before another primitive.
SentEscape(x, e, y) == Sent(x, e, y) /\ WholeEscape(e) /\ e[2] = 1

\* encode() of one primitive.
LEMMA EncodeOne ==
  ASSUME NEW x, NEW r, NEW p, Primitives(r) = <<p>>
  PROVE  Encode(x, r).bits = PrimitiveBits(x, p) /\ Encode(x, r).enc = AfterPrimitive(x, p)
<1>1. Len(<<p>>) = 1 /\ <<p>>[1] = p
  OBVIOUS
<1> QED
  BY <1>1, Zenon DEF Encode

\* What the decoder takes a control or data primitive for after an ESC.
LEMMA EscapedMeaning ==
  ASSUME NEW w
  PROVE  /\ PrimitiveType(w) = "FCT" => EscapedType(w) = "NULL" /\ EscapedErrors(w) = {}
         /\ PrimitiveType(w) = "DATA" /\ PrimitiveValue(w) \div 64 = 0
            => EscapedType(w) = "TIMECODE" /\ EscapedErrors(w) = {}
         /\ PrimitiveType(w) = "DATA" /\ PrimitiveValue(w) \div 64 = 2
            => EscapedType(w) = "BROADCAST" /\ EscapedErrors(w) = {}
         /\ PrimitiveType(w) \in {"ESC", "EOP", "EEP"} => EscapedErrors(w) = {"escape_error"}
<1>1. /\ PrimitiveType(w) = "FCT" => EscapedType(w) = "NULL"
      /\ PrimitiveType(w) = "DATA" /\ PrimitiveValue(w) \div 64 = 0
            => EscapedType(w) = "TIMECODE"
      /\ PrimitiveType(w) = "DATA" /\ PrimitiveValue(w) \div 64 = 2
            => EscapedType(w) = "BROADCAST"
  BY DEF EscapedType, ControlType
<1>2. /\ PrimitiveType(w) = "FCT" => EscapedErrors(w) = {}
      /\ PrimitiveType(w) = "DATA" /\ PrimitiveValue(w) \div 64 \in {0, 2}
            => EscapedErrors(w) = {}
      /\ PrimitiveType(w) \in {"ESC", "EOP", "EEP"} => EscapedErrors(w) = {"escape_error"}
  BY DEF EscapedErrors
<1> QED
  BY <1>1, <1>2

\* encode(): a request goes out as one primitive that says it, or as an ESC and one
\* that says it after an ESC, all in one parity chain.
LEMMA EncodedChain ==
  ASSUME NEW x \in EncoderRecord, NEW r, Constructed(r)
  PROVE  LET b == Encode(x, r).bits
             y == Encode(x, r).enc
         IN  \/ Sent(x, b, y) /\ Plain(b, r)
             \/ \E e, w, mid : /\ SentEscape(x, e, mid) /\ Sent(mid, w, y)
                               /\ AfterEscape(w, r) /\ b = e \o w
<1> DEFINE b == Encode(x, r).bits
           y == Encode(x, r).enc
           esc == PrimitiveBits(x, Control("ESC"))
           mid == AfterPrimitive(x, Control("ESC"))
<1>1. r.value \in 0 .. 255 /\ r.type \in CharType /\ r.type # "ESC"
  BY DEF Constructed, Request
<1>2. "ESC" \in ControlType /\ "FCT" \in ControlType
  BY DEF ControlType
<1>3. SentEscape(x, esc, mid) /\ mid \in EncoderRecord
  <2>1. Sent(x, esc, mid) /\ esc[2] = 1 /\ PrimitiveType(esc) = "ESC"
    BY <1>2, SentControl, Zenon
  <2>2. Len(esc) = 4
    BY <2>1, Zenon DEF Sent, Whole, Complete
  <2> QED
    BY <2>1, <2>2, Zenon DEF SentEscape, WholeEscape, Sent
<1>4. ASSUME r.type \in ControlType
      PROVE  Sent(x, b, y) /\ Plain(b, r)
  <2>1. Primitives(r) = <<Control(r.type)>>
    BY <1>4 DEF Primitives, ControlType
  <2>2. b = PrimitiveBits(x, Control(r.type)) /\ y = AfterPrimitive(x, Control(r.type))
    BY <2>1, EncodeOne, Zenon
  <2>3. r.value = NoValue
    BY <1>4, Zenon DEF Constructed
  <2> QED
    BY <1>1, <1>4, <2>2, <2>3, SentControl, Zenon DEF Plain
<1>5. ASSUME r.type = "DATA"
      PROVE  Sent(x, b, y) /\ Plain(b, r)
  <2>1. Primitives(r) = <<Data(r.value)>>
    BY <1>5 DEF Primitives, ControlType
  <2>2. b = PrimitiveBits(x, Data(r.value)) /\ y = AfterPrimitive(x, Data(r.value))
    BY <2>1, EncodeOne, Zenon
  <2> QED
    BY <1>1, <1>5, <2>2, SentData, Zenon DEF Plain
<1> HIDE DEF esc, mid
<1>6. ASSUME NEW q, NEW w, Primitives(r) = <<Control("ESC"), q>>,
             w = PrimitiveBits(mid, q), Sent(mid, w, AfterPrimitive(mid, q)), AfterEscape(w, r)
      PROVE  \E f, v, m : SentEscape(x, f, m) /\ Sent(m, v, y) /\ AfterEscape(v, r) /\ b = f \o v
  <2>1. b = esc \o w /\ y = AfterPrimitive(mid, q)
    <3> DEFINE p == Control("ESC")
    <3>0. Primitives(r) = <<p, q>>
      BY <1>6
    <3> HIDE DEF p
    <3>1. /\ Encode(x, r).bits = PrimitiveBits(x, p) \o PrimitiveBits(AfterPrimitive(x, p), q)
          /\ Encode(x, r).enc = AfterPrimitive(AfterPrimitive(x, p), q)
      <4>1. Len(<<p, q>>) # 1 /\ <<p, q>>[1] = p /\ <<p, q>>[2] = q
        OBVIOUS
      <4>2. Len(Primitives(r)) # 1 /\ Primitives(r)[1] = p /\ Primitives(r)[2] = q
        BY <3>0, <4>1
      <4> QED
        BY <4>2, Zenon DEF Encode
    <3> QED
      BY <1>6, <3>1, Zenon DEF esc, mid, p
  <2> QED
    BY <1>3, <1>6, <2>1, Zenon
<1>7. ASSUME r.type = "NULL"
      PROVE  \E f, v, m : SentEscape(x, f, m) /\ Sent(m, v, y) /\ AfterEscape(v, r) /\ b = f \o v
  <2> DEFINE w == PrimitiveBits(mid, Control("FCT"))
  <2>1. Primitives(r) = <<Control("ESC"), Control("FCT")>>
    BY <1>7 DEF Primitives, ControlType
  <2>2. /\ Sent(mid, w, AfterPrimitive(mid, Control("FCT")))
        /\ PrimitiveType(w) = "FCT" /\ PrimitiveValue(w) = NoValue
    BY <1>2, <1>3, SentControl, Zenon
  <2>3. r.value = NoValue
    BY <1>7, Zenon DEF Constructed
  <2>4. AfterEscape(w, r)
    BY <1>7, <2>2, <2>3, EscapedMeaning, Zenon DEF AfterEscape
  <2> QED
    BY <1>6, <2>1, <2>2, <2>4, Zenon
<1>8. ASSUME r.type \in {"TIMECODE", "BROADCAST"}
      PROVE  \E f, v, m : SentEscape(x, f, m) /\ Sent(m, v, y) /\ AfterEscape(v, r) /\ b = f \o v
  <2> DEFINE w == PrimitiveBits(mid, Data(r.value))
  <2>1. \A v \in 0 .. 255 : v \div 64 = 0 => v % 64 = v
    OBVIOUS
  <2>2. Primitives(r) = <<Control("ESC"), Data(r.value)>>
    <3>1. r.type = "TIMECODE" => r.value % 64 = r.value
      BY <1>1, <2>1, Zenon DEF Constructed
    <3> QED
      BY <1>8, <3>1 DEF Primitives, ControlType
  <2>3. /\ Sent(mid, w, AfterPrimitive(mid, Data(r.value)))
        /\ PrimitiveType(w) = "DATA" /\ PrimitiveValue(w) = r.value
    BY <1>1, <1>3, SentData, Zenon
  <2>4. AfterEscape(w, r)
    BY <1>8, <2>3, EscapedMeaning, Zenon DEF AfterEscape, Constructed
  <2> QED
    BY <1>6, <2>2, <2>3, <2>4, Zenon
<1> HIDE DEF b, y
<1>9. r.type \in ControlType \cup {"DATA", "NULL", "TIMECODE", "BROADCAST"}
  BY <1>1 DEF CharType
<1> QED
  BY <1>4, <1>5, <1>7, <1>8, <1>9, Zenon DEF b, y

-----------------------------------------------------------------------------
\* Contents that differ in parity: no flag makes the same parity bit right for both.
Differ(c, d) == c \in Seq(Bit) /\ d \in Seq(Bit) /\ Parity(c, 0) # Parity(d, 0)

LEMMA DifferAlways ==
  ASSUME NEW c, NEW d, Differ(c, d), NEW dc \in Bit
  PROVE  Parity(c, dc) # Parity(d, dc)
<1>1. Ones(c) \in Nat /\ Ones(d) \in Nat /\ dc \in {0, 1}
  BY OnesNat DEF Differ, Bit
<1>2. \A m, n \in Nat : \A f \in {0, 1} :
        (m + 0 + 1) % 2 # (n + 0 + 1) % 2 => (m + f + 1) % 2 # (n + f + 1) % 2
  OBVIOUS
<1> QED
  BY <1>1, <1>2, Zenon DEF Differ, Parity

\* The other flag, or the other parity bit, is wrong.
LEMMA OtherFlag ==
  ASSUME NEW c \in Seq(Bit), NEW dc \in Bit
  PROVE  Parity(c, 1 - dc) # Parity(c, dc)
<1>1. Ones(c) \in Nat /\ dc \in {0, 1}
  BY OnesNat DEF Bit
<1>2. \A n \in Nat : \A f \in {0, 1} : (n + (1 - f) + 1) % 2 # (n + f + 1) % 2
  OBVIOUS
<1> QED
  BY <1>1, <1>2, Zenon DEF Parity

\* One bit flipped changes the parity.
LEMMA FlippedDiffers ==
  ASSUME NEW c \in Seq(Bit), NEW d \in Seq(Bit), Len(c) = Len(d),
         NEW j \in 1 .. Len(c), d[j] = 1 - c[j],
         \A i \in 1 .. Len(c) : i # j => d[i] = c[i]
  PROVE  Differ(c, d)
<1> DEFINE S == {i \in DOMAIN c : c[i] = 1}
           T == {i \in DOMAIN d : d[i] = 1}
<1>1. /\ DOMAIN c = 1 .. Len(c) /\ DOMAIN d = 1 .. Len(c) /\ Len(c) \in Nat
      /\ c[j] \in Bit
  BY ElementOfSeq
<1>2. IsFiniteSet(S) /\ IsFiniteSet(T)
  <2>1. IsFiniteSet(1 .. Len(c))
    BY <1>1, FS_Interval
  <2>2. S \subseteq 1 .. Len(c) /\ T \subseteq 1 .. Len(c)
    BY <1>1
  <2> QED
    BY <2>1, <2>2, FS_Subset, Zenon
<1>3. Ones(c) = Cardinality(S) /\ Ones(d) = Cardinality(T)
  BY Zenon DEF Ones
<1>4. Cardinality(S) \in Nat /\ Cardinality(T) \in Nat
  BY <1>2, FS_CardinalityType, Zenon
<1>5. c[j] = 0 => T = S \cup {j} /\ j \notin S
  BY <1>1 DEF Bit
<1>6. c[j] = 1 => S = T \cup {j} /\ j \notin T
  BY <1>1 DEF Bit
<1> HIDE DEF S, T
<1>7. Cardinality(T) = Cardinality(S) + 1 \/ Cardinality(S) = Cardinality(T) + 1
  <2>1. c[j] = 0 \/ c[j] = 1
    BY <1>1 DEF Bit
  <2>2. \A X : IsFiniteSet(X) /\ j \notin X => Cardinality(X \cup {j}) = Cardinality(X) + 1
    BY FS_AddElement, Zenon
  <2> QED
    BY <1>2, <1>5, <1>6, <2>1, <2>2, Zenon
<1>8. \A m, n \in Nat : (m = n + 1 \/ n = m + 1) => (n + 0 + 1) % 2 # (m + 0 + 1) % 2
  OBVIOUS
<1> QED
  BY <1>3, <1>4, <1>7, <1>8, Zenon DEF Differ, Parity

-----------------------------------------------------------------------------
CodecType ==
  /\ enc \in EncoderRecord
  /\ dec \in DecoderRecord
  /\ line \in Seq(Bit)
  /\ expected \in Seq(Request)
  /\ wrong \in Nat
  /\ faulty \in BOOLEAN
  /\ due \in Nat
  /\ reported \in BOOLEAN

\* What the decoder finds wrong with a primitive, the ESC it holds included.
Refused(d, w) ==
  \/ ~InChain(d.prev, w)
  \/ d.pending /\ (d.pendingBad \/ EscapedErrors(w) # {})

TypeSaid(d, w) == IF d.pending THEN EscapedType(w) ELSE PrimitiveType(w)

\* The primitive resolves to r, without an error.
Says(d, w, r) ==
  /\ ~Holds(d, w) /\ ~Refused(d, w)
  /\ r.type = TypeSaid(d, w) /\ r.value = PrimitiveValue(w)

\* A completed primitive is held with its error, or handed out with all there are.
LEMMA Resolved ==
  ASSUME NEW d \in DecoderRecord, NEW w, Whole(w)
  PROVE  LET y == AfterResolve(d, w)
         IN  /\ y \in DecoderRecord /\ y.prev = Content(w) /\ y.buffer = <<>>
             /\ Holds(d, w) => /\ Resolve(d, w) = <<>>
                               /\ y.pending /\ (y.pendingBad <=> ~InChain(d.prev, w))
             /\ ~Holds(d, w) =>
                  /\ \E x : /\ Resolve(d, w) = <<[type |-> TypeSaid(d, w),
                                                  value |-> PrimitiveValue(w), errors |-> x]>>
                            /\ x # {} <=> Refused(d, w)
                  /\ ~y.pending /\ ~y.pendingBad
<1> DEFINE y == AfterResolve(d, w)
           wrongs == ParityErrors(d, w)
<1>1. d.pending \in BOOLEAN /\ d.pendingBad \in BOOLEAN
  BY DEF DecoderRecord
<1>2. wrongs = {} <=> InChain(d.prev, w)
  <2>1. {"parity_error"} # {}
    OBVIOUS
  <2> QED
    BY <2>1, Zenon DEF ParityErrors, InChain
<1>3. Content(w) \in Seq(Bit)
  BY TypeOfWhole, Zenon DEF Content
<1>4. /\ y.prev = Content(w) /\ y.buffer = <<>>
      /\ y.pending = (~d.pending /\ PrimitiveType(w) = "ESC")
      /\ y.pendingBad = ((~d.pending /\ PrimitiveType(w) = "ESC") /\ wrongs # {})
      /\ y = [prev |-> y.prev, buffer |-> y.buffer, pending |-> y.pending,
              pendingBad |-> y.pendingBad]
  BY Zenon DEF AfterResolve, Content
<1>5. y \in DecoderRecord
  <2>1. y.pending \in BOOLEAN /\ y.pendingBad \in BOOLEAN
    BY <1>4
  <2>2. <<>> \in Seq(Bit)
    BY EmptySeq, Zenon
  <2> HIDE DEF y
  <2> QED
    BY <1>3, <1>4, <2>1, <2>2, Zenon DEF DecoderRecord
<1>6. ASSUME Holds(d, w)
      PROVE  /\ Resolve(d, w) = <<>>
             /\ y.pending /\ (y.pendingBad <=> ~InChain(d.prev, w))
  <2>1. ~d.pending /\ PrimitiveType(w) = "ESC"
    BY <1>6, Zenon DEF Holds
  <2>2. Resolve(d, w) = <<>>
    BY <2>1, Zenon DEF Resolve
  <2> HIDE DEF y, wrongs
  <2> QED
    BY <1>2, <1>4, <2>1, <2>2, Zenon
<1>7. ASSUME ~Holds(d, w) PROVE ~y.pending /\ ~y.pendingBad
  <2>1. ~(~d.pending /\ PrimitiveType(w) = "ESC")
    BY <1>7, Zenon DEF Holds
  <2> HIDE DEF y, wrongs
  <2> QED
    BY <1>4, <2>1, Zenon
<1>8. ASSUME ~Holds(d, w), d.pending
      PROVE  \E x : /\ Resolve(d, w) = <<[type |-> TypeSaid(d, w),
                                          value |-> PrimitiveValue(w), errors |-> x]>>
                    /\ x # {} <=> Refused(d, w)
  <2> DEFINE x == HeldErrors(d) \cup wrongs \cup EscapedErrors(w)
  <2>1. Resolve(d, w) = <<[type |-> TypeSaid(d, w), value |-> PrimitiveValue(w), errors |-> x]>>
    BY <1>8, Zenon DEF Resolve, TypeSaid
  <2>2. HeldErrors(d) = {} <=> ~d.pendingBad
    <3>1. {"parity_error"} # {}
      OBVIOUS
    <3> QED
      BY <3>1, Zenon DEF HeldErrors
  <2>3. x # {} <=> (HeldErrors(d) # {} \/ wrongs # {} \/ EscapedErrors(w) # {})
    <3> HIDE DEF wrongs
    <3> QED
      OBVIOUS
  <2>4. x # {} <=> Refused(d, w)
    <3> HIDE DEF x, wrongs
    <3> QED
      BY <1>2, <1>8, <2>2, <2>3, Zenon DEF Refused
  <2> QED
    BY <2>1, <2>4, Zenon
<1>9. ASSUME ~Holds(d, w), ~d.pending
      PROVE  \E x : /\ Resolve(d, w) = <<[type |-> TypeSaid(d, w),
                                          value |-> PrimitiveValue(w), errors |-> x]>>
                    /\ x # {} <=> Refused(d, w)
  <2>1. Resolve(d, w) = <<[type |-> TypeSaid(d, w), value |-> PrimitiveValue(w), errors |-> wrongs]>>
    BY <1>9, Zenon DEF Resolve, TypeSaid, Holds
  <2>2. wrongs # {} <=> Refused(d, w)
    <3> HIDE DEF wrongs
    <3> QED
      BY <1>2, <1>9, Zenon DEF Refused
  <2> QED
    BY <2>1, <2>2, Zenon
<1> HIDE DEF y
<1> QED
  BY <1>1, <1>4, <1>5, <1>6, <1>7, <1>8, <1>9, Zenon DEF y

\* One bit taken by the decoder.
LEMMA BitTaken ==
  ASSUME CodecType, NEW bit \in Bit, line # <<>>, Take(bit)
  PROVE  LET raw == Append(dec.buffer, bit)
         IN  /\ raw \in Seq(Bit) /\ Len(raw) = Len(dec.buffer) + 1
             /\ dec' \in DecoderRecord /\ line' = Tail(line) /\ line' \in Seq(Bit)
             /\ expected' \in Seq(Request) /\ wrong' \in {wrong, wrong + 1}
             /\ reported' \in BOOLEAN /\ enc' = enc
             /\ ~Complete(raw) =>
                  /\ dec'.buffer = raw
                  /\ dec'.prev = dec.prev /\ dec'.pending = dec.pending
                  /\ dec'.pendingBad = dec.pendingBad
                  /\ ~reported' /\ wrong' = wrong /\ expected' = expected
             /\ Complete(raw) =>
                  /\ Whole(raw)
                  /\ dec'.buffer = <<>> /\ dec'.prev = Content(raw)
             /\ Complete(raw) /\ Holds(dec, raw) =>
                  /\ dec'.pending /\ (dec'.pendingBad <=> ~InChain(dec.prev, raw))
                  /\ ~reported' /\ wrong' = wrong /\ expected' = expected
             /\ Complete(raw) /\ ~Holds(dec, raw) =>
                  /\ ~dec'.pending /\ ~dec'.pendingBad
                  /\ reported' <=> Refused(dec, raw)
                  /\ Refused(dec, raw) => wrong' = wrong
                  /\ \A r : expected = <<r>> /\ Says(dec, raw, r)
                            => wrong' = wrong /\ expected' = <<>>
<1> DEFINE raw == Append(dec.buffer, bit)
           fed == FeedBit(dec, bit)
<1>1. /\ dec \in DecoderRecord /\ line \in Seq(Bit) /\ expected \in Seq(Request) /\ wrong \in Nat
      /\ dec.buffer \in Seq(Bit)
  BY DEF CodecType, DecoderRecord
<1>2. raw \in Seq(Bit) /\ Len(raw) = Len(dec.buffer) + 1
  BY <1>1, FeedBitEffect, Zenon
<1>3. Tail(line) \in Seq(Bit)
  BY <1>1, HeadTailProperties, Zenon
<1>4. /\ dec' = fed.dec
      /\ line' = Tail(line)
      /\ reported' = \E i \in DOMAIN fed.chars : fed.chars[i].errors # {}
      /\ wrong' = IF /\ fed.chars # <<>>
                     /\ fed.chars[1].errors = {}
                     /\ expected = <<>> \/ ~Intended(Head(expected), fed.chars[1])
                  THEN wrong + 1 ELSE wrong
      /\ expected' = IF fed.chars = <<>> \/ expected = <<>> THEN expected ELSE Tail(expected)
      /\ enc' = enc
  BY Zenon DEF Take
<1>5. fed.dec \in DecoderRecord
  BY <1>1, FeedBitEffect, Zenon
<1>6. expected' \in Seq(Request) /\ wrong' \in {wrong, wrong + 1} /\ reported' \in BOOLEAN
  <2>1. expected # <<>> => Tail(expected) \in Seq(Request)
    BY <1>1, HeadTailProperties, Zenon
  <2>2. expected' \in Seq(Request)
    BY <1>1, <1>4, <2>1, Zenon
  <2>3. reported' \in BOOLEAN
    BY <1>4
  <2> QED
    BY <1>4, <2>2, <2>3, Zenon
<1>7. ASSUME fed.chars = <<>>
      PROVE  ~reported' /\ wrong' = wrong /\ expected' = expected
  <2>1. DOMAIN <<>> = {}
    OBVIOUS
  <2>2. ~(\E i \in DOMAIN fed.chars : fed.chars[i].errors # {})
    BY <1>7, <2>1, Zenon
  <2> QED
    BY <1>4, <1>7, <2>2, Zenon
<1>8. ASSUME ~Complete(raw)
      PROVE  /\ dec'.buffer = raw
             /\ dec'.prev = dec.prev /\ dec'.pending = dec.pending
             /\ dec'.pendingBad = dec.pendingBad
             /\ fed.chars = <<>>
  <2>1. fed.chars = <<>> /\ fed.dec = [dec EXCEPT !.buffer = raw]
    BY <1>8, Zenon DEF FeedBit
  <2> HIDE DEF raw, fed
  <2>2. /\ [dec EXCEPT !.buffer = raw].buffer = raw
        /\ [dec EXCEPT !.buffer = raw].prev = dec.prev
        /\ [dec EXCEPT !.buffer = raw].pending = dec.pending
        /\ [dec EXCEPT !.buffer = raw].pendingBad = dec.pendingBad
    BY <1>1 DEF DecoderRecord
  <2> QED
    BY <1>4, <2>1, <2>2, Zenon
<1>9. ASSUME Complete(raw)
      PROVE  /\ Whole(raw)
             /\ dec' = AfterResolve(dec, raw) /\ fed.chars = Resolve(dec, raw)
  <2>1. fed.chars = Resolve(dec, raw) /\ fed.dec = AfterResolve(dec, raw)
    BY <1>9, Zenon DEF FeedBit
  <2> QED
    BY <1>2, <1>4, <1>9, <2>1, Zenon DEF Whole
<1>10. ASSUME Complete(raw), ~Holds(dec, raw)
       PROVE  /\ reported' <=> Refused(dec, raw)
              /\ Refused(dec, raw) => wrong' = wrong
              /\ \A r : expected = <<r>> /\ Says(dec, raw, r)
                        => wrong' = wrong /\ expected' = <<>>
  <2>1. PICK x : /\ Resolve(dec, raw) = <<[type |-> TypeSaid(dec, raw),
                                           value |-> PrimitiveValue(raw), errors |-> x]>>
                 /\ x # {} <=> Refused(dec, raw)
    BY <1>1, <1>9, <1>10, Resolved, Zenon
  <2> DEFINE c == [type |-> TypeSaid(dec, raw), value |-> PrimitiveValue(raw), errors |-> x]
  <2>2. fed.chars = <<c>>
    BY <1>9, <1>10, <2>1, Zenon
  <2>3. c.errors = x /\ c.type = TypeSaid(dec, raw) /\ c.value = PrimitiveValue(raw)
    OBVIOUS
  <2>4. \A r : Says(dec, raw, r) => Intended(r, c)
    <3>1. \A r : Says(dec, raw, r) => x = {} /\ r.type = TypeSaid(dec, raw)
                                      /\ r.value = PrimitiveValue(raw)
      BY <2>1, Zenon DEF Says
    <3> QED
      BY <3>1, Zenon DEF Intended
  <2> HIDE DEF c, fed, raw
  <2>5. DOMAIN <<c>> = {1} /\ <<c>>[1] = c /\ <<c>> # <<>>
    OBVIOUS
  <2>6. fed.chars # <<>> /\ fed.chars[1] = c /\ DOMAIN fed.chars = {1}
    BY <2>2, <2>5, Zenon
  <2>7. reported' <=> x # {}
    BY <1>4, <2>3, <2>6
  <2>8. x # {} => wrong' = wrong
    BY <1>4, <2>3, <2>6, Zenon
  <2>9. ASSUME NEW r, expected = <<r>>, Says(dec, raw, r)
        PROVE  wrong' = wrong /\ expected' = <<>>
    <3>1. expected # <<>> /\ Head(expected) = r /\ Tail(expected) = <<>>
      BY <2>9
    <3> QED
      BY <1>4, <2>4, <2>6, <2>9, <3>1, Zenon
  <2> QED
    BY <2>1, <2>7, <2>8, <2>9, Zenon
<1>11. ASSUME Complete(raw)
       PROVE  /\ dec'.buffer = <<>> /\ dec'.prev = Content(raw)
              /\ Holds(dec, raw) => /\ dec'.pending /\ (dec'.pendingBad <=> ~InChain(dec.prev, raw))
                                    /\ fed.chars = <<>>
              /\ ~Holds(dec, raw) => ~dec'.pending /\ ~dec'.pendingBad
  BY <1>1, <1>9, <1>11, Resolved, Zenon
<1> HIDE DEF raw, fed
<1> QED
  BY <1>2, <1>3, <1>4, <1>5, <1>6, <1>7, <1>8, <1>9, <1>10, <1>11, Zenon DEF raw

-----------------------------------------------------------------------------
(***************************************************************************)
(* Where decoder and line stand.  Without a fault, or as long as a bad     *)
(* parity is yet to be encoded: between characters, in the primitive that  *)
(* ends one, or in the ESC of two.                                         *)
(***************************************************************************)
AtBoundary ==
  line = <<>> /\ expected = <<>> /\ dec.buffer = <<>> /\ ~dec.pending /\ dec.prev = enc.prev

InCharacter ==
  \E r, w : /\ expected = <<r>>
            /\ Whole(w) /\ Between(w, dec.buffer, line)
            /\ Says(dec, w, r) /\ Content(w) = enc.prev

InEscape ==
  /\ ~dec.pending
  /\ \E r, e, w, rest :
       /\ expected = <<r>>
       /\ WholeEscape(e) /\ Between(e, dec.buffer, rest) /\ InChain(dec.prev, e)
       /\ Whole(w) /\ line = rest \o w
       /\ InChain(Content(e), w) /\ AfterEscape(w, r) /\ Content(w) = enc.prev

(***************************************************************************)
(* With a fault not yet reported: the primitive that will be refused is    *)
(* the one on its way, or the one after the ESC on its way; a flipped bit  *)
(* is in the content of the primitive on its way, has left the parity      *)
(* chains apart, or has misframed what is collected; or an ESC is held     *)
(* with its parity error.                                                  *)
(***************************************************************************)
ToBeRefused ==
  \E w, rest, more :
    /\ Whole(w) /\ Between(w, dec.buffer, rest) /\ Refused(dec, w)
    /\ more \in Seq(Bit) /\ line = rest \o more

NextRefused ==
  /\ ~dec.pending
  /\ \E e, w, rest :
       /\ WholeEscape(e) /\ Between(e, dec.buffer, rest) /\ InChain(dec.prev, e)
       /\ Whole(w) /\ line = rest \o w
       /\ ~InChain(Content(e), w) \/ EscapedErrors(w) # {}

Apart(c, more) ==
  \/ more = <<>> /\ enc.bad = {} /\ Differ(c, enc.prev)
  \/ Whole(more) /\ ~InChain(c, more)

Flipped ==
  \E v, rest, more :
    /\ Whole(v) /\ Between(v, dec.buffer, rest)
    /\ line = rest \o more /\ Apart(Content(v), more)

OffParity ==
  line = <<>> /\ dec.buffer = <<>> /\ enc.bad = {} /\ Differ(dec.prev, enc.prev)

Misframed == Len(dec.buffer) >= 2 /\ ~InChain(dec.prev, dec.buffer)

HeldBad == dec.pending /\ dec.pendingBad

\* A primitive part heard, with more behind it: one bit on.
OneFurther(w, b, rest, more) ==
  LET raw == Append(b, Head(rest \o more))
      left == Tail(rest \o more)
  IN  /\ rest \o more # <<>>
      /\ Tail(rest) = <<>> => raw = w /\ Complete(raw) /\ left = more
      /\ Tail(rest) # <<>> => ~Complete(raw) /\ Between(w, raw, Tail(rest)) /\ left = Tail(rest) \o more

LEMMA OnTheWay ==
  ASSUME NEW w, Whole(w), NEW b, NEW rest, Between(w, b, rest), NEW more \in Seq(Bit)
  PROVE  OneFurther(w, b, rest, more)
<1> DEFINE l == rest \o more
           raw == Append(b, Head(l))
<1>1. rest \in Seq(Bit) /\ rest # <<>>
  BY Zenon DEF Between
<1>2. l # <<>> /\ Head(l) = Head(rest) /\ Tail(l) = Tail(rest) \o more
  BY <1>1, HeadOfConcat, Zenon
<1> DEFINE heard == Append(b, Head(rest))
<1>3. /\ Tail(rest) = <<>> => heard = w
      /\ Tail(rest) # <<>> => Between(w, heard, Tail(rest)) /\ ~Complete(heard)
  BY OneBitOn, Zenon
<1> HIDE DEF l
<1>4. raw = heard
  BY <1>2, Zenon
<1>5. Tail(rest) = <<>> => Tail(l) = more
  BY <1>2, ConcatEmptySeq, Zenon
<1> HIDE DEF heard, raw
<1>6. /\ l # <<>>
      /\ Tail(rest) = <<>> => raw = w /\ Complete(raw) /\ Tail(l) = more
      /\ Tail(rest) # <<>> => ~Complete(raw) /\ Between(w, raw, Tail(rest)) /\ Tail(l) = Tail(rest) \o more
  BY <1>2, <1>3, <1>4, <1>5, Zenon DEF Whole
<1> QED
  BY <1>6, Zenon DEF OneFurther, l, raw

\* A whole primitive that nothing is behind.
LEMMA NothingBehind ==
  ASSUME NEW w, Whole(w)
  PROVE  w \in Seq(Bit) /\ w = w \o <<>> /\ <<>> \in Seq(Bit)
BY EmptySeq, ConcatEmptySeq, Zenon DEF Whole

\* A bit that keeps everything but the frame.
Joins(raw) ==
  /\ ~Complete(raw) /\ ~reported' /\ wrong' = wrong
  /\ enc' = enc /\ expected' = expected

Ends(raw) == Complete(raw) /\ enc' = enc

\* The bits of a character, one after the other, and the last of them.
LEMMA CharacterGoesOn ==
  ASSUME CodecType, InCharacter, Take(Head(line))
  PROVE  LET raw == Append(dec.buffer, Head(line))
         IN  \/ Joins(raw) /\ InCharacter'
             \/ Ends(raw) /\ AtBoundary' /\ ~reported' /\ wrong' = wrong
<1> DEFINE raw == Append(dec.buffer, Head(line))
<1>1. PICK r, w : /\ expected = <<r>>
                  /\ Whole(w) /\ Between(w, dec.buffer, line)
                  /\ Says(dec, w, r) /\ Content(w) = enc.prev
  BY Zenon DEF InCharacter
<1>2. line \in Seq(Bit) /\ line # <<>> /\ Head(line) \in Bit
  BY <1>1, HeadAndTail, Zenon DEF Between
<1>3. /\ Tail(line) = <<>> => raw = w
      /\ Tail(line) # <<>> => Between(w, raw, Tail(line)) /\ ~Complete(raw)
  BY <1>1, OneBitOn, Zenon
<1>4. line' = Tail(line) /\ enc' = enc
  BY <1>2, BitTaken, Zenon
<1>5. CASE Tail(line) = <<>>
  <2>1. Complete(raw) /\ raw = w
    BY <1>1, <1>3, <1>5, Zenon DEF Whole
  <2>2. ~Holds(dec, raw) /\ ~Refused(dec, raw)
    BY <1>1, <2>1, Zenon DEF Says
  <2>3. /\ dec'.buffer = <<>> /\ dec'.prev = Content(raw) /\ ~dec'.pending
        /\ ~reported' /\ wrong' = wrong /\ expected' = <<>>
    BY <1>1, <1>2, <2>1, <2>2, BitTaken, Zenon
  <2> HIDE DEF raw
  <2> QED
    BY <1>1, <1>4, <1>5, <2>1, <2>3, Zenon DEF AtBoundary, Ends, raw
<1>6. CASE Tail(line) # <<>>
  <2>1. ~Complete(raw) /\ Between(w, raw, line')
    BY <1>3, <1>4, <1>6, Zenon
  <2>2. /\ dec'.buffer = raw /\ dec'.prev = dec.prev /\ dec'.pending = dec.pending
        /\ dec'.pendingBad = dec.pendingBad
        /\ ~reported' /\ wrong' = wrong /\ expected' = expected
    BY <1>2, <2>1, BitTaken, Zenon
  <2>3. Says(dec', w, r)
    BY <1>1, <2>2, Zenon DEF Says, Holds, Refused, TypeSaid
  <2> HIDE DEF raw
  <2> QED
    BY <1>1, <1>4, <2>1, <2>2, <2>3, Zenon DEF InCharacter, Joins, raw
<1> QED
  BY <1>5, <1>6

\* The bits of an ESC before another primitive.
LEMMA EscapeGoesOn ==
  ASSUME CodecType, InEscape, Take(Head(line))
  PROVE  LET raw == Append(dec.buffer, Head(line))
         IN  \/ Joins(raw) /\ InEscape'
             \/ Ends(raw) /\ InCharacter' /\ ~reported' /\ wrong' = wrong
<1> DEFINE raw == Append(dec.buffer, Head(line))
<1>1. PICK r, e, w, rest :
             /\ expected = <<r>>
             /\ WholeEscape(e) /\ Between(e, dec.buffer, rest) /\ InChain(dec.prev, e)
             /\ Whole(w) /\ line = rest \o w
             /\ InChain(Content(e), w) /\ AfterEscape(w, r) /\ Content(w) = enc.prev
  BY Zenon DEF InEscape
<1>2. ~dec.pending /\ Whole(e) /\ PrimitiveType(e) = "ESC" /\ w \in Seq(Bit)
  BY <1>1, Zenon DEF InEscape, WholeEscape, Whole
<1>3. /\ line # <<>>
      /\ Tail(rest) = <<>> => raw = e /\ Complete(raw) /\ Tail(line) = w
      /\ Tail(rest) # <<>> => ~Complete(raw) /\ Between(e, raw, Tail(rest)) /\ Tail(line) = Tail(rest) \o w
  <2>1. OneFurther(e, dec.buffer, rest, w)
    BY <1>1, <1>2, OnTheWay, Zenon
  <2> QED
    BY <1>1, <2>1, Zenon DEF OneFurther
<1>4. Head(line) \in Bit
  BY <1>3, HeadAndTail, Zenon DEF CodecType
<1>5. line' = Tail(line) /\ enc' = enc
  BY <1>3, <1>4, BitTaken, Zenon
<1>6. CASE Tail(rest) = <<>>
  <2>1. Complete(raw) /\ raw = e /\ line' = w /\ Holds(dec, raw)
    BY <1>2, <1>3, <1>5, <1>6, Zenon DEF Holds
  <2>2. /\ dec'.buffer = <<>> /\ dec'.prev = Content(e)
        /\ dec'.pending /\ ~dec'.pendingBad
        /\ ~reported' /\ wrong' = wrong /\ expected' = expected
    BY <1>1, <1>3, <1>4, <2>1, BitTaken, Zenon
  <2>3. Says(dec', w, r)
    BY <1>1, <2>2, Zenon DEF Says, Holds, Refused, TypeSaid, AfterEscape
  <2>4. Between(w, dec'.buffer, line')
    BY <1>1, <2>1, <2>2, NotBegun, Zenon
  <2> HIDE DEF raw
  <2> QED
    BY <1>1, <1>5, <2>1, <2>2, <2>3, <2>4, Zenon DEF InCharacter, Ends, raw
<1>7. CASE Tail(rest) # <<>>
  <2>1. ~Complete(raw) /\ Between(e, raw, Tail(rest)) /\ line' = Tail(rest) \o w
    BY <1>3, <1>5, <1>7, Zenon
  <2>2. /\ dec'.buffer = raw /\ dec'.prev = dec.prev /\ dec'.pending = dec.pending
        /\ ~reported' /\ wrong' = wrong /\ expected' = expected
    BY <1>3, <1>4, <2>1, BitTaken, Zenon
  <2> HIDE DEF raw
  <2> QED
    BY <1>1, <1>2, <1>5, <2>1, <2>2, Zenon DEF InEscape, Joins, raw
<1> QED
  BY <1>6, <1>7

-----------------------------------------------------------------------------
\* One bit of a primitive that is refused or leaves the chains apart, and the last one.
GoesOn(w, rest, more) ==
  /\ dec'.prev = dec.prev /\ dec'.pending = dec.pending /\ dec'.pendingBad = dec.pendingBad
  /\ Between(w, dec'.buffer, Tail(rest)) /\ line' = Tail(rest) \o more

IsDone(w, more) ==
  /\ dec'.buffer = <<>> /\ dec'.prev = Content(w) /\ line' = more
  /\ wrong' \in {wrong, wrong + 1}
  /\ Holds(dec, w) => /\ dec'.pending /\ (dec'.pendingBad <=> ~InChain(dec.prev, w))
                      /\ wrong' = wrong
  /\ ~Holds(dec, w) /\ Refused(dec, w) => reported' /\ wrong' = wrong

LEMMA Delivered ==
  ASSUME CodecType, Take(Head(line)),
         NEW w, Whole(w), NEW rest, Between(w, dec.buffer, rest),
         NEW more \in Seq(Bit), line = rest \o more
  PROVE  LET raw == Append(dec.buffer, Head(line))
         IN  \/ Joins(raw) /\ GoesOn(w, rest, more)
             \/ Ends(raw) /\ IsDone(w, more)
<1> DEFINE raw == Append(dec.buffer, Head(line))
<1>1. /\ line # <<>>
      /\ Tail(rest) = <<>> => raw = w /\ Complete(raw) /\ Tail(line) = more
      /\ Tail(rest) # <<>> => ~Complete(raw) /\ Between(w, raw, Tail(rest)) /\ Tail(line) = Tail(rest) \o more
  <2>1. OneFurther(w, dec.buffer, rest, more)
    BY OnTheWay, Zenon
  <2> QED
    BY <2>1, Zenon DEF OneFurther
<1>2. Head(line) \in Bit
  BY <1>1, HeadAndTail, Zenon DEF CodecType
<1>3. line' = Tail(line) /\ enc' = enc /\ wrong' \in {wrong, wrong + 1}
  BY <1>1, <1>2, BitTaken, Zenon
<1>4. CASE Tail(rest) = <<>>
  <2>1. Complete(raw) /\ raw = w /\ line' = more
    BY <1>1, <1>3, <1>4, Zenon
  <2>2. /\ dec'.buffer = <<>> /\ dec'.prev = Content(raw)
        /\ Holds(dec, raw) => /\ dec'.pending /\ (dec'.pendingBad <=> ~InChain(dec.prev, raw))
                              /\ wrong' = wrong
        /\ ~Holds(dec, raw) => /\ reported' <=> Refused(dec, raw)
                               /\ Refused(dec, raw) => wrong' = wrong
    BY <1>1, <1>2, <2>1, BitTaken, Zenon
  <2> HIDE DEF raw
  <2> QED
    BY <1>3, <2>1, <2>2, Zenon DEF Ends, IsDone, raw
<1>5. CASE Tail(rest) # <<>>
  <2>1. ~Complete(raw) /\ Between(w, raw, Tail(rest)) /\ line' = Tail(rest) \o more
    BY <1>1, <1>3, <1>5, Zenon
  <2>2. /\ dec'.buffer = raw /\ dec'.prev = dec.prev /\ dec'.pending = dec.pending
        /\ dec'.pendingBad = dec.pendingBad
        /\ ~reported' /\ wrong' = wrong /\ expected' = expected
    BY <1>1, <1>2, <2>1, BitTaken, Zenon
  <2> HIDE DEF raw
  <2> QED
    BY <1>3, <2>1, <2>2, Zenon DEF Joins, GoesOn, raw
<1> QED
  BY <1>4, <1>5

\* The primitive to be refused is: it is reported, or it is an ESC and held with its error.
LEMMA RefusedGoesOn ==
  ASSUME CodecType, ToBeRefused, Take(Head(line))
  PROVE  LET raw == Append(dec.buffer, Head(line))
         IN  \/ Joins(raw) /\ ToBeRefused'
             \/ Ends(raw) /\ wrong' = wrong /\ (reported' \/ HeldBad')
<1> DEFINE raw == Append(dec.buffer, Head(line))
<1>1. PICK w, rest, more :
        /\ Whole(w) /\ Between(w, dec.buffer, rest) /\ Refused(dec, w)
        /\ more \in Seq(Bit) /\ line = rest \o more
  BY Zenon DEF ToBeRefused
<1>2. \/ Joins(raw) /\ GoesOn(w, rest, more)
      \/ Ends(raw) /\ IsDone(w, more)
  BY <1>1, Delivered, Zenon
<1> HIDE DEF raw
<1>3. ASSUME GoesOn(w, rest, more) PROVE ToBeRefused'
  <2>1. Refused(dec', w) /\ Between(w, dec'.buffer, Tail(rest)) /\ line' = Tail(rest) \o more
    BY <1>1, <1>3, Zenon DEF GoesOn, Refused
  <2> QED
    BY <1>1, <2>1, Zenon DEF ToBeRefused
<1>4. ASSUME IsDone(w, more) PROVE wrong' = wrong /\ (reported' \/ HeldBad')
  <2>1. CASE Holds(dec, w)
    <3>1. ~dec.pending
      BY <2>1, Zenon DEF Holds
    <3>2. ~InChain(dec.prev, w)
      BY <1>1, <3>1, Zenon DEF Refused
    <3> QED
      BY <1>4, <2>1, <3>2, Zenon DEF IsDone, HeldBad
  <2>2. CASE ~Holds(dec, w)
    BY <1>1, <1>4, <2>2, Zenon DEF IsDone
  <2> QED
    BY <2>1, <2>2
<1> QED
  BY <1>2, <1>3, <1>4, Zenon DEF raw

\* The ESC before it is held.
LEMMA NextRefusedGoesOn ==
  ASSUME CodecType, NextRefused, Take(Head(line))
  PROVE  LET raw == Append(dec.buffer, Head(line))
         IN  \/ Joins(raw) /\ NextRefused'
             \/ Ends(raw) /\ wrong' = wrong /\ ToBeRefused'
<1> DEFINE raw == Append(dec.buffer, Head(line))
<1>1. PICK e, w, rest :
        /\ WholeEscape(e) /\ Between(e, dec.buffer, rest) /\ InChain(dec.prev, e)
        /\ Whole(w) /\ line = rest \o w
        /\ ~InChain(Content(e), w) \/ EscapedErrors(w) # {}
  BY Zenon DEF NextRefused
<1>2. Whole(e) /\ Holds(dec, e) /\ w \in Seq(Bit)
  BY <1>1, Zenon DEF NextRefused, WholeEscape, Whole, Holds
<1>3. \/ Joins(raw) /\ GoesOn(e, rest, w)
      \/ Ends(raw) /\ IsDone(e, w)
  BY <1>1, <1>2, Delivered, Zenon
<1> HIDE DEF raw
<1>4. ASSUME GoesOn(e, rest, w) PROVE NextRefused'
  BY <1>1, <1>4, Zenon DEF GoesOn, NextRefused
<1>5. ASSUME IsDone(e, w) PROVE wrong' = wrong /\ ToBeRefused'
  <2>1. /\ dec'.prev = Content(e) /\ dec'.pending /\ dec'.buffer = <<>> /\ line' = w
        /\ wrong' = wrong
    BY <1>2, <1>5, Zenon DEF IsDone
  <2>2. Refused(dec', w)
    BY <1>1, <2>1, Zenon DEF Refused
  <2>3. Between(w, dec'.buffer, w)
    BY <1>1, <2>1, NotBegun, Zenon
  <2>4. <<>> \in Seq(Bit) /\ line' = w \o <<>>
    BY <1>1, <2>1, NothingBehind, Zenon
  <2> QED
    BY <1>1, <2>1, <2>2, <2>3, <2>4, Zenon DEF ToBeRefused
<1> QED
  BY <1>3, <1>4, <1>5, Zenon DEF raw

\* With a content that leaves the chains apart complete, they are, or what follows is
\* refused.
LEMMA ApartWhenDone ==
  ASSUME NEW v, Whole(v), NEW more, Apart(Content(v), more),
         dec'.buffer = <<>>, dec'.prev = Content(v), line' = more, enc' = enc
  PROVE  OffParity' \/ ToBeRefused'
<1>1. CASE more = <<>> /\ enc.bad = {} /\ Differ(Content(v), enc.prev)
  BY <1>1, Zenon DEF OffParity
<1>2. CASE Whole(more) /\ ~InChain(Content(v), more)
  <2>1. Refused(dec', more)
    BY <1>2, Zenon DEF Refused
  <2>2. Between(more, dec'.buffer, more)
    BY <1>2, NotBegun, Zenon
  <2>3. <<>> \in Seq(Bit) /\ line' = more \o <<>>
    BY <1>2, NothingBehind, Zenon
  <2> QED
    BY <1>2, <2>1, <2>2, <2>3, Zenon DEF ToBeRefused
<1> QED
  BY <1>1, <1>2, Zenon DEF Apart

LEMMA FlippedGoesOn ==
  ASSUME CodecType, Flipped, Take(Head(line))
  PROVE  LET raw == Append(dec.buffer, Head(line))
         IN  \/ Joins(raw) /\ Flipped'
             \/ Ends(raw) /\ wrong' \in {wrong, wrong + 1} /\ (OffParity' \/ ToBeRefused')
<1> DEFINE raw == Append(dec.buffer, Head(line))
<1>1. PICK v, rest, more :
        /\ Whole(v) /\ Between(v, dec.buffer, rest)
        /\ line = rest \o more /\ Apart(Content(v), more)
  BY Zenon DEF Flipped
<1>2. more \in Seq(Bit)
  BY <1>1, EmptySeq, Zenon DEF Apart, Whole
<1>3. \/ Joins(raw) /\ GoesOn(v, rest, more)
      \/ Ends(raw) /\ IsDone(v, more)
  BY <1>1, <1>2, Delivered, Zenon
<1> HIDE DEF raw
<1>4. ASSUME Joins(raw), GoesOn(v, rest, more) PROVE Flipped'
  <2>1. enc' = enc
    BY <1>4, Zenon DEF Joins
  <2>2. /\ Between(v, dec'.buffer, Tail(rest)) /\ line' = Tail(rest) \o more
    BY <1>4, Zenon DEF GoesOn
  <2>3. Apart(Content(v), more)'
    BY <1>1, <2>1, Zenon DEF Apart
  <2> QED
    BY <1>1, <2>2, <2>3, Zenon DEF Flipped
<1>5. ASSUME Ends(raw), IsDone(v, more)
      PROVE  wrong' \in {wrong, wrong + 1} /\ (OffParity' \/ ToBeRefused')
  <2>1. /\ dec'.buffer = <<>> /\ dec'.prev = Content(v) /\ line' = more /\ enc' = enc
        /\ wrong' \in {wrong, wrong + 1}
    BY <1>5, Zenon DEF Ends, IsDone
  <2> QED
    BY <1>1, <2>1, ApartWhenDone, Zenon
<1> QED
  BY <1>3, <1>4, <1>5, Zenon DEF raw

\* A frame whose parity bit is wrong ends refused, whatever is collected in it.
LEMMA MisframedGoesOn ==
  ASSUME CodecType, line # <<>>, Misframed, Take(Head(line))
  PROVE  LET raw == Append(dec.buffer, Head(line))
         IN  wrong' = wrong /\ (Misframed' \/ reported' \/ HeldBad')
<1> DEFINE raw == Append(dec.buffer, Head(line))
<1>1. Head(line) \in Bit /\ dec.buffer \in Seq(Bit)
  BY HeadAndTail, Zenon DEF CodecType, DecoderRecord
<1>2. /\ Len(dec.buffer) >= 2 /\ Len(dec.buffer) \in Nat /\ ~InChain(dec.prev, dec.buffer)
  BY <1>1, LenProperties, Zenon DEF Misframed
<1>3. Len(raw) >= 2 /\ raw[1] = dec.buffer[1] /\ raw[2] = dec.buffer[2]
  BY <1>1, <1>2
<1>4. ~InChain(dec.prev, raw)
  BY <1>2, <1>3, Zenon DEF InChain
<1>5. Refused(dec, raw)
  BY <1>4, Zenon DEF Refused
<1> HIDE DEF raw
<1>6. CASE ~Complete(raw)
  <2>1. dec'.buffer = raw /\ dec'.prev = dec.prev /\ wrong' = wrong
    BY <1>1, <1>6, BitTaken, Zenon DEF raw
  <2> QED
    BY <1>3, <1>4, <2>1, Zenon DEF Misframed
<1>7. CASE Complete(raw) /\ Holds(dec, raw)
  <2>1. dec'.pending /\ dec'.pendingBad /\ wrong' = wrong
    BY <1>1, <1>4, <1>7, BitTaken, Zenon DEF raw
  <2> QED
    BY <2>1, Zenon DEF HeldBad
<1>8. CASE Complete(raw) /\ ~Holds(dec, raw)
  BY <1>1, <1>5, <1>8, BitTaken, Zenon DEF raw
<1> QED
  BY <1>6, <1>7, <1>8

\* The error of a held ESC is reported with whatever completes next.
LEMMA HeldBadGoesOn ==
  ASSUME CodecType, line # <<>>, HeldBad, Take(Head(line))
  PROVE  wrong' = wrong /\ (HeldBad' \/ reported')
<1> DEFINE raw == Append(dec.buffer, Head(line))
<1>1. Head(line) \in Bit
  BY HeadAndTail, Zenon DEF CodecType
<1>2. dec.pending /\ dec.pendingBad
  BY Zenon DEF HeldBad
<1> HIDE DEF raw
<1>3. ~Holds(dec, raw) /\ Refused(dec, raw)
  BY <1>2, Zenon DEF Holds, Refused
<1>4. CASE ~Complete(raw)
  BY <1>1, <1>2, <1>4, BitTaken, Zenon DEF raw, HeldBad
<1>5. CASE Complete(raw)
  BY <1>1, <1>3, <1>5, BitTaken, Zenon DEF raw
<1> QED
  BY <1>4, <1>5

-----------------------------------------------------------------------------
\* What is heard of a primitive one of whose bits is flipped.
WithFlip(rest) == <<1 - Head(rest)>> \o Tail(rest)

LEMMA FlippedBits ==
  ASSUME NEW b \in Seq(Bit), NEW rest \in Seq(Bit), rest # <<>>
  PROVE  LET l == WithFlip(rest)
             v == b \o l
             w == b \o rest
             k == Len(b) + 1
         IN  /\ l \in Seq(Bit) /\ l # <<>> /\ Head(l) = 1 - Head(rest) /\ Tail(l) = Tail(rest)
             /\ v \in Seq(Bit) /\ w \in Seq(Bit) /\ Len(v) = Len(w)
             /\ k \in 1 .. Len(w) /\ v[k] = 1 - w[k]
             /\ \A i \in 1 .. Len(w) : i # k => v[i] = w[i]
<1> DEFINE x == 1 - Head(rest)
           t == Tail(rest)
           h == <<x>>
           l == h \o t
           k == Len(b) + 1
<1>1. Head(rest) \in Bit /\ t \in Seq(Bit)
  BY HeadAndTail, Zenon
<1>2. x \in Bit
  BY <1>1 DEF Bit
<1>3. h \in Seq(Bit) /\ h # <<>> /\ Head(h) = x /\ Tail(h) = <<>> /\ Len(h) = 1
  BY <1>2
<1>4. l # <<>> /\ Head(l) = x /\ Tail(l) = t
  <2> HIDE DEF x, t, h
  <2>1. l # <<>> /\ Head(l) = Head(h) /\ Tail(l) = Tail(h) \o t
    BY <1>1, <1>3, HeadOfConcat, Zenon
  <2>2. <<>> \o t = t
    BY <1>1, ConcatEmptySeq, Zenon
  <2> QED
    BY <1>3, <2>1, <2>2, Zenon
<1> HIDE DEF h
<1>5. l \in Seq(Bit) /\ Len(l) = 1 + Len(t)
  BY <1>1, <1>3, BitsConcat
<1> HIDE DEF t, x
<1>6. /\ Len(t) = Len(rest) - 1
      /\ \A i \in 1 .. Len(t) : t[i] = rest[i + 1]
      /\ Len(rest) \in Nat \ {0} /\ Len(t) \in Nat
  BY <1>1, HeadTailProperties, EmptySeq, LenProperties DEF t
<1>7. Len(l) = Len(rest)
  BY <1>5, <1>6
<1> HIDE DEF l
<1>8. l[1] = 1 - rest[1]
  <2>1. Head(l) = l[1] /\ Head(rest) = rest[1]
    OBVIOUS
  <2> QED
    BY <1>4, <2>1 DEF x
<1>9. \A i \in 1 .. Len(rest) : i # 1 => l[i] = rest[i]
  <2>1. Len(l) = Len(l) /\ Tail(l) = t
    BY <1>4
  <2>2. \A i \in 1 .. Len(t) : t[i] = l[i + 1]
    BY <1>4, <1>5, <1>6, <1>7, HeadTailProperties
  <2>3. \A i \in 1 .. Len(rest) : i # 1 => i - 1 \in 1 .. Len(t) /\ (i - 1) + 1 = i
    BY <1>6
  <2> QED
    BY <1>6, <2>2, <2>3
<1> DEFINE v == b \o l
           w == b \o rest
<1>10. /\ v \in Seq(Bit) /\ w \in Seq(Bit)
       /\ Len(v) = Len(b) + Len(l) /\ Len(w) = Len(b) + Len(rest)
       /\ Len(b) \in Nat
  BY <1>5, BitsConcat, LenProperties, Zenon
<1>11. /\ \A i \in 1 .. Len(b) + Len(l) : v[i] = IF i <= Len(b) THEN b[i] ELSE l[i - Len(b)]
       /\ \A i \in 1 .. Len(b) + Len(rest) : w[i] = IF i <= Len(b) THEN b[i] ELSE rest[i - Len(b)]
  BY <1>5, BitsConcat
<1> HIDE DEF v, w
<1>12. k \in 1 .. Len(w) /\ k - Len(b) = 1 /\ ~(k <= Len(b)) /\ Len(v) = Len(w)
  BY <1>6, <1>7, <1>10
<1>13. v[k] = l[1] /\ w[k] = rest[1]
  BY <1>10, <1>11, <1>12
<1>14. ASSUME NEW i \in 1 .. Len(w), i # k PROVE v[i] = w[i]
  <2>1. i > Len(b) => i - Len(b) \in 1 .. Len(rest) /\ i - Len(b) # 1
    BY <1>6, <1>10, <1>14
  <2>2. /\ v[i] = IF i <= Len(b) THEN b[i] ELSE l[i - Len(b)]
        /\ w[i] = IF i <= Len(b) THEN b[i] ELSE rest[i - Len(b)]
    BY <1>7, <1>10, <1>11
  <2>3. i > Len(b) => l[i - Len(b)] = rest[i - Len(b)]
    BY <1>9, <2>1
  <2> QED
    BY <1>10, <2>2, <2>3
<1>15. v[k] = 1 - w[k]
  BY <1>8, <1>13
<1> QED
  BY <1>4, <1>5, <1>10, <1>12, <1>14, <1>15, Zenon DEF WithFlip, v, w, l, h, x, t

\* The content is what comes after the first two bits.
LEMMA ContentBitByBit ==
  ASSUME NEW w \in Seq(Bit), Len(w) >= 2
  PROVE  /\ Content(w) \in Seq(Bit) /\ Len(Content(w)) = Len(w) - 2
         /\ \A i \in 1 .. Len(w) - 2 : Content(w)[i] = w[i + 2]
<1>1. Len(w) \in Nat
  BY LenProperties, Zenon
<1>2. \A i \in 3 .. Len(w) : w[i] \in Bit
  BY <1>1, ElementOfSeq
<1>a. /\ SubSeq(w, 3, Len(w)) \in Seq(Bit)
      /\ Len(SubSeq(w, 3, Len(w))) = IF 3 <= Len(w) THEN Len(w) - 3 + 1 ELSE 0
      /\ \A i \in 1 .. Len(w) - 3 + 1 : SubSeq(w, 3, Len(w))[i] = w[3 + i - 1]
  BY <1>1, <1>2, SubSeqProperties
<1>b. \A n \in Nat : n >= 2 => (IF 3 <= n THEN n - 3 + 1 ELSE 0) = n - 3 + 1
  OBVIOUS
<1>3. /\ SubSeq(w, 3, Len(w)) \in Seq(Bit)
      /\ Len(SubSeq(w, 3, Len(w))) = Len(w) - 3 + 1
      /\ \A i \in 1 .. Len(w) - 3 + 1 : SubSeq(w, 3, Len(w))[i] = w[3 + i - 1]
  BY <1>1, <1>a, <1>b, Zenon
<1> DEFINE c == SubSeq(w, 3, Len(w))
<1> HIDE DEF c
<1>4. c \in Seq(Bit) /\ Len(c) = Len(w) - 2 /\ \A i \in 1 .. Len(w) - 2 : c[i] = w[i + 2]
  <2>1. \A i \in 1 .. Len(w) - 2 : 3 + i - 1 = i + 2
    BY <1>1
  <2>2. Len(w) - 3 + 1 = Len(w) - 2
    BY <1>1
  <2> QED
    BY <1>3, <2>1, <2>2, Zenon DEF c
<1> QED
  BY <1>4, Zenon DEF Content, c

\* A flipped parity bit makes the primitive wrong, a flipped flag the frame; a flipped
\* bit of the content leaves the chains apart.
LEMMA WhereTheFlipIs ==
  ASSUME NEW prev \in Seq(Bit), NEW w, Whole(w), InChain(prev, w),
         NEW b, NEW rest, Between(w, b, rest)
  PROVE  LET l   == WithFlip(rest)
             v   == b \o l
             raw == Append(b, Head(l))
         IN  /\ Head(l) = 1 - Head(rest) /\ Head(l) \in Bit /\ Tail(l) = Tail(rest)
             /\ \/ Whole(v) /\ ~InChain(prev, v) /\ Between(v, raw, Tail(l)) /\ ~Complete(raw)
                \/ Len(raw) = 2 /\ ~InChain(prev, raw) /\ ~Complete(raw)
                \/ /\ Whole(v) /\ Differ(Content(v), Content(w))
                   /\ Tail(l) = <<>> => raw = v
                   /\ Tail(l) # <<>> => Between(v, raw, Tail(l)) /\ ~Complete(raw)
<1> DEFINE l   == WithFlip(rest)
           v   == b \o l
           raw == Append(b, Head(l))
           k   == Len(b) + 1
<1>1. b \in Seq(Bit) /\ rest \in Seq(Bit) /\ rest # <<>> /\ w = b \o rest /\ Len(b) \in Nat
  BY LenProperties, Zenon DEF Between
<1>2. /\ l \in Seq(Bit) /\ l # <<>> /\ Head(l) = 1 - Head(rest) /\ Tail(l) = Tail(rest)
      /\ v \in Seq(Bit) /\ w \in Seq(Bit) /\ Len(v) = Len(w)
      /\ k \in 1 .. Len(w) /\ v[k] = 1 - w[k]
      /\ \A i \in 1 .. Len(w) : i # k => v[i] = w[i]
  BY <1>1, FlippedBits
<1>3. Head(l) \in Bit
  BY <1>2, HeadAndTail, Zenon
<1>4. Between(v, b, l)
  BY <1>1, <1>2, Zenon DEF Between
<1>5. /\ Len(w) = IF w[2] = 1 THEN 4 ELSE 10
      /\ w[1] \in Bit /\ w[2] \in Bit
  <2>1. Len(w) = IF w[2] = 1 THEN 4 ELSE 10
    BY Zenon DEF Whole, Complete
  <2> QED
    BY <1>2, <2>1, ElementOfSeq
<1> HIDE DEF l, v
<1>6. /\ raw \in Seq(Bit) /\ Len(raw) = k
      /\ \A i \in 1 .. Len(b) : raw[i] = b[i]
      /\ raw[k] = Head(l)
  BY <1>1, <1>3
<1>7. \A i \in 1 .. k : raw[i] = v[i]
  <2>1. raw = b \o <<Head(l)>> /\ l = <<Head(l)>> \o Tail(l) /\ Tail(l) \in Seq(Bit)
        /\ <<Head(l)>> \in Seq(Bit)
    BY <1>1, <1>2, <1>3, HeadAndTail, AppendIsConcat, Zenon
  <2> DEFINE h == <<Head(l)>>
             t == Tail(l)
  <2>a. b \in Seq(Bit) /\ h \in Seq(Bit) /\ t \in Seq(Bit)
    BY <1>1, <2>1, Zenon
  <2> HIDE DEF h, t
  <2>2. (b \o h) \o t = b \o (h \o t)
    BY <2>a, BitsConcat
  <2>3. v = raw \o t
    BY <2>1, <2>2, Zenon DEF v, h, t
  <2> HIDE DEF raw
  <2>4. \A i \in 1 .. Len(raw) + Len(t) : (raw \o t)[i] = IF i <= Len(raw) THEN raw[i] ELSE t[i - Len(raw)]
    BY <1>6, <2>1, BitsConcat DEF t
  <2>5. Len(t) \in Nat
    BY <2>1, LenProperties DEF t
  <2> QED
    BY <1>1, <1>6, <2>3, <2>4, <2>5
<1> HIDE DEF raw
<1>8. k = 1 \/ k = 2 \/ k > 2
  BY <1>1
<1>9. w[1] = Parity(prev, w[2])
  BY Zenon DEF InChain
<1>10. CASE k = 1
  <2>1. v[1] = 1 - w[1] /\ v[2] = w[2]
    BY <1>2, <1>5, <1>10
  <2>2. Whole(v)
    BY <1>2, <1>5, <2>1 DEF Whole, Complete
  <2>3. 1 - w[1] # w[1]
    BY <1>5 DEF Bit
  <2>4. ~InChain(prev, v)
    BY <1>9, <2>1, <2>3, Zenon DEF InChain
  <2>5. ~Complete(raw)
    BY <1>6, <1>10 DEF Complete
  <2>6. Tail(l) # <<>>
    <3>1. Tail(l) = <<>> => raw = v
      BY <1>4, <2>2, OneBitOn, Zenon DEF raw
    <3>2. Complete(v)
      BY <2>2, Zenon DEF Whole
    <3> QED
      BY <2>5, <3>1, <3>2, Zenon
  <2>7. Between(v, raw, Tail(l))
    BY <1>4, <2>2, <2>6, OneBitOn, Zenon DEF raw
  <2> QED
    BY <1>2, <1>3, <2>2, <2>4, <2>5, <2>7, Zenon DEF l, v, raw
<1>11. CASE k = 2
  <2>1. v[2] = 1 - w[2] /\ v[1] = w[1]
    BY <1>2, <1>5, <1>11
  <2>2. raw[1] = w[1] /\ raw[2] = 1 - w[2] /\ Len(raw) = 2
    BY <1>6, <1>7, <1>11, <2>1
  <2>3. Parity(prev, 1 - w[2]) # Parity(prev, w[2])
    BY <1>5, OtherFlag, Zenon
  <2>4. ~InChain(prev, raw)
    BY <1>9, <2>2, <2>3, Zenon DEF InChain
  <2>5. ~Complete(raw)
    BY <2>2 DEF Complete
  <2> QED
    BY <1>2, <1>3, <2>2, <2>4, <2>5, Zenon DEF l, raw
<1>12. CASE k > 2
  <2>1. v[1] = w[1] /\ v[2] = w[2]
    BY <1>2, <1>5, <1>12
  <2>2. Whole(v)
    BY <1>2, <1>5, <2>1 DEF Whole, Complete
  <2>3. Differ(Content(v), Content(w))
    <3> DEFINE c == Content(w)
               d == Content(v)
               j == k - 2
    <3>a. Len(w) \in Nat /\ Len(w) >= 2 /\ Len(v) = Len(w)
      BY <1>2, <1>5
    <3>b. /\ c \in Seq(Bit) /\ Len(c) = Len(w) - 2
          /\ \A i \in 1 .. Len(w) - 2 : c[i] = w[i + 2]
      BY <1>2, <3>a, ContentBitByBit, Zenon
    <3>c. /\ d \in Seq(Bit) /\ Len(d) = Len(v) - 2
          /\ \A i \in 1 .. Len(v) - 2 : d[i] = v[i + 2]
      BY <1>2, <3>a, ContentBitByBit, Zenon
    <3>1. /\ c \in Seq(Bit) /\ d \in Seq(Bit)
          /\ Len(c) = Len(w) - 2 /\ Len(d) = Len(w) - 2
          /\ \A i \in 1 .. Len(w) - 2 : c[i] = w[i + 2] /\ d[i] = v[i + 2]
      BY <3>a, <3>b, <3>c, Zenon
    <3>2. j \in 1 .. Len(c) /\ j + 2 = k
      BY <1>1, <1>2, <1>5, <1>12, <3>1
    <3>3. d[j] = 1 - c[j]
      BY <1>2, <3>1, <3>2
    <3>4. \A i \in 1 .. Len(c) : i # j => d[i] = c[i]
      <4>1. \A i \in 1 .. Len(c) : i # j => i + 2 \in 1 .. Len(w) /\ i + 2 # k
        BY <1>1, <1>5, <3>1, <3>2
      <4> QED
        BY <1>2, <3>1, <4>1
    <3> HIDE DEF c, d, j
    <3>5. Differ(c, d)
      BY <3>1, <3>2, <3>3, <3>4, FlippedDiffers
    <3>6. Differ(d, c)
      BY <3>5, Zenon DEF Differ
    <3> QED
      BY <3>6, Zenon DEF c, d
  <2>4. /\ Tail(l) = <<>> => raw = v
        /\ Tail(l) # <<>> => Between(v, raw, Tail(l)) /\ ~Complete(raw)
    BY <1>4, <2>2, OneBitOn, Zenon DEF raw
  <2> QED
    BY <1>2, <1>3, <2>2, <2>3, <2>4, Zenon DEF l, v, raw
<1> QED
  BY <1>8, <1>10, <1>11, <1>12

\* What follows a primitive in the chain is apart from any content that differs.
LEMMA ApartWhenFlipped ==
  ASSUME NEW c, NEW d, Differ(c, d), NEW more,
         \/ more = <<>> /\ enc.bad = {} /\ d = enc.prev
         \/ Whole(more) /\ InChain(d, more)
  PROVE  Apart(c, more)
<1>1. CASE more = <<>> /\ enc.bad = {} /\ d = enc.prev
  BY <1>1, Zenon DEF Apart
<1>2. CASE Whole(more) /\ InChain(d, more)
  <2>1. more[2] \in Bit
    <3>1. more \in Seq(Bit) /\ Len(more) \in {4, 10}
      BY <1>2, TypeOfWhole, Zenon DEF Whole
    <3> QED
      BY <3>1, ElementOfSeq
  <2>2. Parity(c, more[2]) # Parity(d, more[2])
    BY <2>1, DifferAlways, Zenon
  <2> QED
    BY <1>2, <2>2, Zenon DEF InChain, Apart
<1> QED
  BY <1>1, <1>2

\* One bit of a good primitive is flipped.
LEMMA FlipOfPrimitive ==
  ASSUME CodecType, NEW w, Whole(w), InChain(dec.prev, w),
         NEW rest, Between(w, dec.buffer, rest),
         NEW more \in Seq(Bit), line = rest \o more,
         \/ more = <<>> /\ enc.bad = {} /\ Content(w) = enc.prev
         \/ Whole(more) /\ InChain(Content(w), more),
         Take(1 - Head(line))
  PROVE  LET raw == Append(dec.buffer, 1 - Head(line))
         IN  \/ ~Complete(raw) /\ wrong' = wrong /\ (ToBeRefused' \/ Misframed' \/ Flipped')
             \/ Complete(raw) /\ wrong' \in {wrong, wrong + 1} /\ (OffParity' \/ ToBeRefused')
<1> DEFINE bit == 1 - Head(line)
           raw == Append(dec.buffer, bit)
           l == WithFlip(rest)
           v == dec.buffer \o l
           heard == Append(dec.buffer, Head(l))
<1>1. rest \in Seq(Bit) /\ rest # <<>> /\ dec.prev \in Seq(Bit)
  BY Zenon DEF Between, CodecType, DecoderRecord
<1>2. line # <<>> /\ Head(line) = Head(rest) /\ Tail(line) = Tail(rest) \o more
  BY <1>1, HeadOfConcat, Zenon
<1>3. /\ Head(l) = 1 - Head(rest) /\ Head(l) \in Bit /\ Tail(l) = Tail(rest)
      /\ \/ Whole(v) /\ ~InChain(dec.prev, v) /\ Between(v, heard, Tail(l)) /\ ~Complete(heard)
         \/ Len(heard) = 2 /\ ~InChain(dec.prev, heard) /\ ~Complete(heard)
         \/ /\ Whole(v) /\ Differ(Content(v), Content(w))
            /\ Tail(l) = <<>> => heard = v
            /\ Tail(l) # <<>> => Between(v, heard, Tail(l)) /\ ~Complete(heard)
  BY <1>1, WhereTheFlipIs
<1> HIDE DEF l, v, heard
<1>4. bit = Head(l) /\ bit \in Bit /\ Take(bit)
  BY <1>2, <1>3, Zenon
<1> HIDE DEF bit
<1>5. raw = heard
  BY <1>4, Zenon DEF heard
<1>6. line' = Tail(rest) \o more /\ enc' = enc /\ wrong' \in {wrong, wrong + 1}
  BY <1>2, <1>4, BitTaken, Zenon
<1>7. ~Complete(raw) => /\ dec'.buffer = raw /\ dec'.prev = dec.prev
                        /\ wrong' = wrong
  BY <1>2, <1>4, BitTaken, Zenon
<1>8. Complete(raw) => dec'.buffer = <<>> /\ dec'.prev = Content(raw)
  BY <1>2, <1>4, BitTaken, Zenon
<1> HIDE DEF raw
<1>9. CASE Whole(v) /\ ~InChain(dec.prev, v) /\ Between(v, heard, Tail(l)) /\ ~Complete(heard)
  <2>1. ~Complete(raw) /\ Between(v, dec'.buffer, Tail(rest)) /\ wrong' = wrong
    BY <1>3, <1>5, <1>7, <1>9, Zenon
  <2>2. Refused(dec', v)
    BY <1>5, <1>7, <1>9, Zenon DEF Refused
  <2>3. ToBeRefused'
    BY <1>6, <1>9, <2>1, <2>2, Zenon DEF ToBeRefused
  <2> QED
    BY <2>1, <2>3, Zenon DEF raw, bit
<1>10. CASE Len(heard) = 2 /\ ~InChain(dec.prev, heard) /\ ~Complete(heard)
  <2>1. ~Complete(raw) /\ wrong' = wrong /\ dec'.buffer = heard /\ dec'.prev = dec.prev
    BY <1>5, <1>7, <1>10, Zenon
  <2>2. Len(dec'.buffer) >= 2
    <3>1. Len(dec'.buffer) = 2
      BY <1>10, <2>1, Zenon
    <3> QED
      BY <3>1
  <2>3. Misframed'
    BY <1>10, <2>1, <2>2, Zenon DEF Misframed
  <2> QED
    BY <2>1, <2>3, Zenon DEF raw, bit
<1>11. CASE /\ Whole(v) /\ Differ(Content(v), Content(w))
            /\ Tail(l) = <<>> => heard = v
            /\ Tail(l) # <<>> => Between(v, heard, Tail(l)) /\ ~Complete(heard)
  <2>1. Apart(Content(v), more)
    BY <1>11, ApartWhenFlipped, Zenon
  <2>2. CASE Tail(l) = <<>>
    <3>1. raw = v /\ Complete(raw)
      BY <1>5, <1>11, <2>2, Zenon DEF Whole
    <3>2. line' = more
      BY <1>3, <1>6, <2>2, ConcatEmptySeq, Zenon
    <3>3. dec'.buffer = <<>> /\ dec'.prev = Content(v)
      BY <1>8, <3>1, Zenon
    <3>4. OffParity' \/ ToBeRefused'
      BY <1>6, <1>11, <2>1, <3>2, <3>3, ApartWhenDone, Zenon
    <3> QED
      BY <1>6, <3>1, <3>4, Zenon DEF raw, bit
  <2>3. CASE Tail(l) # <<>>
    <3>1. ~Complete(raw) /\ Between(v, dec'.buffer, Tail(rest)) /\ wrong' = wrong
      BY <1>3, <1>5, <1>7, <1>11, <2>3, Zenon
    <3>2. PICK u : Whole(u) /\ Between(u, dec'.buffer, Tail(rest)) /\ Apart(Content(u), more)
      BY <1>11, <2>1, <3>1, Zenon
    <3>3. Apart(Content(u), more)'
      BY <1>6, <3>2, Zenon DEF Apart
    <3>4. Flipped'
      BY <1>6, <3>2, <3>3, Zenon DEF Flipped
    <3> QED
      BY <3>1, <3>4, Zenon DEF raw, bit
  <2> QED
    BY <2>2, <2>3
<1> QED
  BY <1>3, <1>9, <1>10, <1>11, Zenon

LEMMA FlipGoesOn ==
  ASSUME CodecType, enc.bad = {}, InCharacter \/ InEscape, Take(1 - Head(line))
  PROVE  LET raw == Append(dec.buffer, 1 - Head(line))
         IN  \/ ~Complete(raw) /\ wrong' = wrong /\ (ToBeRefused' \/ Misframed' \/ Flipped')
             \/ Complete(raw) /\ wrong' \in {wrong, wrong + 1} /\ (OffParity' \/ ToBeRefused')
<1>1. CASE InCharacter
  <2>1. PICK r, w : /\ Whole(w) /\ Between(w, dec.buffer, line)
                    /\ Says(dec, w, r) /\ Content(w) = enc.prev
    BY <1>1, Zenon DEF InCharacter
  <2>2. InChain(dec.prev, w)
    BY <2>1, Zenon DEF Says, Refused
  <2>3. <<>> \in Seq(Bit) /\ line = line \o <<>>
    BY EmptySeq, ConcatEmptySeq, Zenon DEF CodecType
  <2> QED
    BY <2>1, <2>2, <2>3, FlipOfPrimitive
<1>2. CASE InEscape
  <2>1. PICK e, w, rest :
             /\ WholeEscape(e) /\ Between(e, dec.buffer, rest) /\ InChain(dec.prev, e)
             /\ Whole(w) /\ line = rest \o w /\ InChain(Content(e), w)
    BY <1>2, Zenon DEF InEscape
  <2>2. Whole(e) /\ w \in Seq(Bit)
    BY <2>1, Zenon DEF WholeEscape, Whole
  <2> QED
    BY <2>1, <2>2, FlipOfPrimitive
<1> QED
  BY <1>1, <1>2

-----------------------------------------------------------------------------
\* While something is under way nothing is encoded; these are under way.
LEMMA UnderWay ==
  ASSUME CodecType, line = <<>>
  PROVE  ~InCharacter /\ ~InEscape /\ ~NextRefused /\ ~ToBeRefused /\ ~Flipped
<1>1. \A w, b, rest : Between(w, b, rest) => rest \in Seq(Bit) /\ rest # <<>>
  BY Zenon DEF Between
<1>2. \A w, b, rest : \A more \in Seq(Bit) : Between(w, b, rest) => rest \o more # <<>>
  BY <1>1, BitsConcat, Zenon
<1>3. \A w : Whole(w) => w \in Seq(Bit)
  BY Zenon DEF Whole
<1>4. \A c, more : Apart(c, more) => more \in Seq(Bit)
  BY <1>3, EmptySeq, Zenon DEF Apart
<1>5. ~InCharacter
  BY <1>1, Zenon DEF InCharacter
<1>6. ~InEscape /\ ~NextRefused
  BY <1>2, <1>3, Zenon DEF InEscape, NextRefused
<1>7. ~ToBeRefused
  BY <1>2, Zenon DEF ToBeRefused
<1>8. ~Flipped
  BY <1>2, <1>4, Zenon DEF Flipped
<1> QED
  BY <1>5, <1>6, <1>7, <1>8, Zenon

\* A whole primitive put on an idle line after a boundary of the frame.
LEMMA PutOnTheLine ==
  ASSUME NEW b, dec.buffer = <<>>, dec' = dec, line' = b,
         \/ Whole(b) /\ Refused(dec, b)
         \/ \E e, w : Whole(e) /\ Refused(dec, e) /\ Whole(w) /\ b = e \o w
  PROVE  ToBeRefused'
<1>1. \A w : Whole(w) => Between(w, dec'.buffer, w) /\ w \in Seq(Bit) /\ w = w \o <<>>
  BY NotBegun, NothingBehind, Zenon
<1>2. <<>> \in Seq(Bit)
  BY EmptySeq, Zenon
<1>3. ASSUME Whole(b), Refused(dec, b) PROVE ToBeRefused'
  BY <1>1, <1>2, <1>3, Zenon DEF ToBeRefused
<1>4. ASSUME NEW e, NEW w, Whole(e), Refused(dec, e), Whole(w), b = e \o w PROVE ToBeRefused'
  BY <1>1, <1>4, Zenon DEF ToBeRefused
<1> QED
  BY <1>3, <1>4, Zenon

\* A request encoded between characters: what force_bad_parity asked for is the first
\* primitive, the second, or neither.
LEMMA SendAtBoundary ==
  ASSUME CodecType, AtBoundary, NEW r, Constructed(r),
         dec' = dec, enc' = Encode(enc, r).enc, line' = Encode(enc, r).bits,
         expected' = Append(expected, r)
  PROVE  \/ 0 \in enc.bad /\ ToBeRefused'
         \/ /\ 0 \notin enc.bad /\ enc'.bad = {o - 1 : o \in enc.bad}
            /\ InCharacter'
         \/ /\ 0 \notin enc.bad /\ 1 \in enc.bad
            /\ NextRefused'
         \/ /\ 0 \notin enc.bad /\ 1 \notin enc.bad /\ enc'.bad = {o - 2 : o \in enc.bad}
            /\ InEscape'
<1>1. /\ enc \in EncoderRecord /\ enc.bad \subseteq Int
      /\ expected = <<>> /\ dec.buffer = <<>> /\ ~dec.pending /\ dec.prev = enc.prev
  BY Zenon DEF AtBoundary, CodecType, EncoderRecord
<1>2. expected' = <<r>>
  BY <1>1
<1>3. \/ Sent(enc, line', enc') /\ Plain(line', r)
      \/ \E e, w, mid : /\ SentEscape(enc, e, mid) /\ Sent(mid, w, enc')
                        /\ AfterEscape(w, r) /\ line' = e \o w
  BY <1>1, EncodedChain, Zenon
<1>4. ASSUME Sent(enc, line', enc'), Plain(line', r), 0 \notin enc.bad
      PROVE  enc'.bad = {o - 1 : o \in enc.bad} /\ InCharacter'
  <2>1. enc.bad \ {0} = enc.bad
    BY <1>4
  <2>2. /\ enc'.bad = {o - 1 : o \in enc.bad} /\ Whole(line') /\ enc'.prev = Content(line')
        /\ InChain(dec'.prev, line')
    BY <1>1, <1>4, <2>1, Zenon DEF Sent
  <2>3. Says(dec', line', r)
    BY <1>1, <1>4, <2>2, Zenon DEF Says, Plain, Holds, Refused, TypeSaid
  <2>4. Between(line', dec'.buffer, line')
    BY <1>1, <2>2, NotBegun, Zenon
  <2> QED
    BY <1>2, <2>2, <2>3, <2>4, Zenon DEF InCharacter
<1>5. ASSUME Sent(enc, line', enc'), 0 \in enc.bad
      PROVE  ToBeRefused'
  <2>1. Whole(line') /\ Refused(dec, line')
    BY <1>1, <1>5, Zenon DEF Sent, Refused
  <2> QED
    BY <1>1, <2>1, PutOnTheLine, Zenon
<1>6. ASSUME NEW e, NEW w, NEW mid, SentEscape(enc, e, mid), Sent(mid, w, enc'),
             AfterEscape(w, r), line' = e \o w
      PROVE  \/ 0 \in enc.bad /\ ToBeRefused'
             \/ 0 \notin enc.bad /\ 1 \in enc.bad /\ NextRefused'
             \/ /\ 0 \notin enc.bad /\ 1 \notin enc.bad /\ enc'.bad = {o - 2 : o \in enc.bad}
                /\ InEscape'
  <2>1. /\ WholeEscape(e) /\ Whole(e) /\ mid.prev = Content(e)
        /\ mid.bad = {o - 1 : o \in enc.bad \ {0}}
        /\ InChain(dec.prev, e) <=> 0 \notin enc.bad
    BY <1>1, <1>6, Zenon DEF SentEscape, Sent
  <2>2. /\ Whole(w) /\ enc'.prev = Content(w)
        /\ enc'.bad = {o - 1 : o \in mid.bad \ {0}}
        /\ InChain(Content(e), w) <=> 0 \notin mid.bad
    BY <1>6, <2>1, Zenon DEF Sent
  <2>3. 0 \in mid.bad <=> 1 \in enc.bad
    BY <1>1, <2>1
  <2>4. 0 \notin enc.bad /\ 1 \notin enc.bad => enc'.bad = {o - 2 : o \in enc.bad}
    <3>1. SUFFICES ASSUME 0 \notin enc.bad, 1 \notin enc.bad
                   PROVE  enc'.bad = {o - 2 : o \in enc.bad}
      OBVIOUS
    <3>2. mid.bad = {o - 1 : o \in enc.bad}
      BY <2>1, <3>1
    <3>3. enc'.bad = {o - 1 : o \in mid.bad}
      BY <2>2, <2>3, <3>1
    <3>4. \A o \in enc.bad : (o - 1) - 1 = o - 2
      BY <1>1
    <3> QED
      BY <3>2, <3>3, <3>4
  <2>5. Between(e, dec'.buffer, e)
    BY <1>1, <2>1, NotBegun, Zenon
  <2>6. CASE 0 \in enc.bad
    <3>1. Refused(dec, e)
      BY <2>1, <2>6, Zenon DEF Refused
    <3>2. ToBeRefused'
      BY <1>1, <1>6, <2>1, <2>2, <3>1, PutOnTheLine, Zenon
    <3> QED
      BY <2>6, <3>2
  <2>7. CASE 0 \notin enc.bad /\ 1 \in enc.bad
    <3>1. NextRefused'
      BY <1>1, <1>6, <2>1, <2>2, <2>3, <2>5, <2>7, Zenon DEF NextRefused
    <3> QED
      BY <2>7, <3>1
  <2>8. CASE 0 \notin enc.bad /\ 1 \notin enc.bad
    <3>1. InEscape'
      BY <1>1, <1>2, <1>6, <2>1, <2>2, <2>3, <2>5, <2>8, Zenon DEF InEscape
    <3> QED
      BY <2>4, <2>8, <3>1, Zenon
  <2> QED
    BY <2>6, <2>7, <2>8
<1> QED
  BY <1>3, <1>4, <1>5, <1>6, Zenon

\* With the chains apart the next primitive is refused.
LEMMA SendOffParity ==
  ASSUME CodecType, OffParity, NEW r, Constructed(r),
         dec' = dec, enc' = Encode(enc, r).enc, line' = Encode(enc, r).bits
  PROVE  ToBeRefused'
<1>1. /\ enc \in EncoderRecord /\ enc.bad = {} /\ dec.buffer = <<>>
      /\ Differ(dec.prev, enc.prev)
  BY Zenon DEF OffParity, CodecType
<1>2. \/ Sent(enc, line', enc')
      \/ \E e, w, mid : SentEscape(enc, e, mid) /\ Sent(mid, w, enc') /\ line' = e \o w
  BY <1>1, EncodedChain, Zenon
<1>3. 0 \notin enc.bad
  BY <1>1
<1>4. ASSUME NEW w, NEW y, Sent(enc, w, y)
      PROVE  Whole(w) /\ Refused(dec, w)
  <2>1. Whole(w) /\ InChain(enc.prev, w)
    BY <1>3, <1>4, Zenon DEF Sent
  <2>2. w[2] \in Bit
    <3>1. w \in Seq(Bit) /\ Len(w) \in {4, 10}
      BY <2>1, TypeOfWhole, Zenon DEF Whole
    <3> QED
      BY <3>1, ElementOfSeq
  <2>3. Parity(dec.prev, w[2]) # Parity(enc.prev, w[2])
    BY <1>1, <2>2, DifferAlways, Zenon
  <2> QED
    BY <2>1, <2>3, Zenon DEF InChain, Refused
<1>5. \A e, mid : SentEscape(enc, e, mid) => Sent(enc, e, mid)
  BY Zenon DEF SentEscape
<1>6. \A mid, w, y : Sent(mid, w, y) => Whole(w)
  BY Zenon DEF Sent
<1>7. \/ Whole(line') /\ Refused(dec, line')
      \/ \E e, w : Whole(e) /\ Refused(dec, e) /\ Whole(w) /\ line' = e \o w
  BY <1>2, <1>4, <1>5, <1>6, Zenon
<1> QED
  BY <1>1, <1>7, PutOnTheLine, Zenon

-----------------------------------------------------------------------------
(***************************************************************************)
(* The invariant.  Without a fault nothing is amiss.  With one, how many   *)
(* primitives may still be completed (due) and what has been passed on     *)
(* (wrong) follow from where the harm is: a bad parity still to be encoded *)
(* is counted over what is under way, and what has been passed on wrong    *)
(* was the one character that hid the flip.                                *)
(***************************************************************************)
Sound == wrong = 0 /\ enc.bad = {} /\ (AtBoundary \/ InCharacter \/ InEscape)

BadAhead ==
  /\ wrong = 0
  /\ \E o \in Nat : /\ enc.bad = {o}
                    /\ \/ AtBoundary /\ due = o + 1
                       \/ InCharacter /\ due = o + 2
                       \/ InEscape /\ due = o + 3

Harmed ==
  \/ BadAhead
  \/ NextRefused /\ wrong = 0 /\ due >= 2
  \/ Flipped /\ wrong = 0 /\ due >= 2
  \/ (ToBeRefused \/ OffParity \/ Misframed) /\ wrong <= 1 /\ due >= 1
  \/ HeldBad /\ wrong <= 1

CodecInv ==
  /\ CodecType
  /\ ~faulty => Sound /\ ~reported
  /\ faulty => wrong <= 1 /\ (reported \/ Harmed)

LEMMA SendKeepsCodec ==
  ASSUME CodecInv, NEW r, Constructed(r), Send(r)
  PROVE  CodecInv'
<1>1. /\ CodecType /\ line = <<>> /\ ~reported /\ enc \in EncoderRecord /\ expected \in Seq(Request)
      /\ dec \in DecoderRecord
  BY Zenon DEF CodecInv, CodecType, Send
<1>2. /\ enc' = Encode(enc, r).enc /\ line' = Encode(enc, r).bits
      /\ expected' = Append(expected, r)
      /\ dec' = dec /\ wrong' = wrong /\ faulty' = faulty /\ due' = due /\ reported' = reported
  BY Zenon DEF Send
<1>3. enc' \in EncoderRecord /\ line' \in Seq(Bit)
  <2>1. \/ Sent(enc, line', enc')
        \/ \E e, w, mid : SentEscape(enc, e, mid) /\ Sent(mid, w, enc') /\ line' = e \o w
    BY <1>1, <1>2, EncodedChain, Zenon
  <2>2. \A e, w \in Seq(Bit) : e \o w \in Seq(Bit)
    BY BitsConcat
  <2>3. \A x, w, y : Sent(x, w, y) => w \in Seq(Bit) /\ y \in EncoderRecord
    BY Zenon DEF Sent, Whole
  <2>4. \A x, e, y : SentEscape(x, e, y) => Sent(x, e, y)
    BY Zenon DEF SentEscape
  <2> QED
    BY <2>1, <2>2, <2>3, <2>4, Zenon
<1>4. r \in Request
  BY Zenon DEF Constructed
<1>5. expected' \in Seq(Request)
  BY <1>1, <1>2, <1>4, AppendProperties, Zenon
<1>6. CodecType'
  BY <1>1, <1>2, <1>3, <1>5, Zenon DEF CodecType
<1>7. ~InCharacter /\ ~InEscape /\ ~NextRefused /\ ~ToBeRefused /\ ~Flipped
  BY <1>1, UnderWay, Zenon
<1>8. CASE ~faulty
  <2>1. wrong = 0 /\ enc.bad = {} /\ AtBoundary
    BY <1>7, <1>8, Zenon DEF CodecInv, Sound
  <2>2. 0 \notin enc.bad /\ 1 \notin enc.bad
        /\ {o - 1 : o \in enc.bad} = {} /\ {o - 2 : o \in enc.bad} = {}
    BY <2>1
  <2>3. enc'.bad = {} /\ (InCharacter' \/ InEscape')
    BY <1>1, <1>2, <2>1, <2>2, SendAtBoundary, Zenon
  <2> QED
    BY <1>1, <1>2, <1>6, <1>8, <2>1, <2>3, Zenon DEF CodecInv, Sound
<1>9. CASE faulty /\ BadAhead
  <2>1. wrong = 0 /\ AtBoundary
    BY <1>7, <1>9, Zenon DEF BadAhead
  <2>2. PICK o \in Nat : enc.bad = {o} /\ due = o + 1
    BY <1>7, <1>9, Zenon DEF BadAhead
  <2>3. \/ 0 \in enc.bad /\ ToBeRefused'
        \/ 0 \notin enc.bad /\ enc'.bad = {i - 1 : i \in enc.bad} /\ InCharacter'
        \/ 0 \notin enc.bad /\ 1 \in enc.bad /\ NextRefused'
        \/ /\ 0 \notin enc.bad /\ 1 \notin enc.bad
           /\ enc'.bad = {i - 2 : i \in enc.bad} /\ InEscape'
    BY <1>1, <1>2, <2>1, SendAtBoundary, Zenon
  <2>4. due' = o + 1 /\ wrong' = 0 /\ faulty' /\ ~reported'
    BY <1>1, <1>2, <1>9, <2>1, <2>2, Zenon
  <2>5. wrong' <= 1
    BY <2>4
  <2>6. ASSUME ToBeRefused' PROVE Harmed'
    <3>1. due' >= 1
      BY <2>4
    <3> QED
      BY <2>5, <2>6, <3>1, Zenon DEF Harmed
  <2>7. ASSUME 0 \notin enc.bad, enc'.bad = {i - 1 : i \in enc.bad}, InCharacter' PROVE Harmed'
    <3>1. o - 1 \in Nat /\ enc'.bad = {o - 1} /\ due' = (o - 1) + 2
      BY <2>2, <2>4, <2>7
    <3>2. BadAhead'
      BY <2>4, <2>7, <3>1, Zenon DEF BadAhead
    <3> QED
      BY <3>2, Zenon DEF Harmed
  <2>8. ASSUME 1 \in enc.bad, NextRefused' PROVE Harmed'
    <3>1. due' >= 2
      BY <2>2, <2>4, <2>8
    <3> QED
      BY <2>4, <2>8, <3>1, Zenon DEF Harmed
  <2>9. ASSUME 0 \notin enc.bad, 1 \notin enc.bad,
               enc'.bad = {i - 2 : i \in enc.bad}, InEscape'
        PROVE  Harmed'
    <3>1. o - 2 \in Nat /\ enc'.bad = {o - 2} /\ due' = (o - 2) + 3
      BY <2>2, <2>4, <2>9
    <3>2. BadAhead'
      BY <2>4, <2>9, <3>1, Zenon DEF BadAhead
    <3> QED
      BY <3>2, Zenon DEF Harmed
  <2>10. Harmed'
    BY <2>3, <2>6, <2>7, <2>8, <2>9, Zenon
  <2> QED
    BY <1>6, <2>4, <2>5, <2>10, Zenon DEF CodecInv
<1>10. CASE faulty /\ OffParity /\ wrong <= 1 /\ due >= 1
  <2>1. ToBeRefused'
    BY <1>1, <1>2, <1>10, SendOffParity, Zenon
  <2>2. Harmed'
    BY <1>2, <1>10, <2>1, Zenon DEF Harmed
  <2> QED
    BY <1>2, <1>6, <1>10, <2>2, Zenon DEF CodecInv
<1>11. CASE faulty /\ Misframed /\ wrong <= 1 /\ due >= 1
  <2>1. Misframed'
    BY <1>2, <1>11, Zenon DEF Misframed
  <2>2. Harmed'
    BY <1>2, <1>11, <2>1, Zenon DEF Harmed
  <2> QED
    BY <1>2, <1>6, <1>11, <2>2, Zenon DEF CodecInv
<1>12. CASE faulty /\ HeldBad /\ wrong <= 1
  <2>1. HeldBad'
    BY <1>2, <1>12, Zenon DEF HeldBad
  <2>2. Harmed'
    BY <1>2, <1>12, <2>1, Zenon DEF Harmed
  <2> QED
    BY <1>2, <1>6, <1>12, <2>2, Zenon DEF CodecInv
<1>13. faulty => Harmed
  BY <1>1, Zenon DEF CodecInv
<1> QED
  BY <1>7, <1>8, <1>9, <1>10, <1>11, <1>12, <1>13, Zenon DEF Harmed

\* The type of what a bit leaves.
LEMMA BitKeepsType ==
  ASSUME CodecType, NEW bit \in Bit, line # <<>>, Take(bit), faulty' \in BOOLEAN, due' \in Nat
  PROVE  CodecType'
<1>1. /\ dec' \in DecoderRecord /\ line' \in Seq(Bit)
      /\ expected' \in Seq(Request) /\ wrong' \in {wrong, wrong + 1}
      /\ reported' \in BOOLEAN /\ enc' = enc
  BY BitTaken, Zenon
<1>2. wrong' \in Nat
  BY <1>1 DEF CodecType
<1> QED
  BY <1>1, <1>2, Zenon DEF CodecType

LEMMA DeliverKeepsCodec ==
  ASSUME CodecInv, Deliver
  PROVE  CodecInv'
<1> DEFINE raw == Append(dec.buffer, Head(line))
<1>1. /\ CodecType /\ line # <<>> /\ ~reported /\ Take(Head(line)) /\ Head(line) \in Bit
      /\ faulty' = faulty /\ faulty \in BOOLEAN /\ due \in Nat /\ wrong \in Nat
  BY HeadAndTail, Zenon DEF CodecInv, CodecType, Deliver
<1>2. due' = IF faulty /\ due > 0 /\ Complete(raw) THEN due - 1 ELSE due
  BY Zenon DEF Deliver, CompletesPrimitive
<1> HIDE DEF raw
<1>3. /\ due' \in Nat
      /\ ~Complete(raw) => due' = due
      /\ faulty /\ due > 0 /\ Complete(raw) => due' = due - 1
  BY <1>1, <1>2
<1>4. CodecType'
  BY <1>1, <1>3, BitKeepsType, Zenon
<1>5. ~AtBoundary /\ ~OffParity
  BY <1>1, Zenon DEF AtBoundary, OffParity
<1>6. InCharacter => \/ Joins(raw) /\ InCharacter'
                     \/ Ends(raw) /\ AtBoundary' /\ ~reported' /\ wrong' = wrong
  BY <1>1, CharacterGoesOn, Zenon DEF raw
<1>7. InEscape => \/ Joins(raw) /\ InEscape'
                  \/ Ends(raw) /\ InCharacter' /\ ~reported' /\ wrong' = wrong
  BY <1>1, EscapeGoesOn, Zenon DEF raw
<1>8. CASE ~faulty
  <2>1. wrong = 0 /\ enc.bad = {} /\ (InCharacter \/ InEscape)
    BY <1>5, <1>8, Zenon DEF CodecInv, Sound
  <2>2. /\ wrong' = wrong /\ enc' = enc /\ ~reported'
        /\ AtBoundary' \/ InCharacter' \/ InEscape'
    BY <1>6, <1>7, <2>1, Zenon DEF Joins, Ends
  <2> QED
    BY <1>1, <1>4, <1>8, <2>1, <2>2, Zenon DEF CodecInv, Sound
<1>9. CASE faulty
  <2>1. wrong <= 1 /\ Harmed
    BY <1>1, <1>9, Zenon DEF CodecInv
  <2>2. ASSUME BadAhead PROVE wrong' <= 1 /\ Harmed'
    <3>1. PICK o \in Nat : /\ enc.bad = {o}
                           /\ (InCharacter /\ due = o + 2) \/ (InEscape /\ due = o + 3)
      BY <1>5, <2>2, Zenon DEF BadAhead
    <3>2. /\ InCharacter => \/ ~Complete(raw) /\ InCharacter'
                            \/ Complete(raw) /\ AtBoundary'
          /\ InEscape => \/ ~Complete(raw) /\ InEscape'
                         \/ Complete(raw) /\ InCharacter'
          /\ wrong' = wrong /\ enc' = enc
      BY <1>6, <1>7, <3>1, Zenon DEF Joins, Ends
    <3>3. /\ due = o + 2 => due > 0 /\ due - 1 = o + 1
          /\ due = o + 3 => due > 0 /\ due - 1 = o + 2
      OBVIOUS
    <3>4. \/ AtBoundary' /\ due' = o + 1
          \/ InCharacter' /\ due' = o + 2
          \/ InEscape' /\ due' = o + 3
      BY <1>3, <1>9, <3>1, <3>2, <3>3, Zenon
    <3>5. wrong' = 0 /\ enc'.bad = {o}
      BY <2>2, <3>1, <3>2, Zenon DEF BadAhead
    <3>6. wrong' <= 1
      BY <3>5
    <3>7. BadAhead'
      BY <3>4, <3>5, Zenon DEF BadAhead
    <3> QED
      BY <3>6, <3>7, Zenon DEF Harmed
  <2>3. ASSUME NextRefused, wrong = 0, due >= 2 PROVE wrong' <= 1 /\ Harmed'
    <3>1. \/ ~Complete(raw) /\ wrong' = wrong /\ NextRefused'
          \/ Complete(raw) /\ wrong' = wrong /\ ToBeRefused'
      BY <1>1, <2>3, NextRefusedGoesOn, Zenon DEF raw, Joins, Ends
    <3>2. /\ wrong' = 0 => wrong' <= 1
          /\ Complete(raw) => due' >= 1
      BY <1>1, <1>3, <1>9, <2>3
    <3> QED
      BY <1>3, <2>3, <3>1, <3>2, Zenon DEF Harmed
  <2>4. ASSUME Flipped, wrong = 0, due >= 2 PROVE wrong' <= 1 /\ Harmed'
    <3>1. \/ ~Complete(raw) /\ wrong' = wrong /\ Flipped'
          \/ Complete(raw) /\ wrong' \in {wrong, wrong + 1} /\ (OffParity' \/ ToBeRefused')
      BY <1>1, <2>4, FlippedGoesOn, Zenon DEF raw, Joins, Ends
    <3>2. /\ wrong' \in {wrong, wrong + 1} => wrong' <= 1
          /\ wrong' = wrong => wrong' <= 1
          /\ Complete(raw) => due' >= 1
      BY <1>1, <1>3, <1>9, <2>4
    <3> QED
      BY <1>3, <2>4, <3>1, <3>2, Zenon DEF Harmed
  <2>5. ASSUME ToBeRefused, due >= 1 PROVE wrong' <= 1 /\ (reported' \/ Harmed')
    <3>1. \/ ~Complete(raw) /\ wrong' = wrong /\ ToBeRefused'
          \/ Complete(raw) /\ wrong' = wrong /\ (reported' \/ HeldBad')
      BY <1>1, <2>5, RefusedGoesOn, Zenon DEF raw, Joins, Ends
    <3> QED
      BY <1>3, <2>1, <2>5, <3>1, Zenon DEF Harmed
  <2>6. ASSUME Misframed, due >= 1 PROVE wrong' <= 1 /\ (reported' \/ Harmed')
    <3>1. wrong' = wrong /\ (Misframed' \/ reported' \/ HeldBad')
      BY <1>1, <2>6, MisframedGoesOn, Zenon DEF raw
    <3>2. Misframed' => ~Complete(raw)
      <4>1. Len(<<>>) = 0 /\ ~(0 >= 2)
        OBVIOUS
      <4>2. Complete(raw) => dec'.buffer = <<>>
        BY <1>1, BitTaken, Zenon DEF raw
      <4> QED
        BY <4>1, <4>2, Zenon DEF Misframed
    <3> QED
      BY <1>3, <2>1, <2>6, <3>1, <3>2, Zenon DEF Harmed
  <2>7. ASSUME HeldBad PROVE wrong' <= 1 /\ (reported' \/ Harmed')
    <3>1. wrong' = wrong /\ (HeldBad' \/ reported')
      BY <1>1, <2>7, HeldBadGoesOn, Zenon
    <3> QED
      BY <2>1, <3>1, Zenon DEF Harmed
  <2>8. wrong' <= 1 /\ (reported' \/ Harmed')
    BY <1>5, <2>1, <2>2, <2>3, <2>4, <2>5, <2>6, <2>7, Zenon DEF Harmed
  <2> QED
    BY <1>1, <1>4, <1>9, <2>8, Zenon DEF CodecInv
<1> QED
  BY <1>1, <1>8, <1>9

LEMMA FlipKeepsCodec ==
  ASSUME CodecInv, Flip
  PROVE  CodecInv'
<1> DEFINE bit == 1 - Head(line)
           raw == Append(dec.buffer, bit)
<1>1. /\ CodecType /\ line # <<>> /\ ~reported /\ ~faulty /\ Take(bit) /\ Head(line) \in Bit
      /\ faulty' = TRUE
      /\ due' = IF Complete(raw) THEN 1 ELSE 2
  BY HeadAndTail, Zenon DEF CodecInv, CodecType, Flip, CompletesPrimitive
<1>2. bit \in Bit
  BY <1>1 DEF Bit
<1> HIDE DEF bit, raw
<1>3. due' \in Nat /\ faulty' \in BOOLEAN /\ due' >= 1 /\ (~Complete(raw) => due' >= 2)
  BY <1>1
<1>4. CodecType'
  BY <1>1, <1>2, <1>3, BitKeepsType, Zenon
<1>5. wrong = 0 /\ enc.bad = {} /\ (InCharacter \/ InEscape)
  BY <1>1, Zenon DEF CodecInv, Sound, AtBoundary
<1>6. \/ ~Complete(raw) /\ wrong' = wrong /\ (ToBeRefused' \/ Misframed' \/ Flipped')
      \/ Complete(raw) /\ wrong' \in {wrong, wrong + 1} /\ (OffParity' \/ ToBeRefused')
  BY <1>1, <1>5, FlipGoesOn, Zenon DEF bit, raw
<1>7. wrong' <= 1 /\ (~Complete(raw) => wrong' = 0)
  BY <1>5, <1>6
<1>8. Harmed'
  BY <1>3, <1>6, <1>7, Zenon DEF Harmed
<1> QED
  BY <1>1, <1>4, <1>7, <1>8, Zenon DEF CodecInv

LEMMA BadParityKeepsCodec ==
  ASSUME CodecInv, NEW offset \in Nat, InjectBadParity(offset)
  PROVE  CodecInv'
<1>1. /\ CodecType /\ line = <<>> /\ ~faulty /\ ~reported /\ enc \in EncoderRecord
      /\ enc' = ForceBadParity(enc, offset) /\ due' = offset + 1 /\ faulty' = TRUE
      /\ dec' = dec /\ line' = line /\ expected' = expected /\ wrong' = wrong
      /\ reported' = reported
  BY Zenon DEF CodecInv, CodecType, InjectBadParity
<1>2. wrong = 0 /\ enc.bad = {} /\ AtBoundary
  BY <1>1, UnderWay, Zenon DEF CodecInv, Sound
<1>3. enc' \in EncoderRecord /\ enc'.prev = enc.prev /\ enc'.bad = {offset}
  BY <1>1, <1>2 DEF ForceBadParity, EncoderRecord
<1>4. due' \in Nat
  BY <1>1
<1>5. CodecType'
  BY <1>1, <1>3, <1>4, Zenon DEF CodecType
<1>6. AtBoundary'
  BY <1>1, <1>2, <1>3, Zenon DEF AtBoundary
<1>7. Harmed'
  BY <1>1, <1>2, <1>3, <1>6, Zenon DEF Harmed, BadAhead
<1>8. wrong' <= 1
  BY <1>1, <1>2
<1> QED
  BY <1>1, <1>5, <1>7, <1>8, Zenon DEF CodecInv

LEMMA IllegalEscapeKeepsCodec ==
  ASSUME CodecInv, NEW following \in {"ESC", "EOP", "EEP"}, InjectIllegalEscape(following)
  PROVE  CodecInv'
<1> DEFINE first == [type |-> "ESC", value |-> NoValue]
           then  == [type |-> following, value |-> NoValue]
           mid   == Encode(enc, first).enc
           e     == Encode(enc, first).bits
           w     == Encode(mid, then).bits
           last  == Encode(mid, then).enc
<1>1. /\ CodecType /\ line = <<>> /\ ~faulty /\ ~reported /\ enc \in EncoderRecord
      /\ enc' = last /\ line' = e \o w /\ due' = 2 /\ faulty' = TRUE
      /\ dec' = dec /\ expected' = expected /\ wrong' = wrong /\ reported' = reported
  BY Zenon DEF CodecInv, CodecType, InjectIllegalEscape
<1>2. wrong = 0 /\ enc.bad = {} /\ AtBoundary
  BY <1>1, UnderWay, Zenon DEF CodecInv, Sound
<1>3. following \in ControlType /\ "ESC" \in ControlType
  BY DEF ControlType
<1>4. ASSUME NEW t \in ControlType, NEW x \in EncoderRecord
      PROVE  LET b == Encode(x, [type |-> t, value |-> NoValue]).bits
                 y == Encode(x, [type |-> t, value |-> NoValue]).enc
             IN  Sent(x, b, y) /\ PrimitiveType(b) = t /\ b[2] = 1
  <2> DEFINE q == [type |-> t, value |-> NoValue]
  <2>1. q.type = t
    OBVIOUS
  <2> HIDE DEF q
  <2>2. Primitives(q) = <<Control(t)>>
    BY <1>4, <2>1 DEF Primitives, ControlType
  <2>3. Encode(x, q).bits = PrimitiveBits(x, Control(t)) /\ Encode(x, q).enc = AfterPrimitive(x, Control(t))
    BY <2>2, EncodeOne, Zenon
  <2> QED
    BY <1>4, <2>3, SentControl, Zenon DEF q
<1>5. Sent(enc, e, mid) /\ PrimitiveType(e) = "ESC" /\ e[2] = 1 /\ mid \in EncoderRecord
  BY <1>1, <1>3, <1>4, Zenon DEF Sent
<1> HIDE DEF first, e, mid
<1>6. Sent(mid, w, last) /\ PrimitiveType(w) = following
  BY <1>3, <1>4, <1>5, Zenon
<1> HIDE DEF then, w, last
<1>7. /\ Whole(e) /\ Whole(w) /\ last \in EncoderRecord /\ InChain(enc.prev, e)
      /\ e \in Seq(Bit) /\ w \in Seq(Bit)
  <2>1. 0 \notin enc.bad
    BY <1>2
  <2> QED
    BY <1>5, <1>6, <2>1, Zenon DEF Sent, Whole
<1>8. WholeEscape(e)
  <2>1. Len(e) = 4
    BY <1>5, <1>7, Zenon DEF Whole, Complete
  <2> QED
    BY <1>5, <1>7, <2>1, Zenon DEF WholeEscape
<1>9. EscapedErrors(w) # {}
  <2>1. EscapedErrors(w) = {"escape_error"}
    BY <1>6, EscapedMeaning, Zenon
  <2> QED
    BY <2>1
<1>10. NextRefused'
  <2>1. dec.buffer = <<>> /\ ~dec.pending /\ dec.prev = enc.prev
    BY <1>2, Zenon DEF AtBoundary
  <2>2. Between(e, dec'.buffer, e)
    BY <1>1, <1>7, <2>1, NotBegun, Zenon
  <2>3. PICK f, v : /\ WholeEscape(f) /\ Between(f, dec'.buffer, f) /\ InChain(dec'.prev, f)
                    /\ Whole(v) /\ line' = f \o v /\ EscapedErrors(v) # {}
    BY <1>1, <1>7, <1>8, <1>9, <2>1, <2>2, Zenon
  <2> QED
    BY <1>1, <2>1, <2>3, Zenon DEF NextRefused
<1>11. CodecType'
  <2>1. e \o w \in Seq(Bit) /\ 2 \in Nat
    BY <1>7, BitsConcat
  <2> QED
    BY <1>1, <1>7, <2>1, Zenon DEF CodecType
<1>12. wrong' = 0 /\ wrong' <= 1 /\ due' >= 2
  BY <1>1, <1>2
<1> QED
  BY <1>1, <1>10, <1>11, <1>12, Zenon DEF CodecInv, Harmed

LEMMA NewSession ==
  ASSUME enc' = NewEncoder, dec' = NewDecoder, line' = <<>>, expected' = <<>>, wrong' = 0,
         faulty' = FALSE, due' = 0, reported' = FALSE
  PROVE  CodecInv'
<1>1. <<>> \in Seq(Bit) /\ <<>> \in Seq(Request) /\ 0 \in Nat /\ FALSE \in BOOLEAN
  BY EmptySeq
<1>2. /\ NewEncoder \in EncoderRecord /\ NewEncoder.prev = <<>> /\ NewEncoder.bad = {}
      /\ NewDecoder \in DecoderRecord /\ NewDecoder.prev = <<>> /\ NewDecoder.buffer = <<>>
      /\ ~NewDecoder.pending
  BY <1>1 DEF NewEncoder, NewDecoder, EncoderRecord, DecoderRecord
<1>3. CodecType'
  BY <1>1, <1>2, Zenon DEF CodecType
<1>4. AtBoundary'
  BY <1>2, Zenon DEF AtBoundary
<1> QED
  BY <1>2, <1>3, <1>4, Zenon DEF CodecInv, Sound

LEMMA CodecStarts == Init => CodecInv
<1> SUFFICES ASSUME Init PROVE CodecInv
  OBVIOUS
<1>1. <<>> \in Seq(Bit) /\ <<>> \in Seq(Request) /\ 0 \in Nat /\ FALSE \in BOOLEAN
  BY EmptySeq
<1>2. /\ NewEncoder \in EncoderRecord /\ NewEncoder.prev = <<>> /\ NewEncoder.bad = {}
      /\ NewDecoder \in DecoderRecord /\ NewDecoder.prev = <<>> /\ NewDecoder.buffer = <<>>
      /\ ~NewDecoder.pending
  BY <1>1 DEF NewEncoder, NewDecoder, EncoderRecord, DecoderRecord
<1>3. CodecType
  BY <1>1, <1>2, Zenon DEF CodecType, Init
<1>4. AtBoundary
  BY <1>2, Zenon DEF AtBoundary, Init
<1> QED
  BY <1>2, <1>3, <1>4, Zenon DEF CodecInv, Sound, Init

LEMMA CodecGoesOn ==
  ASSUME OnlyConstructed, CodecInv, [Next]_vars
  PROVE  CodecInv'
<1>1. ASSUME NEW r \in Requests, Send(r) PROVE CodecInv'
  BY <1>1, SendKeepsCodec, Zenon DEF OnlyConstructed
<1>2. ASSUME NEW offset \in 0 .. MaxBadParityAhead, InjectBadParity(offset) PROVE CodecInv'
  <2>1. offset \in Nat
    BY CodecConstants
  <2> QED
    BY <1>2, <2>1, BadParityKeepsCodec, Zenon
<1>3. ASSUME NEW following \in {"ESC", "EOP", "EEP"}, InjectIllegalEscape(following)
      PROVE  CodecInv'
  BY <1>3, IllegalEscapeKeepsCodec, Zenon
<1>4. ASSUME Restart PROVE CodecInv'
  BY <1>4, NewSession, Zenon DEF Restart, ResetDecoder
<1>5. ASSUME UNCHANGED vars PROVE CodecInv'
  BY <1>5, Zenon DEF vars, CodecInv, CodecType, Sound, Harmed, BadAhead, AtBoundary, InCharacter,
     InEscape, ToBeRefused, NextRefused, Apart, Flipped, OffParity, Misframed, HeldBad
<1> QED
  BY <1>1, <1>2, <1>3, <1>4, <1>5, DeliverKeepsCodec, FlipKeepsCodec, Zenon DEF Next

-----------------------------------------------------------------------------
LEMMA CodecAlways ==
  ASSUME OnlyConstructed
  PROVE  Spec => []CodecInv
<1>1. CodecInv /\ [Next]_vars => CodecInv'
  BY CodecGoesOn
<1> QED
  BY <1>1, CodecStarts, PTL DEF Spec

\* Whatever the constructors of characters.py make is decoded as it was encoded, for any
\* sequence of requests: one parity chain from reset to reset, over every ESC pair.
THEOREM RoundTripAlways ==
  ASSUME OnlyConstructed
  PROVE  Spec => []RoundTrip
<1>1. CodecInv => RoundTrip
  <2> SUFFICES ASSUME CodecInv, ~faulty
               PROVE  /\ wrong = 0 /\ ~reported
                      /\ line = <<>> => expected = <<>> /\ dec.buffer = <<>>
    BY Zenon DEF RoundTrip
  <2>1. line = <<>> => AtBoundary
    BY UnderWay, Zenon DEF CodecInv, Sound
  <2> QED
    BY <2>1, Zenon DEF CodecInv, Sound, AtBoundary
<1> QED
  BY <1>1, CodecAlways, PTL

\* A flipped bit, a forced bad parity and an illegal ESC pair are reported in time,
\* wherever they strike, misframed data included.
THEOREM FaultAlwaysReported ==
  ASSUME OnlyConstructed
  PROVE  Spec => []FaultReported
<1>1. CodecInv => FaultReported
  <2> SUFFICES ASSUME CodecInv, faulty, due = 0, ~reported
               PROVE  dec.pending
    BY Zenon DEF FaultReported
  <2>1. Harmed
    BY Zenon DEF CodecInv
  <2>2. ~(due >= 1) /\ ~(due >= 2)
    OBVIOUS
  <2>3. \A o \in Nat : due # o + 1 /\ due # o + 2 /\ due # o + 3
    OBVIOUS
  <2>4. HeldBad
    BY <2>1, <2>2, <2>3, Zenon DEF Harmed, BadAhead
  <2> QED
    BY <2>4, Zenon DEF HeldBad
<1> QED
  BY <1>1, CodecAlways, PTL

\* No more than one wrong character is passed on before the report.
THEOREM AlwaysAtMostOneWrong ==
  ASSUME OnlyConstructed
  PROVE  Spec => []AtMostOneWrong
<1>1. CodecInv => AtMostOneWrong
  <2> SUFFICES ASSUME CodecInv PROVE wrong <= 1
    BY Zenon DEF AtMostOneWrong
  <2>1. ~faulty => wrong = 0
    BY Zenon DEF CodecInv, Sound
  <2>2. faulty => wrong <= 1
    BY Zenon DEF CodecInv
  <2> QED
    BY <2>1, <2>2
<1> QED
  BY <1>1, CodecAlways, PTL
=============================================================================
