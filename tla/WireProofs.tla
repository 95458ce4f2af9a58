----------------------------- MODULE WireProofs -----------------------------
(***************************************************************************)
(* The codec of Wire.tla is right for every message and every size of the  *)
(* byte: what is encoded decodes to itself, and no message is the beginning *)
(* of another one.  Only arithmetic on two-digit numbers is needed.        *)
(***************************************************************************)
EXTENDS Wire, SequenceTheorems, TLAPS

\* Two digits to the base b stand for one number: to_le_bytes and from_le_bytes.
LEMMA TwoDigits ==
    ASSUME NEW b \in Nat \ {0}, NEW n \in 0 .. b * b - 1
    PROVE  /\ n % b \in 0 .. b - 1
           /\ n \div b \in 0 .. b - 1
           /\ (n % b) + b * (n \div b) = n
<1> DEFINE q == n \div b
<1> DEFINE r == n % b
<1>1. r \in 0 .. b - 1 /\ q \in Int /\ n = b * q + r
  BY Z3
<1>2. q >= 0 /\ q < b
  <2> HIDE DEF q, r
  <2>1. ASSUME q < 0 PROVE FALSE
    <3>1. b * q <= -b
      BY <1>1, <2>1
    <3> QED
      BY <1>1, <3>1
  <2>2. ASSUME q >= b PROVE FALSE
    <3>1. b * q >= b * b
      BY <1>1, <2>2
    <3> QED
      BY <1>1, <3>1
  <2> QED
    BY <1>1, <2>1, <2>2
<1> QED
  BY <1>1, <1>2

\* Every number of two bytes is put together from them as it was taken apart.
LEMMA Bytes16 ==
    ASSUME NEW n \in U16
    PROVE  Low(n) \in Byte /\ High(n) \in Byte /\ From16(Low(n), High(n)) = n
<1>1. Radix \in Nat \ {0}
  BY RadixAssumption
<1> QED
  BY <1>1, TwoDigits DEF U16, Word, Byte, Low, High, From16

\* The same for a number of four bytes and its two halves.
LEMMA Halves32 ==
    ASSUME NEW n \in U32
    PROVE  n % Word \in U16 /\ n \div Word \in U16 /\ (n % Word) + Word * (n \div Word) = n
<1>1. Word \in Nat \ {0}
  BY RadixAssumption DEF Word
<1> QED
  BY <1>1, TwoDigits DEF U16, U32

\* Two's complement: wrapping an i16 and reading it back gives the same number.
LEMMA SignedWrapped ==
    ASSUME NEW n \in I16
    PROVE  Wrapped(n) \in U16 /\ Signed(Wrapped(n)) = n
<1>1. Word \in Nat /\ Word % 2 = 0
  <2>1. Radix = 2 * (Radix \div 2) /\ Radix \div 2 \in Nat
    BY RadixAssumption
  <2> DEFINE h == Radix \div 2
  <2> HIDE DEF h
  <2>2. Word = 2 * (h * Radix) /\ h * Radix \in Nat
    BY <2>1, RadixAssumption DEF Word, h
  <2> QED
    BY <2>2
<1>2. 2 * (Word \div 2) = Word /\ Word \div 2 \in Nat
  BY <1>1
<1> QED
  BY <1>1, <1>2 DEF I16, U16, Wrapped, Signed

-----------------------------------------------------------------------------
(* What each message is encoded to, and what that decodes to *)

\* A message is encoded with its tag and the length of its type, and decodes
\* to itself.
RightBytes(tag, m) ==
    /\ Encode(m) \in Seq(Nat)
    /\ Encode(m)[1] = tag
    /\ Len(Encode(m)) = BodyLen[tag] + 1
    /\ Decode(Encode(m)) = m

LEMMA HelloBytes ==
    ASSUME NEW m \in [type : {"hello"}, version : U16]
    PROVE  RightBytes(1, m)
<1> DEFINE e == <<1, Low(m.version), High(m.version)>>
<1>1. Encode(m) = e
  BY DEF Encode
<1>2. e \in Seq(Nat) /\ Len(e) = 3 /\ e[1] = 1 /\ e # <<>>
  BY Bytes16 DEF Byte
<1>3. Decode(e) = Fields(e)
  BY <1>2 DEF Decode, BodyLen
<1>4. Fields(e) = HelloMessage(From16(e[2], e[3]))
  BY <1>2 DEF Fields
<1>5. HelloMessage(m.version) = m
  BY DEF HelloMessage
<1> QED
  BY <1>1, <1>2, <1>3, <1>4, <1>5, Bytes16 DEF RightBytes, BodyLen

LEMMA KeyBytes ==
    ASSUME NEW m \in [type : {"key"}, code : KeyCodes, pressed : BOOLEAN]
    PROVE  RightBytes(2, m)
<1> DEFINE e == <<2, Low(m.code), High(m.code), BoolByte(m.pressed)>>
<1>1. Encode(m) = e
  BY DEF Encode
<1>2. m.code \in U16 /\ m.code \in KeyCodes
  BY KeyCodesAssumption DEF U16, Word
<1>3. e \in Seq(Nat) /\ Len(e) = 4 /\ e[1] = 2 /\ e # <<>>
  BY <1>2, Bytes16 DEF Byte, BoolByte
<1>4. Decode(e) = Fields(e)
  BY <1>3 DEF Decode, BodyLen
<1>5. From16(e[2], e[3]) = m.code
  BY <1>2, Bytes16
<1>6. (e[4] # 0) = m.pressed
  BY DEF BoolByte
<1>7. Fields(e) = KeyMessage(m.code, m.pressed)
  BY <1>2, <1>3, <1>5, <1>6 DEF Fields
<1>8. KeyMessage(m.code, m.pressed) = m
  BY DEF KeyMessage
<1> QED
  BY <1>1, <1>3, <1>4, <1>7, <1>8 DEF RightBytes, BodyLen

LEMMA ButtonBytes ==
    ASSUME NEW m \in [type : {"button"}, button : ButtonCodes, pressed : BOOLEAN]
    PROVE  RightBytes(3, m)
<1> DEFINE e == <<3, m.button, BoolByte(m.pressed)>>
<1>1. Encode(m) = e
  BY DEF Encode
<1>2. e \in Seq(Nat) /\ Len(e) = 3 /\ e[1] = 3 /\ e # <<>>
  BY DEF ButtonCodes, BoolByte
<1>3. Decode(e) = Fields(e)
  BY <1>2 DEF Decode, BodyLen
<1>4. e[2] = m.button /\ (e[3] # 0) = m.pressed
  BY DEF BoolByte
<1>5. Fields(e) = ButtonMessage(m.button, m.pressed)
  BY <1>2, <1>4 DEF Fields
<1>6. ButtonMessage(m.button, m.pressed) = m
  BY DEF ButtonMessage
<1> QED
  BY <1>1, <1>2, <1>3, <1>5, <1>6 DEF RightBytes, BodyLen

LEMMA WheelBytes ==
    ASSUME NEW m \in [type : {"wheel"}, horizontal : I16, vertical : I16]
    PROVE  RightBytes(4, m)
<1> DEFINE h == Wrapped(m.horizontal)
<1> DEFINE v == Wrapped(m.vertical)
<1> DEFINE e == <<4, Low(h), High(h), Low(v), High(v)>>
<1>1. Encode(m) = e
  BY DEF Encode
<1>2. /\ h \in U16 /\ Signed(h) = m.horizontal
      /\ v \in U16 /\ Signed(v) = m.vertical
  BY SignedWrapped
<1> HIDE DEF h, v
<1>3. e \in Seq(Nat) /\ Len(e) = 5 /\ e[1] = 4 /\ e # <<>>
  BY <1>2, Bytes16 DEF Byte
<1>4. Decode(e) = Fields(e)
  BY <1>3 DEF Decode, BodyLen
<1>5. From16(e[2], e[3]) = h /\ From16(e[4], e[5]) = v
  BY <1>2, Bytes16
<1>6. Fields(e) = WheelMessage(Signed(h), Signed(v))
  BY <1>3, <1>5 DEF Fields
<1>7. WheelMessage(m.horizontal, m.vertical) = m
  BY DEF WheelMessage
<1>8. Decode(e) = m
  BY <1>2, <1>4, <1>6, <1>7
<1> QED
  BY <1>1, <1>3, <1>8 DEF RightBytes, BodyLen

LEMMA BitrateBytes ==
    ASSUME NEW m \in [type : {"set_bitrate"}, kbps : U32]
    PROVE  RightBytes(5, m)
<1> DEFINE lo == m.kbps % Word
<1> DEFINE hi == m.kbps \div Word
<1> DEFINE e == <<5, Low(lo), High(lo), Low(hi), High(hi)>>
<1>1. Encode(m) = e
  BY DEF Encode
<1>2. lo \in U16 /\ hi \in U16 /\ lo + Word * hi = m.kbps
  BY Halves32
<1> HIDE DEF lo, hi
<1>3. e \in Seq(Nat) /\ Len(e) = 5 /\ e[1] = 5 /\ e # <<>>
  BY <1>2, Bytes16 DEF Byte
<1>4. Decode(e) = Fields(e)
  BY <1>3 DEF Decode, BodyLen
<1>5. From16(e[2], e[3]) = lo /\ From16(e[4], e[5]) = hi
  BY <1>2, Bytes16
<1>6. Fields(e) = BitrateMessage(lo + Word * hi)
  BY <1>3, <1>5 DEF Fields
<1>7. BitrateMessage(m.kbps) = m
  BY DEF BitrateMessage
<1>8. Decode(e) = m
  BY <1>2, <1>4, <1>6, <1>7
<1> QED
  BY <1>1, <1>3, <1>8 DEF RightBytes, BodyLen

LEMMA ReleaseBytes ==
    ASSUME NEW m \in [type : {"release_all"}]
    PROVE  RightBytes(6, m)
<1>1. Encode(m) = <<6>>
  BY DEF Encode
<1>2. Decode(<<6>>) = Fields(<<6>>)
  BY DEF Decode, BodyLen
<1>3. Fields(<<6>>) = ReleaseAll
  BY DEF Fields
<1>4. m = ReleaseAll
  BY DEF ReleaseAll
<1> QED
  BY <1>1, <1>2, <1>3, <1>4 DEF RightBytes, BodyLen

LEMMA EveryMessage ==
    ASSUME NEW tag \in DOMAIN MessagesOf, NEW m \in MessagesOf[tag]
    PROVE  RightBytes(tag, m) /\ tag \in 1 .. 6
<1>1. tag \in 1 .. 6
  BY DEF MessagesOf
<1>2. CASE tag = 1
  <2>1. m \in [type : {"hello"}, version : U16]
    BY <1>2 DEF MessagesOf
  <2> QED
    BY <1>2, <2>1, HelloBytes
<1>3. CASE tag = 2
  <2>1. m \in [type : {"key"}, code : KeyCodes, pressed : BOOLEAN]
    BY <1>3 DEF MessagesOf
  <2> QED
    BY <1>3, <2>1, KeyBytes
<1>4. CASE tag = 3
  <2>1. m \in [type : {"button"}, button : ButtonCodes, pressed : BOOLEAN]
    BY <1>4 DEF MessagesOf
  <2> QED
    BY <1>4, <2>1, ButtonBytes
<1>5. CASE tag = 4
  <2>1. m \in [type : {"wheel"}, horizontal : I16, vertical : I16]
    BY <1>5 DEF MessagesOf
  <2> QED
    BY <1>5, <2>1, WheelBytes
<1>6. CASE tag = 5
  <2>1. m \in [type : {"set_bitrate"}, kbps : U32]
    BY <1>6 DEF MessagesOf
  <2> QED
    BY <1>6, <2>1, BitrateBytes
<1>7. CASE tag = 6
  <2>1. m \in [type : {"release_all"}]
    BY <1>7 DEF MessagesOf
  <2> QED
    BY <1>7, <2>1, ReleaseBytes
<1> QED
  BY <1>1, <1>2, <1>3, <1>4, <1>5, <1>6, <1>7

-----------------------------------------------------------------------------
\* What the client sends is what the server acts on, field for field, for every
\* message, every position and every size of the byte (message.rs, encode and
\* decode).
THEOREM MessagesRoundTrip ==
    /\ \A tag \in DOMAIN MessagesOf : \A m \in MessagesOf[tag] : RoundTrips(m)
    /\ \A p \in MouseMoves : MoveRoundTrips(p)
<1>1. ASSUME NEW tag \in DOMAIN MessagesOf, NEW m \in MessagesOf[tag]
      PROVE  RoundTrips(m)
  <2>1. RightBytes(tag, m) /\ tag \in 1 .. 6
    BY EveryMessage
  <2>2. BodyLen[tag] <= 4 /\ BodyLen[tag] \in Nat
    BY <2>1 DEF BodyLen
  <2> QED
    BY <2>1, <2>2 DEF RightBytes, RoundTrips
<1>2. ASSUME NEW p \in MouseMoves
      PROVE  MoveRoundTrips(p)
  <2> DEFINE e == <<16, Low(p.x), High(p.x), Low(p.y), High(p.y)>>
  <2>1. EncodeMouse(p) = e
    BY DEF EncodeMouse
  <2>2. DecodeMouse(e) = [x |-> From16(e[2], e[3]), y |-> From16(e[4], e[5])]
    BY DEF DecodeMouse
  <2>3. From16(e[2], e[3]) = p.x /\ From16(e[4], e[5]) = p.y
    BY Bytes16 DEF MouseMoves
  <2>4. [x |-> p.x, y |-> p.y] = p
    BY DEF MouseMoves
  <2> QED
    BY <2>1, <2>2, <2>3, <2>4 DEF MoveRoundTrips
<1> QED
  BY <1>1, <1>2

\* A message that arrives cut short or with something behind it is an error and
\* never another message (message.rs, `expect`), nor is it a position.
THEOREM MessagesFramed == \A tag \in DOMAIN MessagesOf : \A m \in MessagesOf[tag] : IsFramed(m)
<1> SUFFICES ASSUME NEW tag \in DOMAIN MessagesOf, NEW m \in MessagesOf[tag]
             PROVE  IsFramed(m)
  OBVIOUS
<1> DEFINE e == Encode(m)
<1>1. e \in Seq(Nat) /\ Len(e) = BodyLen[tag] + 1 /\ e[1] = tag /\ tag \in 1 .. 6
  BY EveryMessage DEF RightBytes
<1>2. BodyLen[tag] \in Nat
  BY <1>1 DEF BodyLen
<1> HIDE DEF e
<1>3. ASSUME NEW b \in Seq(Nat), b # <<>>, b[1] = tag, Len(b) # BodyLen[tag] + 1
      PROVE  Decode(b).type = "error"
  <2>1. tag \in DOMAIN BodyLen
    BY <1>1 DEF BodyLen
  <2>2. Decode(b) \in {Error("Truncated"), Error("Trailing")}
    BY <1>2, <1>3, <2>1 DEF Decode
  <2> QED
    BY <2>2 DEF Error
<1>4. ASSUME NEW n \in 0 .. Len(e) - 1
      PROVE  Decode(SubSeq(e, 1, n)).type = "error"
  <2>1. /\ SubSeq(e, 1, n) \in Seq(Nat)
        /\ Len(SubSeq(e, 1, n)) = n
        /\ \A i \in 1 .. n : SubSeq(e, 1, n)[i] = e[i]
    <3>1. n \in Int /\ 1 \in Int
      BY <1>1, <1>2
    <3>2. \A i \in 1 .. n : e[i] \in Nat
      <4>1. ASSUME NEW i \in 1 .. n
            PROVE  i \in 1 .. Len(e)
        BY <1>1, <1>2
      <4> QED
        BY <1>1, <4>1, ElementOfSeq
    <3>3. /\ SubSeq(e, 1, n) \in Seq(Nat)
          /\ Len(SubSeq(e, 1, n)) = IF 1 <= n THEN n - 1 + 1 ELSE 0
          /\ \A i \in 1 .. n - 1 + 1 : SubSeq(e, 1, n)[i] = e[1 + i - 1]
      BY <3>1, <3>2, SubSeqProperties
    <3> QED
      BY <1>1, <1>2, <3>3
  <2>2. CASE n = 0
    <3>1. SubSeq(e, 1, n) = <<>>
      BY <2>1, <2>2
    <3> QED
      BY <3>1 DEF Decode, Error
  <2>3. CASE n > 0
    <3> DEFINE b == SubSeq(e, 1, n)
    <3>1. b \in Seq(Nat) /\ Len(b) = n /\ b[1] = e[1]
      <4>1. 1 \in 1 .. n
        BY <1>1, <1>2, <2>3
      <4> QED
        BY <2>1, <4>1
    <3> HIDE DEF b
    <3>2. b # <<>> /\ Len(b) # BodyLen[tag] + 1
      BY <1>1, <1>2, <2>3, <3>1
    <3> QED
      BY <1>1, <1>3, <3>1, <3>2 DEF b
  <2> QED
    BY <1>1, <1>2, <2>2, <2>3
<1>5. ASSUME NEW extra \in Byte
      PROVE  Decode(Append(e, extra)).type = "error"
  <2>1. extra \in Nat
    BY RadixAssumption DEF Byte
  <2>2. /\ Append(e, extra) \in Seq(Nat)
        /\ Len(Append(e, extra)) = Len(e) + 1
        /\ Append(e, extra)[1] = tag
        /\ Append(e, extra) # <<>>
    <3>1. 1 \in 1 .. Len(e)
      BY <1>1, <1>2
    <3> QED
      BY <1>1, <2>1, <3>1, AppendProperties
  <2>3. Len(Append(e, extra)) # BodyLen[tag] + 1
    BY <1>1, <1>2, <2>2
  <2> QED
    BY <1>3, <2>2, <2>3
<1>6. DecodeMouse(e).type = "error"
  <2>1. e # <<>> /\ e[1] # 16
    BY <1>1, <1>2
  <2> QED
    BY <2>1 DEF DecodeMouse, Error
<1> QED
  BY <1>4, <1>5, <1>6 DEF e, IsFramed
=============================================================================
