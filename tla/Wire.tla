-------------------------------- MODULE Wire --------------------------------
(***************************************************************************)
(* The messages of the two data channels and their encoding                *)
(* (proto/src/message.rs): a tag byte and little-endian fields of a fixed  *)
(* width.  The byte has Radix values, 256 in the code; TLC takes a smaller *)
(* one and WireProofs.tla any.                                             *)
(*                                                                         *)
(* Definitions named Mut... are deliberate faults, as in Pipeline.tla.     *)
(***************************************************************************)
EXTENDS Integers, Sequences

CONSTANTS
    Radix,    \* values of a byte
    KeyCodes  \* KeyCode as u16

ASSUME RadixAssumption == Radix \in Nat /\ Radix > 16 /\ Radix % 2 = 0
ASSUME KeyCodesAssumption == KeyCodes \subseteq 0 .. Radix * Radix - 1

Word == Radix * Radix  \* values of two bytes
Byte == 0 .. Radix - 1
U16 == 0 .. Word - 1
I16 == -(Word \div 2) .. Word \div 2 - 1
U32 == 0 .. Word * Word - 1
ButtonCodes == 0 .. 4

\* ControlMessage
HelloMessage(version) == [type |-> "hello", version |-> version]
KeyMessage(code, pressed) == [type |-> "key", code |-> code, pressed |-> pressed]
ButtonMessage(button, pressed) == [type |-> "button", button |-> button, pressed |-> pressed]
WheelMessage(h, v) == [type |-> "wheel", horizontal |-> h, vertical |-> v]
BitrateMessage(kbps) == [type |-> "set_bitrate", kbps |-> kbps]
ReleaseAll == [type |-> "release_all"]

\* The messages with each tag.
MessagesOf ==
    << [type : {"hello"}, version : U16],
       [type : {"key"}, code : KeyCodes, pressed : BOOLEAN],
       [type : {"button"}, button : ButtonCodes, pressed : BOOLEAN],
       [type : {"wheel"}, horizontal : I16, vertical : I16],
       [type : {"set_bitrate"}, kbps : U32],
       [type : {"release_all"}] >>

MouseMoves == [x : U16, y : U16]

-----------------------------------------------------------------------------
(* Fields: to_le_bytes and from_le_bytes *)

Low(n) == n % Radix
High(n) == n \div Radix

From16(lo, hi) == lo + Radix * hi

\* i16 in two's complement
Wrapped(n) == IF n < 0 THEN n + Word ELSE n

MutSigned(n) == n  \* reads an i16 as if it were a u16

Signed(n) == IF 2 * n >= Word THEN n - Word ELSE n

BoolByte(b) == IF b THEN 1 ELSE 0

-----------------------------------------------------------------------------
(* Messages *)

Encode(m) ==
    CASE m.type = "hello" -> <<1, Low(m.version), High(m.version)>>
      [] m.type = "key" -> <<2, Low(m.code), High(m.code), BoolByte(m.pressed)>>
      [] m.type = "button" -> <<3, m.button, BoolByte(m.pressed)>>
      [] m.type = "wheel" ->
            LET h == Wrapped(m.horizontal)
                v == Wrapped(m.vertical)
            IN  <<4, Low(h), High(h), Low(v), High(v)>>
      [] m.type = "set_bitrate" ->
            LET lo == m.kbps % Word
                hi == m.kbps \div Word
            IN  <<5, Low(lo), High(lo), Low(hi), High(hi)>>
      [] m.type = "release_all" -> <<6>>

\* Bytes after the tag; a tag without a message has no entry.
BodyLen == <<2, 3, 2, 4, 4, 0>>

Error(e) == [type |-> "error", error |-> e]

\* What the bytes of a message of the right length mean.
Fields(b) ==
    CASE b[1] = 1 -> HelloMessage(From16(b[2], b[3]))
      [] b[1] = 2 ->
            IF From16(b[2], b[3]) \in KeyCodes
              THEN KeyMessage(From16(b[2], b[3]), b[4] # 0)
              ELSE Error("UnknownKey")
      [] b[1] = 3 ->
            IF b[2] \in ButtonCodes THEN ButtonMessage(b[2], b[3] # 0) ELSE Error("UnknownButton")
      [] b[1] = 4 -> WheelMessage(Signed(From16(b[2], b[3])), Signed(From16(b[4], b[5])))
      [] b[1] = 5 -> BitrateMessage(From16(b[2], b[3]) + Word * From16(b[4], b[5]))
      [] b[1] = 6 -> ReleaseAll

MutDecode(b) ==  \* takes what is there and does not look at the length
    IF b = <<>> THEN Error("Empty")
    ELSE IF b[1] \notin DOMAIN BodyLen THEN Error("UnknownTag")
    ELSE IF Len(b) < BodyLen[b[1]] + 1 THEN Error("Truncated")
    ELSE Fields(b)

Decode(b) ==
    IF b = <<>> THEN Error("Empty")
    ELSE IF b[1] \notin DOMAIN BodyLen THEN Error("UnknownTag")
    ELSE IF Len(b) < BodyLen[b[1]] + 1 THEN Error("Truncated")
    ELSE IF Len(b) > BodyLen[b[1]] + 1 THEN Error("Trailing")
    ELSE Fields(b)

EncodeMouse(p) == <<16, Low(p.x), High(p.x), Low(p.y), High(p.y)>>

DecodeMouse(b) ==
    IF b = <<>> THEN Error("Empty")
    ELSE IF b[1] # 16 THEN Error("UnknownTag")
    ELSE IF Len(b) < 5 THEN Error("Truncated")
    ELSE IF Len(b) > 5 THEN Error("Trailing")
    ELSE [x |-> From16(b[2], b[3]), y |-> From16(b[4], b[5])]

-----------------------------------------------------------------------------
(* What both sides rely on; WireProofs.tla proves it for every message. *)

\* The message arrives as it was sent, in MAX_ENCODED_LEN bytes.
RoundTrips(m) == Decode(Encode(m)) = m /\ Len(Encode(m)) <= 5
MoveRoundTrips(p) == DecodeMouse(EncodeMouse(p)) = p

\* Bytes that were cut off or added are noticed: the message is not the
\* beginning of another, nor is it taken for a position.
IsFramed(m) ==
    /\ \A n \in 0 .. Len(Encode(m)) - 1 : Decode(SubSeq(Encode(m), 1, n)).type = "error"
    /\ \A extra \in Byte : Decode(Append(Encode(m), extra)).type = "error"
    /\ DecodeMouse(Encode(m)).type = "error"
=============================================================================
