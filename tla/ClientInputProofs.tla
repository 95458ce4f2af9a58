------------------------- MODULE ClientInputProofs -------------------------
(***************************************************************************)
(* Machine-checked theorems about ClientInput, for any keys, buttons,      *)
(* windows, video sizes, wheel movements, numbers of events and failures.  *)
(***************************************************************************)
EXTENDS ClientInput, WireProofs, WellFoundedInduction

(***************************************************************************)
(* Numbers.                                                                *)
(***************************************************************************)
LEMMA Quotient ==
    ASSUME NEW n \in Int, NEW d \in Nat \ {0}
    PROVE  n \div d \in Int /\ d * (n \div d) <= n /\ n < d * (n \div d) + d
<1> DEFINE q == n \div d
<1> DEFINE r == n % d
<1>1. r \in 0 .. d - 1 /\ q \in Int /\ n = d * q + r
  BY Z3
<1> QED
  BY <1>1

LEMMA Products ==
    /\ \A a, b, m \in Nat : a <= b => a * m <= b * m
    /\ \A d \in Nat \ {0}, q, w \in Int : d * q < d * w => q < w
<1>1. \A a, b, m \in Nat : a <= b => a * m <= b * m
  BY Z3
<1>2. ASSUME NEW d \in Nat \ {0}, NEW q \in Int, NEW w \in Int, w <= q PROVE d * w <= d * q
  BY <1>2, Z3
<1>3. ASSUME NEW d \in Nat \ {0}, NEW q \in Int, NEW w \in Int, d * q < d * w PROVE q < w
  <2>1. d * q \in Int /\ d * w \in Int
    OBVIOUS
  <2> QED
    BY <1>2, <1>3, <2>1
<1> QED
  BY <1>1, <1>3

LEMMA RoundedBounds ==
    ASSUME NEW n \in Int, NEW d \in Nat \ {0}
    PROVE  /\ Rounded(n, d) \in Int
           /\ 2 * (d * Rounded(n, d)) <= 2 * n + d
           /\ 2 * n + d < 2 * (d * Rounded(n, d)) + 2 * d
<1> DEFINE m == 2 * n + d
<1> DEFINE e == 2 * d
<1> DEFINE q == m \div e
<1>1. m \in Int /\ e \in Nat \ {0} /\ Rounded(n, d) = q
  BY DEF Rounded
<1> HIDE DEF m, e
<1>2. q \in Int /\ e * q <= m /\ m < e * q + e
  BY <1>1, Quotient
<1> HIDE DEF q
<1>3. e * q = 2 * (d * q)
  BY <1>2 DEF e
<1> QED
  BY <1>1, <1>2, <1>3 DEF m, e

LEMMA WordPositive == Word \in Nat /\ Word > 1
<1>1. Radix \in Nat /\ Radix > 16
  BY RadixAssumption
<1>2. Radix * Radix >= Radix
  BY <1>1, Z3
<1> QED
  BY <1>1, <1>2 DEF Word

\* A position is a number of 16 bits, wherever the cursor is.
LEMMA NormalisedType == ASSUME NEW v \in Int, NEW size \in Nat \ {0} PROVE Normalised(v, size) \in U16
<1>1. CASE size <= 1
  BY <1>1, WordPositive DEF Normalised, U16
<1>2. CASE size > 1
  <2> DEFINE c == AtMost(size - 1, AtLeast(0, v))
  <2> DEFINE d == size - 1
  <2> DEFINE w == Word - 1
  <2> DEFINE q == Rounded(c * w, d)
  <2>1. /\ c \in Nat /\ d \in Nat \ {0} /\ c <= d /\ w \in Nat
        /\ Normalised(v, size) = q
    BY <1>2, WordPositive DEF AtMost, AtLeast, Normalised
  <2> HIDE DEF c, d, w, q
  <2>2. c * w <= d * w /\ c * w \in Nat /\ d * w \in Nat
    BY <2>1, Products
  <2>3. q \in Int /\ 2 * (d * q) <= 2 * (c * w) + d /\ 2 * (c * w) + d < 2 * (d * q) + 2 * d
    BY <2>1, <2>2, RoundedBounds DEF q
  <2>4. d * q \in Int /\ d * (w + 1) = d * w + d /\ d * (-1) = -d
    BY <2>1, <2>3
  <2>5. q < w + 1
    <3>1. d * q < d * (w + 1)
      BY <2>1, <2>2, <2>3, <2>4
    <3> QED
      BY <2>1, <2>3, <3>1, Products
  <2>6. -1 < q
    <3>1. d * (-1) < d * q
      BY <2>1, <2>2, <2>3, <2>4
    <3> QED
      BY <2>1, <2>3, <3>1, Products
  <2> QED
    BY <2>1, <2>3, <2>5, <2>6 DEF U16, w
<1> QED
  BY <1>1, <1>2

LEMMA FrameType ==
    ASSUME NEW frame \in Frames, frame # NoFrame
    PROVE  frame[1] \in Nat /\ frame[1] >= 2 /\ frame[2] \in Nat /\ frame[2] >= 2
<1>1. PICK w \in Windows, s \in Sources : frame = FitAspect(Target(w), s)
  BY DEF Frames
<1>2. /\ Target(w)[1] \in Nat \ {0} /\ Target(w)[2] \in Nat \ {0}
      /\ s[1] \in Nat \ {0} /\ s[2] \in Nat \ {0}
  BY SizesAssumption DEF Target, AtLeast
<1> DEFINE t == Target(w)
<1> HIDE DEF t
<1>3. /\ s[1] * t[2] \in Int /\ s[2] * t[1] \in Int
      /\ Rounded(s[1] * t[2], s[2]) \in Int /\ Rounded(s[2] * t[1], s[1]) \in Int
  <2>1. \A x, y \in Nat : x * y \in Int
    OBVIOUS
  <2>2. s[1] * t[2] \in Int /\ s[2] * t[1] \in Int
    BY <1>2, <2>1 DEF t
  <2> QED
    BY <1>2, <2>2, RoundedBounds
<1>4. frame = FitAspect(t, s) /\ t[1] \in Nat \ {0} /\ t[2] \in Nat \ {0}
  BY <1>1, <1>2 DEF t
<1> DEFINE a == Rounded(s[1] * t[2], s[2])
<1> DEFINE b == Rounded(s[2] * t[1], s[1])
<1>5. \E x \in {t[1], a}, y \in {t[2], b} :
         frame = <<AtLeast(2, AtMost(t[1], AtLeast(1, x))), AtLeast(2, AtMost(t[2], AtLeast(1, y)))>>
  BY <1>4 DEF FitAspect
<1> HIDE DEF a, b
<1>6. \A n \in Nat, x \in Int : AtLeast(2, AtMost(n, AtLeast(1, x))) \in Nat
                              /\ AtLeast(2, AtMost(n, AtLeast(1, x))) >= 2
  BY DEF AtLeast, AtMost
<1>7. a \in Int /\ b \in Int
  BY <1>3 DEF a, b
<1>8. PICK x \in {t[1], a}, y \in {t[2], b} :
         frame = <<AtLeast(2, AtMost(t[1], AtLeast(1, x))), AtLeast(2, AtMost(t[2], AtLeast(1, y)))>>
  BY <1>5
<1>9. x \in Int /\ y \in Int
  BY <1>4, <1>7
<1>10. frame[1] = AtLeast(2, AtMost(t[1], AtLeast(1, x))) /\ frame[2] = AtLeast(2, AtMost(t[2], AtLeast(1, y)))
  BY <1>8
<1> QED
  BY <1>4, <1>6, <1>9, <1>10

LEMMA PositionType ==
    ASSUME NEW win \in Windows, NEW frame \in Frames, NEW point \in Points
    PROVE  PositionAt(win, frame, point) \in MouseMoves
<1>1. /\ Target(win)[1] \in Nat \ {0} /\ Target(win)[2] \in Nat \ {0}
      /\ point[1] \in Nat /\ point[2] \in Nat
  BY SizesAssumption DEF Target, AtLeast
<1> DEFINE rect == VideoRect(win, frame)
<1>2. /\ rect.at[1] \in Int /\ rect.at[2] \in Int
      /\ rect.size[1] \in Nat \ {0} /\ rect.size[2] \in Nat \ {0}
  <2>1. CASE Fits(frame, Target(win))
    <3>1. frame[1] \in Nat \ {0} /\ frame[2] \in Nat \ {0}
      BY <2>1, FrameType DEF Fits
    <3>2. \A n \in Int : n \div 2 \in Int
      OBVIOUS
    <3> QED
      BY <1>1, <2>1, <3>1, <3>2 DEF VideoRect
  <2>2. CASE ~Fits(frame, Target(win))
    BY <1>1, <2>2 DEF VideoRect
  <2> QED
    BY <2>1, <2>2
<1> HIDE DEF rect
<1>3. Normalised(point[1] - rect.at[1], rect.size[1]) \in U16
      /\ Normalised(point[2] - rect.at[2], rect.size[2]) \in U16
  BY <1>1, <1>2, NormalisedType
<1> QED
  BY <1>3 DEF PositionAt, MouseMoves, rect

\* The wheel: whole notches go, less than one stays.
LEMMA WheelParts ==
    ASSUME NEW acc \in Int
    PROVE  /\ Trunc(acc) \in Int
           /\ Carry(acc) \in -(Notch - 1) .. Notch - 1
           /\ acc = Trunc(acc) * Notch + Carry(acc)
<1>1. Notch \in Nat \ {0}
  BY WheelAssumption
<1>2. CASE acc >= 0
  <2> DEFINE q == acc \div Notch
  <2>1. q \in Int /\ Notch * q <= acc /\ acc < Notch * q + Notch /\ Trunc(acc) = q
    BY <1>1, <1>2, Quotient DEF Trunc
  <2> HIDE DEF q
  <2>2. q * Notch = Notch * q /\ Notch * q \in Int
    BY <1>1, <2>1
  <2> QED
    BY <1>1, <2>1, <2>2 DEF Carry
<1>3. CASE acc < 0
  <2> DEFINE q == (-acc) \div Notch
  <2>1. q \in Int /\ Notch * q <= -acc /\ -acc < Notch * q + Notch /\ Trunc(acc) = -q
    BY <1>1, <1>3, Quotient DEF Trunc
  <2> HIDE DEF q
  <2>2. (-q) * Notch = -(Notch * q) /\ Notch * q \in Int
    BY <1>1, <2>1
  <2> QED
    BY <1>1, <2>1, <2>2 DEF Carry
<1> QED
  BY <1>2, <1>3

LEMMA ClampType == ASSUME NEW v \in Int PROVE Clamp(v) \in -WheelMax .. WheelMax
<1>1. WheelMax \in Nat
  BY WheelAssumption
<1> QED
  BY <1>1 DEF Clamp

(***************************************************************************)
(* Messages.                                                               *)
(***************************************************************************)
Sent == Messages \cup {Greeting[i] : i \in DOMAIN Greeting}

Commands == Messages \cup {Quit} \cup [type : {"mouse"}, position : MouseMoves]

LEMMA GreetingParts ==
    /\ Greeting = <<HelloMessage(Version)>> \/ Greeting = <<HelloMessage(Version), BitrateMessage(StartBitrate)>>
    /\ \A i \in DOMAIN Greeting : Greeting[i] \in {HelloMessage(Version), BitrateMessage(StartBitrate)}
<1> DEFINE h == HelloMessage(Version)
<1> DEFINE b == BitrateMessage(StartBitrate)
<1>1. Greeting = <<h>> \o (IF StartBitrate = 0 THEN <<>> ELSE <<b>>)
  BY DEF Greeting
<1> HIDE DEF h, b
<1>2. <<h>> \in Seq({h, b}) /\ <<b>> \in Seq({h, b}) /\ <<h, b>> \in Seq({h, b}) /\ <<>> \in Seq({h, b})
  OBVIOUS
<1>3. <<h>> \o <<>> = <<h>>
  BY <1>2, ConcatEmptySeq
<1>4. <<h>> \o <<b>> = <<h, b>>
  <2>1. /\ Len(<<h>>) = 1 /\ <<h>>[1] = h /\ Len(<<b>>) = 1 /\ <<b>>[1] = b
        /\ Len(<<h, b>>) = 2 /\ <<h, b>>[1] = h /\ <<h, b>>[2] = b
    OBVIOUS
  <2>2. /\ Len(<<h>> \o <<b>>) = 2 /\ <<h>> \o <<b>> \in Seq({h, b})
        /\ (<<h>> \o <<b>>)[1] = h /\ (<<h>> \o <<b>>)[2] = b
    BY <1>2, <2>1, ConcatProperties
  <2>3. \A i \in 1 .. 2 : (<<h>> \o <<b>>)[i] = <<h, b>>[i]
    BY <2>1, <2>2
  <2> QED
    BY <1>2, <2>1, <2>2, <2>3, SeqEqual
<1>5. Greeting = <<h>> \/ Greeting = <<h, b>>
  BY <1>1, <1>3, <1>4
<1>6. \A i \in DOMAIN Greeting : Greeting[i] \in {h, b}
  BY <1>5
<1> QED
  BY <1>5, <1>6 DEF h, b

\* Every message of the client is one the codec knows.
LEMMA SentIsMessage == ASSUME NEW m \in Sent PROVE \E tag \in DOMAIN MessagesOf : m \in MessagesOf[tag]
<1>0. DOMAIN MessagesOf = 1 .. 6
  BY DEF MessagesOf
<1>1. ASSUME NEW k \in Keys, NEW p \in BOOLEAN PROVE KeyMessage(k, p) \in MessagesOf[2]
  BY <1>0, InputsAssumption DEF KeyMessage, MessagesOf
<1>2. ASSUME NEW b \in Buttons, NEW p \in BOOLEAN PROVE ButtonMessage(b, p) \in MessagesOf[3]
  BY <1>0, InputsAssumption DEF ButtonMessage, MessagesOf
<1>3. ASSUME NEW v \in -WheelMax .. WheelMax PROVE WheelMessage(0, v) \in MessagesOf[4]
  <2>1. Word \div 2 \in Int /\ WheelMax \in 1 .. Word \div 2 - 1
    BY WheelAssumption, WordPositive
  <2> DEFINE half == Word \div 2
  <2> HIDE DEF half
  <2>2. half \in Int /\ WheelMax \in 1 .. half - 1 /\ I16 = -half .. half - 1
    BY <2>1 DEF half, I16
  <2>3. v \in I16 /\ 0 \in I16
    BY <2>2
  <2> QED
    BY <2>3 DEF WheelMessage, MessagesOf
<1>4. ReleaseAll \in MessagesOf[6]
  BY DEF ReleaseAll, MessagesOf
<1>5. HelloMessage(Version) \in MessagesOf[1] /\ BitrateMessage(StartBitrate) \in MessagesOf[5]
  BY GreetingAssumption DEF HelloMessage, BitrateMessage, MessagesOf
<1> QED
  BY <1>0, <1>1, <1>2, <1>3, <1>4, <1>5, GreetingParts DEF Sent, Messages

LEMMA SentArrives == ASSUME NEW m \in Sent PROVE Decode(Encode(m)) = m
  BY SentIsMessage, MessagesRoundTrip DEF RoundTrips

LEMMA ControlDecodes == ASSUME NEW b \in ControlBytes PROVE Decode(b) \in Sent /\ b = Encode(Decode(b))
<1>1. PICK m \in Sent : b = Encode(m)
  BY DEF ControlBytes, Sent
<1> QED
  BY <1>1, SentArrives

\* What a message or command is, by its type.
LEMMA Kinds ==
    ASSUME NEW c \in Sent \cup Commands
    PROVE  \/ c.type = "key" /\ c.code \in Keys /\ c.pressed \in BOOLEAN
           \/ c.type = "button" /\ c.button \in Buttons /\ c.pressed \in BOOLEAN
           \/ c.type = "wheel" /\ c.vertical \in Int
           \/ c = ReleaseAll /\ c.type = "release_all"
           \/ c.type \in {"hello", "set_bitrate"} /\ c \notin Messages
           \/ c = Quit /\ c.type = "quit" /\ c \notin Sent
           \/ c.type = "mouse" /\ c.position \in MouseMoves /\ c \notin Sent
<1> USE DEF KeyMessage, ButtonMessage, WheelMessage, ReleaseAll, Quit, HelloMessage, BitrateMessage
<1>0. WheelMax \in Nat
  BY WheelAssumption
<1>1. ASSUME NEW m \in Messages
      PROVE  \/ m.type = "key" /\ m.code \in Keys /\ m.pressed \in BOOLEAN
             \/ m.type = "button" /\ m.button \in Buttons /\ m.pressed \in BOOLEAN
             \/ m.type = "wheel" /\ m.vertical \in Int
             \/ m = ReleaseAll /\ m.type = "release_all"
  BY <1>0 DEF Messages
<1>2. HelloMessage(Version).type = "hello" /\ BitrateMessage(StartBitrate).type = "set_bitrate"
      /\ Quit.type = "quit"
  OBVIOUS
<1>3. ASSUME NEW m \in Sent PROVE m.type \in {"key", "button", "wheel", "release_all", "hello", "set_bitrate"}
  BY <1>1, <1>2, GreetingParts DEF Sent
<1>4. CASE c \in Messages
  BY <1>1, <1>4
<1>5. CASE c \in Sent \ Messages
  BY <1>1, <1>2, <1>5, GreetingParts DEF Sent
<1>6. CASE c = Quit
  BY <1>2, <1>3, <1>6
<1>7. CASE c \in [type : {"mouse"}, position : MouseMoves]
  BY <1>3, <1>7
<1> QED
  BY <1>4, <1>5, <1>6, <1>7 DEF Commands

\* The server decodes what the window put into the channel of commands.
LEMMA CommandsUnderstood == ui \in Seq(Commands) => Understood /\ Framed
<1> SUFFICES ASSUME ui \in Seq(Commands) PROVE Understood /\ Framed
  OBVIOUS
<1>1. ASSUME NEW m \in Messages PROVE RoundTrips(m) /\ IsFramed(m)
  BY SentIsMessage, MessagesRoundTrip, MessagesFramed DEF Sent
<1>2. ASSUME NEW c \in Commands, c.type = "mouse" PROVE c.position \in MouseMoves
  BY <1>2, Kinds DEF Quit
<1>3. ASSUME NEW i \in DOMAIN ui PROVE ui[i] \in Commands
  OBVIOUS
<1> QED
  BY <1>1, <1>2, <1>3, MessagesRoundTrip DEF Understood, Framed

(***************************************************************************)
(* Types, one part for each actor.                                         *)
(***************************************************************************)
UserTyped == physical \subseteq Inputs /\ turned \in Int
AppTyped ==
    /\ focused \in BOOLEAN /\ app \in BOOLEAN
    /\ pressed_keys \subseteq Keys /\ pressed_buttons \subseteq Buttons
    /\ wheel_acc \in -(Notch - 1) .. Notch - 1
ViewTyped ==
    /\ inner \in Windows /\ resized \in Seq(Windows) /\ redraw \in BOOLEAN
    /\ shown \in [win : Windows, frame : Frames]
    /\ target_size \in {Target(w) : w \in Windows} /\ latest \in Frames
    /\ source \in Sources /\ scaling \in Frames
QueueTyped == ui \in Seq(Commands)
NetTyped ==
    /\ net \in BOOLEAN /\ latest_mouse \in Places
    /\ channel \in {"connecting", "open", "greeted", "closed"}
FlightTyped == control \in Seq(ControlBytes) /\ \A b \in mouse : DecodeMouse(b) \in MouseMoves
DeviceTyped ==
    /\ sink_keys \subseteq Keys \ Unmapped /\ sink_buttons \subseteq Buttons
    /\ stuck \subseteq held /\ held \subseteq Inputs \ Unmapped /\ pointer \in Places /\ wheel \in Int
BoundsTyped ==
    /\ missed \in BOOLEAN
    /\ events \in 0 .. scenario.events /\ failures \in 0 .. MaxFailures
    /\ scenario \in Scenarios

Typed ==
    /\ UserTyped /\ AppTyped /\ ViewTyped /\ QueueTyped
    /\ NetTyped /\ FlightTyped /\ DeviceTyped /\ BoundsTyped

LEMMA CommandsTyped == ui \in Seq(Commands) => \A i \in DOMAIN ui : IsCommand(ui[i])
<1> SUFFICES ASSUME ui \in Seq(Commands), NEW i \in DOMAIN ui PROVE IsCommand(ui[i])
  OBVIOUS
<1>1. ui[i] \in Commands
  OBVIOUS
<1> QED
  BY <1>1 DEF Commands, IsCommand

LEMMA TypedIsTypeOK == Typed => TypeOK
<1> SUFFICES ASSUME Typed PROVE TypeOK
  OBVIOUS
<1>1. \A i \in DOMAIN ui : IsCommand(ui[i])
  BY CommandsTyped DEF Typed, QueueTyped
<1> QED
  BY <1>1 DEF Typed, UserTyped, AppTyped, ViewTyped, NetTyped, FlightTyped, DeviceTyped, BoundsTyped, TypeOK

\* What an action leaves alone keeps its type.
LEMMA Kept ==
    ASSUME Typed
    PROVE  /\ UNCHANGED userVars => UserTyped'
           /\ UNCHANGED appVars => AppTyped'
           /\ UNCHANGED viewVars => ViewTyped'
           /\ UNCHANGED ui => QueueTyped'
           /\ UNCHANGED netVars => NetTyped'
           /\ UNCHANGED <<control, mouse>> => FlightTyped'
           /\ UNCHANGED devVars => DeviceTyped'
           /\ UNCHANGED <<missed, events, failures, scenario>> => BoundsTyped'
<1>1. UNCHANGED userVars => UserTyped'
  BY DEF Typed, userVars, UserTyped
<1>2. UNCHANGED appVars => AppTyped'
  BY DEF Typed, appVars, AppTyped
<1>3. UNCHANGED viewVars => ViewTyped'
  BY DEF Typed, viewVars, ViewTyped
<1>4. UNCHANGED ui => QueueTyped'
  BY DEF Typed, QueueTyped
<1>5. UNCHANGED netVars => NetTyped'
  BY DEF Typed, netVars, NetTyped
<1>6. UNCHANGED <<control, mouse>> => FlightTyped'
  BY DEF Typed, FlightTyped
<1>7. UNCHANGED devVars => DeviceTyped'
  BY DEF Typed, devVars, DeviceTyped
<1>8. UNCHANGED <<missed, events, failures, scenario>> => BoundsTyped'
  BY DEF Typed, BoundsTyped
<1> QED
  BY <1>1, <1>2, <1>3, <1>4, <1>5, <1>6, <1>7, <1>8

LEMMA BoundsStep ==
    ASSUME Typed, UNCHANGED scenario, missed' \in BOOLEAN
    PROVE  /\ \A kind \in EventKinds : Event(kind) /\ UNCHANGED failures => BoundsTyped'
           /\ \A op \in FailureKinds : Fails(op) /\ UNCHANGED events => BoundsTyped'
           /\ UNCHANGED <<events, failures>> => BoundsTyped'
<1>1. scenario.events \in Nat /\ MaxFailures \in Nat
  BY BoundsAssumption DEF Typed, BoundsTyped
<1> QED
  BY <1>1 DEF Typed, BoundsTyped, Event, Fails

LEMMA QueueCommand == ASSUME Typed, NEW c \in Commands, ui' = Append(ui, c) PROVE QueueTyped'
  BY DEF Typed, QueueTyped

LEMMA TakeCommand ==
    ASSUME Typed, ui # <<>>
    PROVE  Head(ui) \in Commands /\ Tail(ui) \in Seq(Commands)
  BY HeadTailProperties DEF Typed, QueueTyped

LEMMA InitTyped == Init => Typed
<1> SUFFICES ASSUME Init PROVE Typed
  OBVIOUS
<1>1. /\ <<>> \in Seq(Commands) /\ <<>> \in Seq(Windows) /\ <<>> \in Seq(ControlBytes)
      /\ 0 \in 0 .. MaxFailures
  BY BoundsAssumption
<1>2. 0 \in -(Notch - 1) .. Notch - 1
  BY WheelAssumption
<1>3. 0 \in 0 .. scenario.events /\ scenario \in Scenarios
  BY BoundsAssumption DEF Init
<1>4. UserTyped /\ QueueTyped /\ FlightTyped /\ DeviceTyped
  BY <1>1 DEF Init, UserTyped, QueueTyped, FlightTyped, DeviceTyped, Places
<1>5. AppTyped
  BY <1>2 DEF Init, AppTyped
<1>6. NetTyped /\ BoundsTyped
  BY <1>1, <1>3 DEF Init, NetTyped, BoundsTyped, Places
<1>7. ViewTyped
  <2>1. StartWindow \in Windows /\ StartMode \in Sources /\ NoFrame \in Frames
    BY SizesAssumption DEF Frames
  <2>2. Target(inner) \in {Target(w) : w \in Windows}
    BY <2>1 DEF Init
  <2> QED
    BY <1>1, <2>1, <2>2 DEF Init, ViewTyped
<1> QED
  BY <1>4, <1>5, <1>6, <1>7 DEF Typed

LEMMA ReleaseQueued ==
    ASSUME Typed, NEW more, more = <<>> \/ more = <<Quit>>, Release(more)
    PROVE  /\ ui' \in Seq(Commands)
           /\ more = <<>> => ui' = Append(ui, ReleaseAll)
           /\ more = <<Quit>> => ui' = Append(Append(ui, ReleaseAll), Quit)
<1> USE DEF Typed, QueueTyped
<1>1. ReleaseAll \in Commands /\ Quit \in Commands
  BY DEF Commands, Messages
<1> DEFINE r == ReleaseAll
<1> DEFINE q == Quit
<1>2. ui' = ui \o <<r>> \o more /\ r \in Commands /\ q \in Commands
  BY <1>1 DEF Release
<1> HIDE DEF r, q
<1>3. <<r>> \in Seq(Commands) /\ <<q>> \in Seq(Commands) /\ <<>> \in Seq(Commands)
  BY <1>2
<1>4. ui \o <<r>> = Append(ui, r) /\ Append(ui, r) \in Seq(Commands)
  BY <1>2, AppendIsConcat
<1>5. Append(ui, r) \o <<q>> = Append(Append(ui, r), q) /\ Append(Append(ui, r), q) \in Seq(Commands)
  BY <1>2, <1>4, AppendIsConcat
<1>6. Append(ui, r) \o <<>> = Append(ui, r)
  BY <1>4, ConcatEmptySeq
<1>7. CASE more = <<>>
  <2>1. ui' = Append(ui, r) /\ more # <<q>>
    BY <1>2, <1>4, <1>6, <1>7
  <2> QED
    BY <1>4, <2>1 DEF r, q
<1>8. CASE more = <<Quit>>
  <2>1. ui' = Append(Append(ui, r), q) /\ more # <<>>
    BY <1>2, <1>4, <1>5, <1>8 DEF q
  <2> QED
    BY <1>5, <2>1 DEF r, q
<1> QED
  BY <1>7, <1>8

LEMMA WindowType == ASSUME Typed, WindowNext \/ CloseRequested PROVE Typed'
<1>0. missed \in BOOLEAN
  BY DEF Typed, BoundsTyped
<1>1. ASSUME UNCHANGED <<afterApp>> PROVE ViewTyped' /\ NetTyped' /\ FlightTyped' /\ DeviceTyped'
  BY <1>1, Kept DEF afterApp
<1>2. ASSUME NEW k \in Keys, NEW pressed \in BOOLEAN, KeyboardInput(k, pressed) PROVE Typed'
  <2>1. KeyMessage(k, pressed) \in Commands
    BY DEF Commands, Messages
  <2>2. QueueTyped'
    BY <1>2, <2>1, QueueCommand, Kept DEF KeyboardInput
  <2>3. UserTyped' /\ AppTyped'
    BY <1>2 DEF KeyboardInput, Toggle, Typed, UserTyped, AppTyped, Inputs
  <2>4. BoundsTyped'
    BY <1>0, <1>2, BoundsStep DEF KeyboardInput, afterApp, EventKinds
  <2> QED
    BY <1>1, <1>2, <2>2, <2>3, <2>4 DEF KeyboardInput, Typed
<1>3. ASSUME NEW b \in Buttons, NEW pressed \in BOOLEAN, MouseInput(b, pressed) PROVE Typed'
  <2>1. ButtonMessage(b, pressed) \in Commands
    BY DEF Commands, Messages
  <2>2. QueueTyped'
    BY <1>3, <2>1, QueueCommand, Kept DEF MouseInput
  <2>3. UserTyped' /\ AppTyped'
    BY <1>3 DEF MouseInput, Toggle, Typed, UserTyped, AppTyped, Inputs
  <2>4. BoundsTyped'
    BY <1>0, <1>3, BoundsStep DEF MouseInput, afterApp, EventKinds
  <2> QED
    BY <1>1, <1>3, <2>2, <2>3, <2>4 DEF MouseInput, Typed
<1>4. ASSUME NEW p \in Points, CursorMoved(p) PROVE Typed'
  <2>1. Move(PositionAt(inner, latest, p)) \in Commands
    BY PositionType DEF Commands, Move, Typed, ViewTyped
  <2>2. QueueTyped'
    BY <1>4, <2>1, QueueCommand DEF CursorMoved
  <2>3. UserTyped' /\ AppTyped'
    BY <1>4, Kept DEF CursorMoved
  <2>4. BoundsTyped'
    BY <1>0, <1>4, BoundsStep DEF CursorMoved, afterApp, EventKinds
  <2> QED
    BY <1>1, <1>4, <2>2, <2>3, <2>4 DEF CursorMoved, Typed
<1>5. ASSUME NEW d \in Deltas, MouseWheel(d) PROVE Typed'
  <2> DEFINE acc == wheel_acc + d
  <2>1. turned \in Int /\ acc \in Int /\ d \in Int
    BY WheelAssumption DEF Typed, UserTyped, AppTyped
  <2>2. /\ turned' = turned + d /\ wheel_acc' = Carry(acc)
        /\ ui' = IF Trunc(acc) # 0 THEN Append(ui, WheelMessage(0, Clamp(Trunc(acc)))) ELSE ui
        /\ missed' = (missed \/ Clamp(Trunc(acc)) # Trunc(acc))
    BY <1>5 DEF MouseWheel
  <2> HIDE DEF acc
  <2>3. Trunc(acc) \in Int /\ Carry(acc) \in -(Notch - 1) .. Notch - 1
    BY <2>1, WheelParts
  <2>4. WheelMessage(0, Clamp(Trunc(acc))) \in Commands
    BY <2>3, ClampType DEF Commands, Messages
  <2>5. QueueTyped'
    BY <2>2, <2>4, QueueCommand, Kept
  <2>6. UserTyped' /\ AppTyped'
    BY <1>5, <2>1, <2>2, <2>3 DEF MouseWheel, Typed, UserTyped, AppTyped
  <2>7. BoundsTyped'
    BY <1>0, <1>5, <2>2, BoundsStep DEF MouseWheel, afterApp, EventKinds
  <2> QED
    BY <1>1, <1>5, <2>5, <2>6, <2>7 DEF MouseWheel, Typed
<1>6. ASSUME NEW f \in BOOLEAN, Focused(f) PROVE Typed'
  <2>1. QueueTyped'
    BY <1>6, ReleaseQueued, Kept DEF Focused, QueueTyped
  <2>2. UserTyped'
    BY <1>6, Kept DEF Focused
  <2>3. AppTyped'
    BY <1>6 DEF Focused, Release, Typed, AppTyped
  <2>4. BoundsTyped'
    BY <1>0, <1>6, BoundsStep DEF Focused, afterApp, EventKinds
  <2> QED
    BY <1>1, <1>6, <2>1, <2>2, <2>3, <2>4 DEF Focused, Typed
<1>7. ASSUME CloseRequested PROVE Typed'
  <2>1. QueueTyped'
    BY <1>7, ReleaseQueued DEF CloseRequested, QueueTyped
  <2>2. UserTyped'
    BY <1>7, Kept DEF CloseRequested
  <2>3. AppTyped'
    BY <1>7 DEF CloseRequested, Release, Typed, AppTyped
  <2>4. BoundsTyped'
    BY <1>0, <1>7, BoundsStep DEF CloseRequested, afterApp
  <2> QED
    BY <1>1, <1>7, <2>1, <2>2, <2>3, <2>4 DEF CloseRequested, Typed
<1> QED
  BY <1>2, <1>3, <1>4, <1>5, <1>6, <1>7 DEF WindowNext

LEMMA ViewType == ASSUME Typed, ViewNext PROVE Typed'
<1>0. missed \in BOOLEAN
  BY DEF Typed, BoundsTyped
<1>1. ASSUME UNCHANGED viewRest, ViewTyped', BoundsTyped' PROVE Typed'
  <2>1. UserTyped' /\ AppTyped' /\ QueueTyped' /\ NetTyped' /\ FlightTyped' /\ DeviceTyped'
    BY <1>1, Kept DEF viewRest
  <2> QED
    BY <1>1, <2>1 DEF Typed
<1>2. ASSUME NEW size \in Windows, Resize(size) PROVE Typed'
  <2>1. ViewTyped'
    BY <1>2 DEF Resize, Typed, ViewTyped
  <2>2. BoundsTyped' /\ UNCHANGED viewRest
    BY <1>0, <1>2, BoundsStep DEF Resize, viewRest, EventKinds
  <2> QED
    BY <1>1, <2>1, <2>2
<1>3. ASSUME NEW size \in Sources, SetMode(size) PROVE Typed'
  <2>1. ViewTyped'
    BY <1>3 DEF SetMode, Typed, ViewTyped
  <2>2. BoundsTyped' /\ UNCHANGED viewRest
    BY <1>0, <1>3, BoundsStep DEF SetMode, viewRest, EventKinds
  <2> QED
    BY <1>1, <2>1, <2>2
<1>4. CASE Resized
  <2>1. Head(resized) \in Windows /\ Tail(resized) \in Seq(Windows)
    BY <1>4, HeadTailProperties DEF Resized, Typed, ViewTyped
  <2>2. ViewTyped'
    BY <1>4, <2>1 DEF Resized, Typed, ViewTyped
  <2>3. BoundsTyped' /\ UNCHANGED viewRest
    BY <1>0, <1>4, BoundsStep DEF Resized, viewRest
  <2> QED
    BY <1>1, <2>2, <2>3
<1>5. CASE DecodePicture
  <2>1. scaling' \in Frames
    BY <1>5 DEF DecodePicture, Frames, Typed, ViewTyped
  <2>2. ViewTyped'
    BY <1>5, <2>1 DEF DecodePicture, Typed, ViewTyped
  <2>3. BoundsTyped' /\ UNCHANGED viewRest
    BY <1>0, <1>5, BoundsStep DEF DecodePicture, viewRest
  <2> QED
    BY <1>1, <2>2, <2>3
<1>6. CASE Publish
  <2>1. scaling' \in Frames
    BY <1>6 DEF Publish, Frames
  <2>2. ViewTyped'
    BY <1>6, <2>1 DEF Publish, Typed, ViewTyped
  <2>3. BoundsTyped' /\ UNCHANGED viewRest
    BY <1>0, <1>6, BoundsStep DEF Publish, viewRest, FailureKinds
  <2> QED
    BY <1>1, <2>2, <2>3
<1>7. CASE Redraw
  <2>1. shown' \in [win : Windows, frame : Frames]
    BY <1>7 DEF Redraw, Typed, ViewTyped
  <2>2. ViewTyped'
    BY <1>7, <2>1 DEF Redraw, Typed, ViewTyped
  <2>3. BoundsTyped' /\ UNCHANGED viewRest
    BY <1>0, <1>7, BoundsStep DEF Redraw, viewRest, FailureKinds
  <2> QED
    BY <1>1, <2>2, <2>3
<1> QED
  BY <1>2, <1>3, <1>4, <1>5, <1>6, <1>7 DEF ViewNext

\* Everything on the control channel decodes to a message of this client.
LEMMA EncodeType == ASSUME NEW m \in Sent PROVE Encode(m) \in ControlBytes
  BY DEF ControlBytes, Sent

LEMMA GreetingEncoded ==
    /\ EncodeAll(Greeting) \in Seq(ControlBytes)
    /\ Len(EncodeAll(Greeting)) = Len(Greeting) /\ DOMAIN EncodeAll(Greeting) = DOMAIN Greeting
    /\ \A i \in DOMAIN Greeting : /\ EncodeAll(Greeting)[i] = Encode(Greeting[i])
                                  /\ Greeting[i] \in Sent /\ Greeting[i] \notin Messages
<1>1. \E n \in Nat : DOMAIN Greeting = 1 .. n /\ Len(Greeting) = n
  <2>1. \A h, b : DOMAIN <<h>> = 1 .. 1 /\ Len(<<h>>) = 1 /\ DOMAIN <<h, b>> = 1 .. 2 /\ Len(<<h, b>>) = 2
    OBVIOUS
  <2>2. \/ DOMAIN Greeting = 1 .. 1 /\ Len(Greeting) = 1
        \/ DOMAIN Greeting = 1 .. 2 /\ Len(Greeting) = 2
    BY <2>1, GreetingParts
  <2>3. 1 \in Nat /\ 2 \in Nat
    OBVIOUS
  <2> QED
    BY <2>2, <2>3
<1>n. PICK n \in Nat : DOMAIN Greeting = 1 .. n /\ Len(Greeting) = n
  BY <1>1
<1>2. \A i \in DOMAIN Greeting : Greeting[i] \in Sent
  BY DEF Sent
<1> DEFINE e == EncodeAll(Greeting)
<1>3. e = [i \in 1 .. n |-> Encode(Greeting[i])]
  BY <1>n DEF EncodeAll
<1>4. \A i \in 1 .. n : Encode(Greeting[i]) \in ControlBytes
  BY <1>n, <1>2, EncodeType
<1>5. e \in [1 .. n -> ControlBytes] /\ \A i \in 1 .. n : e[i] = Encode(Greeting[i])
  BY <1>3, <1>4
<1> HIDE DEF e
<1>6. e \in Seq(ControlBytes) /\ Len(e) = n /\ DOMAIN e = 1 .. n
  BY <1>5
<1>7. \A i \in DOMAIN Greeting : Greeting[i] \notin Messages
  <2>1. ASSUME NEW m \in Messages PROVE m.type \in {"key", "button", "wheel", "release_all"}
    <3>1. m \in Sent
      BY DEF Sent
    <3> QED
      BY <3>1, Kinds
  <2>2. HelloMessage(Version).type = "hello" /\ BitrateMessage(StartBitrate).type = "set_bitrate"
    BY DEF HelloMessage, BitrateMessage
  <2> QED
    BY <2>1, <2>2, GreetingParts
<1> QED
  BY <1>n, <1>2, <1>5, <1>6, <1>7 DEF e

LEMMA SendType ==
    ASSUME Typed, NEW m \in Messages, SendControl(m)
    PROVE  control' \in Seq(ControlBytes) /\ missed' \in BOOLEAN
<1>1. Encode(m) \in ControlBytes
  BY EncodeType DEF Sent
<1>2. control \in Seq(ControlBytes) /\ missed \in BOOLEAN
  BY DEF Typed, FlightTyped, BoundsTyped
<1>3. Append(control, Encode(m)) \in Seq(ControlBytes)
  BY <1>1, <1>2
<1>4. CASE channel = "connecting"
  BY <1>2, <1>4 DEF SendControl
<1>5. CASE channel # "connecting"
  BY <1>2, <1>3, <1>5 DEF SendControl
<1> QED
  BY <1>4, <1>5

LEMMA NetType == ASSUME Typed, NetNext \/ ChannelOpens \/ NetFails \/ MouseTick PROVE Typed'
<1>0. missed \in BOOLEAN /\ control \in Seq(ControlBytes) /\ net \in BOOLEAN /\ latest_mouse \in Places
  BY DEF Typed, BoundsTyped, FlightTyped, NetTyped
<1>1. ASSUME UNCHANGED netRest, QueueTyped', NetTyped', FlightTyped', missed' \in BOOLEAN PROVE Typed'
  <2>1. UserTyped' /\ AppTyped' /\ ViewTyped' /\ DeviceTyped'
    BY <1>1, Kept DEF netRest
  <2>2. BoundsTyped'
    BY <1>1, BoundsStep DEF netRest
  <2> QED
    BY <1>1, <2>1, <2>2 DEF Typed
<1>2. CASE ChannelOpens
  <2>1. NetTyped'
    BY <1>2 DEF ChannelOpens, Typed, NetTyped
  <2> QED
    BY <1>0, <1>1, <1>2, <2>1, Kept DEF ChannelOpens
<1>3. CASE Greet
  <2>1. NetTyped'
    BY <1>3 DEF Greet, Typed, NetTyped
  <2>2. control \o EncodeAll(Greeting) \in Seq(ControlBytes)
    BY <1>0, GreetingEncoded, ConcatProperties
  <2>3. FlightTyped'
    BY <1>0, <1>3, <2>2 DEF Greet, Typed, FlightTyped
  <2> QED
    BY <1>0, <1>1, <1>3, <2>1, <2>3, Kept DEF Greet
<1>4. CASE NetControl
  <2>1. FlightTyped' /\ missed' \in BOOLEAN
    BY <1>4, SendType DEF NetControl, Typed, FlightTyped
  <2>2. QueueTyped'
    BY <1>4, TakeCommand DEF NetControl, QueueTyped
  <2> QED
    BY <1>1, <1>4, <2>1, <2>2, Kept DEF NetControl
<1>5. CASE NetMouse
  <2>1. Head(ui) \in Commands /\ Tail(ui) \in Seq(Commands) /\ Head(ui).type = "mouse"
    BY <1>5, TakeCommand DEF NetMouse
  <2>2. Head(ui).position \in MouseMoves
    BY <2>1, Kinds DEF Quit
  <2>3. NetTyped' /\ QueueTyped'
    BY <1>5, <2>1, <2>2 DEF NetMouse, Typed, NetTyped, QueueTyped, Places
  <2> QED
    BY <1>0, <1>1, <1>5, <2>3, Kept DEF NetMouse
<1>6. CASE NetQuit
  <2>1. FlightTyped' /\ missed' \in BOOLEAN
    BY <1>6, SendType DEF NetQuit, Typed, FlightTyped, Messages
  <2>2. QueueTyped' /\ NetTyped'
    BY <1>6, TakeCommand DEF NetQuit, QueueTyped, Typed, NetTyped
  <2> QED
    BY <1>1, <1>6, <2>1, <2>2 DEF NetQuit
<1>7. CASE NetFails
  <2>1. NetTyped'
    BY <1>7 DEF NetFails, Typed, NetTyped
  <2> QED
    BY <1>1, <1>7, <2>1, Kept DEF NetFails
<1>8. CASE MouseTick
  <2>1. latest_mouse \in MouseMoves
    BY <1>0, <1>8 DEF MouseTick, Places
  <2>2. DecodeMouse(EncodeMouse(latest_mouse)) = latest_mouse
    BY <2>1, MessagesRoundTrip DEF MoveRoundTrips
  <2>3. FlightTyped' /\ NetTyped'
    BY <1>8, <2>1, <2>2 DEF MouseTick, Typed, FlightTyped, NetTyped, Places
  <2> QED
    BY <1>0, <1>1, <1>8, <2>3, Kept DEF MouseTick
<1> QED
  BY <1>2, <1>3, <1>4, <1>5, <1>6, <1>7, <1>8 DEF NetNext

\* The types of what the devices hold down, for every way an operation can go.
SinkTyped ==
    /\ sink_keys \subseteq Keys \ Unmapped /\ sink_buttons \subseteq Buttons
    /\ stuck \subseteq held /\ held \subseteq Inputs \ Unmapped

LEMMA ReleaseAllType ==
    ASSUME SinkTyped, SinkReleaseAll
    PROVE  SinkTyped' /\ (UNCHANGED failures \/ Fails("release"))
  BY DEF SinkTyped, SinkReleaseAll

LEMMA InputType ==
    ASSUME SinkTyped, NEW i, NEW pressed \in BOOLEAN,
           (i \in Keys /\ Key(i, pressed)) \/ (i \in Buttons /\ Button(i, pressed))
    PROVE  SinkTyped' /\ (UNCHANGED failures \/ Fails("press") \/ Fails("release"))
<1>1. CASE i \in Keys /\ ~Mapped(i) /\ Key(i, pressed)
  BY <1>1 DEF Key, SinkTyped
<1>2. ASSUME Emit(i, pressed), i \in Inputs \ Unmapped
      PROVE  /\ stuck' \subseteq held' /\ held' \subseteq Inputs \ Unmapped
             /\ UNCHANGED failures \/ Fails("press") \/ Fails("release")
  BY <1>2 DEF Emit, Toggle, SinkTyped
<1>3. CASE i \in Keys /\ Mapped(i) /\ Key(i, pressed)
  <2>1. i \in Inputs \ Unmapped
    BY <1>3 DEF Inputs, Mapped
  <2> QED
    BY <1>2, <1>3, <2>1 DEF Key, Toggle, Mapped, SinkTyped
<1>4. CASE i \in Buttons /\ Button(i, pressed)
  <2>1. i \in Inputs \ Unmapped
    BY <1>4, InputsAssumption DEF Inputs
  <2> QED
    BY <1>2, <1>4, <2>1 DEF Button, Toggle, SinkTyped
<1> QED
  BY <1>1, <1>3, <1>4

\* What HandleControl does, by the kind of the message.
LEMMA ControlCases ==
    ASSUME Typed, HandleControl
    PROVE  LET m == Decode(Head(control)) IN
           /\ control # <<>> /\ m \in Sent /\ control' = Tail(control) /\ Tail(control) \in Seq(ControlBytes)
           /\ missed' = (missed \/ failures' # failures)
           /\ UNCHANGED <<mouse, pointer, serverRest>>
           /\ \/ m.type = "key" /\ m.code \in Keys /\ m.pressed \in BOOLEAN
                    /\ Key(m.code, m.pressed) /\ UNCHANGED wheel
              \/ m.type = "button" /\ m.button \in Buttons /\ m.pressed \in BOOLEAN
                    /\ Button(m.button, m.pressed) /\ UNCHANGED wheel
              \/ m.type = "wheel" /\ m.vertical \in Int
                    /\ SinkWheel(m.vertical) /\ UNCHANGED <<sink_keys, sink_buttons, held, stuck>>
              \/ m = ReleaseAll /\ m.type = "release_all" /\ SinkReleaseAll /\ UNCHANGED wheel
              \/ m.type \in {"hello", "set_bitrate"}
                    /\ UNCHANGED <<sink_keys, sink_buttons, held, stuck, wheel, failures>>
<1> DEFINE m == Decode(Head(control))
<1>1. control # <<>> /\ control \in Seq(ControlBytes)
  BY DEF HandleControl, Typed, FlightTyped
<1>2. Head(control) \in ControlBytes /\ Tail(control) \in Seq(ControlBytes)
  BY <1>1, HeadTailProperties
<1>3. m \in Sent
  BY <1>2, ControlDecodes
<1>4. /\ control' = Tail(control) /\ missed' = (missed \/ failures' # failures)
      /\ UNCHANGED <<mouse, pointer, serverRest>>
      /\ CASE m.type = "key" -> Key(m.code, m.pressed) /\ UNCHANGED wheel
           [] m.type = "button" -> Button(m.button, m.pressed) /\ UNCHANGED wheel
           [] m.type = "wheel" ->
                 SinkWheel(m.vertical) /\ UNCHANGED <<sink_keys, sink_buttons, held, stuck>>
           [] m.type = "release_all" -> SinkReleaseAll /\ UNCHANGED wheel
           [] m.type \in {"hello", "set_bitrate", "error"} ->
                 UNCHANGED <<sink_keys, sink_buttons, held, stuck, wheel, failures>>
  BY DEF HandleControl
<1> HIDE DEF m
<1>5. \/ m.type = "key" /\ m.code \in Keys /\ m.pressed \in BOOLEAN
      \/ m.type = "button" /\ m.button \in Buttons /\ m.pressed \in BOOLEAN
      \/ m.type = "wheel" /\ m.vertical \in Int
      \/ m = ReleaseAll /\ m.type = "release_all"
      \/ m.type \in {"hello", "set_bitrate"}
  BY <1>3, Kinds
<1>6. \/ m.type = "key" /\ Key(m.code, m.pressed) /\ UNCHANGED wheel
      \/ m.type = "button" /\ Button(m.button, m.pressed) /\ UNCHANGED wheel
      \/ m.type = "wheel" /\ SinkWheel(m.vertical) /\ UNCHANGED <<sink_keys, sink_buttons, held, stuck>>
      \/ m.type = "release_all" /\ SinkReleaseAll /\ UNCHANGED wheel
      \/ m.type \in {"hello", "set_bitrate"}
            /\ UNCHANGED <<sink_keys, sink_buttons, held, stuck, wheel, failures>>
  BY <1>4, <1>5
<1>7. \/ m.type = "key" /\ m.code \in Keys /\ m.pressed \in BOOLEAN
            /\ Key(m.code, m.pressed) /\ UNCHANGED wheel
      \/ m.type = "button" /\ m.button \in Buttons /\ m.pressed \in BOOLEAN
            /\ Button(m.button, m.pressed) /\ UNCHANGED wheel
      \/ m.type = "wheel" /\ m.vertical \in Int
            /\ SinkWheel(m.vertical) /\ UNCHANGED <<sink_keys, sink_buttons, held, stuck>>
      \/ m = ReleaseAll /\ m.type = "release_all" /\ SinkReleaseAll /\ UNCHANGED wheel
      \/ m.type \in {"hello", "set_bitrate"}
            /\ UNCHANGED <<sink_keys, sink_buttons, held, stuck, wheel, failures>>
  BY <1>5, <1>6
<1> QED
  BY <1>1, <1>2, <1>3, <1>4, <1>7 DEF m

LEMMA ServerType == ASSUME Typed, HandleControl \/ HandleMouse \/ SessionEnds PROVE Typed'
<1>0. missed \in BOOLEAN /\ wheel \in Int /\ pointer \in Places /\ SinkTyped
  BY DEF Typed, BoundsTyped, DeviceTyped, SinkTyped
<1>1. ASSUME UNCHANGED <<userVars, appVars, viewVars, ui, events, scenario>>, missed' \in BOOLEAN,
             NetTyped', FlightTyped', SinkTyped', wheel' \in Int, pointer' \in Places,
             UNCHANGED failures \/ \E op \in FailureKinds : Fails(op)
      PROVE  Typed'
  <2>1. UserTyped' /\ AppTyped' /\ ViewTyped' /\ QueueTyped'
    BY <1>1, Kept
  <2>2. BoundsTyped'
    BY <1>1, BoundsStep
  <2>3. DeviceTyped'
    BY <1>1 DEF SinkTyped, DeviceTyped
  <2> QED
    BY <1>1, <2>1, <2>2, <2>3 DEF Typed
<1>2. CASE HandleControl
  <2> DEFINE m == Decode(Head(control))
  <2>1. /\ control' = Tail(control) /\ Tail(control) \in Seq(ControlBytes)
        /\ missed' = (missed \/ failures' # failures)
        /\ UNCHANGED <<mouse, pointer, serverRest>>
        /\ \/ m.type = "key" /\ m.code \in Keys /\ m.pressed \in BOOLEAN
                 /\ Key(m.code, m.pressed) /\ UNCHANGED wheel
           \/ m.type = "button" /\ m.button \in Buttons /\ m.pressed \in BOOLEAN
                 /\ Button(m.button, m.pressed) /\ UNCHANGED wheel
           \/ m.type = "wheel" /\ m.vertical \in Int
                 /\ SinkWheel(m.vertical) /\ UNCHANGED <<sink_keys, sink_buttons, held, stuck>>
           \/ SinkReleaseAll /\ UNCHANGED wheel
           \/ UNCHANGED <<sink_keys, sink_buttons, held, stuck, wheel, failures>>
    BY <1>2, ControlCases
  <2> HIDE DEF m
  <2>2. /\ SinkTyped' /\ wheel' \in Int
        /\ UNCHANGED failures \/ \E op \in FailureKinds : Fails(op)
    <3>1. CASE m.type = "key" /\ m.code \in Keys /\ m.pressed \in BOOLEAN
                 /\ Key(m.code, m.pressed) /\ UNCHANGED wheel
      <4>1. SinkTyped' /\ (UNCHANGED failures \/ Fails("press") \/ Fails("release"))
        BY <1>0, <3>1, InputType
      <4> QED
        BY <1>0, <3>1, <4>1 DEF FailureKinds
    <3>2. CASE m.type = "button" /\ m.button \in Buttons /\ m.pressed \in BOOLEAN
                 /\ Button(m.button, m.pressed) /\ UNCHANGED wheel
      BY <1>0, <3>2, InputType DEF FailureKinds
    <3>3. CASE m.type = "wheel" /\ m.vertical \in Int
                 /\ SinkWheel(m.vertical) /\ UNCHANGED <<sink_keys, sink_buttons, held, stuck>>
      BY <1>0, <3>3 DEF SinkTyped, SinkWheel, FailureKinds
    <3>4. CASE SinkReleaseAll /\ UNCHANGED wheel
      BY <1>0, <3>4, ReleaseAllType DEF FailureKinds
    <3>5. CASE UNCHANGED <<sink_keys, sink_buttons, held, stuck, wheel, failures>>
      BY <1>0, <3>5 DEF SinkTyped
    <3> QED
      BY <2>1, <3>1, <3>2, <3>3, <3>4, <3>5
  <2>3. FlightTyped' /\ NetTyped'
    BY <2>1, Kept DEF serverRest, Typed, FlightTyped
  <2>4. missed' \in BOOLEAN /\ pointer' \in Places
    BY <1>0, <2>1
  <2> QED
    BY <1>1, <2>1, <2>2, <2>3, <2>4 DEF serverRest
<1>3. CASE HandleMouse
  <2>1. PICK bytes \in mouse :
           /\ mouse' = mouse \ {bytes}
           /\ \/ pointer' = DecodeMouse(bytes) /\ UNCHANGED failures
              \/ Fails("move") /\ UNCHANGED pointer
           /\ UNCHANGED <<control, sink_keys, sink_buttons, held, stuck, wheel, missed, serverRest>>
    BY <1>3 DEF HandleMouse
  <2>2. FlightTyped' /\ DecodeMouse(bytes) \in MouseMoves
    BY <2>1 DEF Typed, FlightTyped
  <2>3. NetTyped' /\ SinkTyped'
    BY <1>0, <2>1, Kept DEF serverRest, SinkTyped
  <2>4. pointer' \in Places /\ (UNCHANGED failures \/ \E op \in FailureKinds : Fails(op))
    BY <1>0, <2>1, <2>2 DEF Places, FailureKinds
  <2> QED
    BY <1>0, <1>1, <2>1, <2>2, <2>3, <2>4 DEF serverRest
<1>4. CASE SessionEnds
  <2>1. SinkTyped' /\ (UNCHANGED failures \/ Fails("release"))
    BY <1>0, <1>4, ReleaseAllType DEF SessionEnds
  <2>2. NetTyped' /\ FlightTyped'
    BY <1>4 DEF SessionEnds, Typed, NetTyped, FlightTyped
  <2> QED
    BY <1>0, <1>1, <1>4, <2>1, <2>2 DEF SessionEnds, FailureKinds
<1> QED
  BY <1>2, <1>3, <1>4

LEMMA NextTyped == ASSUME Typed, [Next]_vars PROVE Typed'
<1>1. CASE Next
  BY <1>1, WindowType, ViewType, NetType, ServerType DEF Next
<1>2. CASE UNCHANGED vars
  <2>1. /\ UserTyped' /\ AppTyped' /\ ViewTyped' /\ QueueTyped'
        /\ NetTyped' /\ FlightTyped' /\ DeviceTyped' /\ BoundsTyped'
    BY <1>2, Kept DEF vars
  <2> QED
    BY <2>1 DEF Typed
<1> QED
  BY <1>1, <1>2

\* Every variable keeps its type: what is queued and on its way are messages of
\* this client, whatever the user does and whatever fails.
THEOREM InputTyped == Spec => []TypeOK
<1>1. Init => Typed
  BY InitTyped
<1>2. Typed /\ [Next]_vars => Typed'
  BY NextTyped
<1>3. Typed => TypeOK
  BY TypedIsTypeOK
<1> QED
  BY <1>1, <1>2, <1>3, PTL DEF Spec

\* The server decodes every queued message and position to what the window
\* meant: Encode and Decode are inverse on everything the event handlers queue.
THEOREM ServerUnderstands == Spec => []Understood
<1>1. Typed => Understood
  BY CommandsUnderstood DEF Typed, QueueTyped
<1> QED
  BY <1>1, InitTyped, NextTyped, PTL DEF Spec

\* No queued message, cut short or with something behind it, decodes to another.
THEOREM MessagesAreDelimited == Spec => []Framed
<1>1. Typed => Framed
  BY CommandsUnderstood DEF Typed, QueueTyped
<1> QED
  BY <1>1, InitTyped, NextTyped, PTL DEF Spec

(***************************************************************************)
(* The pointer.                                                            *)
(***************************************************************************)
\* One direction of a picture that fits: blit draws its pixels from 0 on.
LEMMA BlitCentres ==
    ASSUME NEW width \in Nat, NEW n \in Nat, n <= width, NEW x \in Nat, BlitSource(width, n, x) # Black
    PROVE  BlitSource(width, n, x) = x - (width - n) \div 2
<1>1. AtMost(width, n) = n /\ (n - n) \div 2 = 0
  BY DEF AtMost
<1> DEFINE x0 == (width - n) \div 2
<1>2. x0 \in Int
  OBVIOUS
<1>3. BlitSource(width, n, x) = IF x \in x0 .. x0 + n - 1 THEN 0 + (x - x0) ELSE Black
  BY <1>1 DEF BlitSource
<1> HIDE DEF x0
<1>4. BlitSource(width, n, x) = x - x0
  <2>1. BlitSource(width, n, x) = 0 + (x - x0)
    BY <1>3
  <2>2. x - x0 \in Int /\ \A i \in Int : 0 + i = i
    BY <1>2
  <2> QED
    BY <2>1, <2>2
<1> QED
  BY <1>4 DEF x0

LEMMA FittingPicture ==
    ASSUME NEW win \in Windows, NEW frame \in Frames, Fits(frame, win) PROVE PointsAtPicture(win, frame)
<1>1. /\ frame[1] \in Nat /\ frame[1] >= 2 /\ frame[2] \in Nat /\ frame[2] >= 2
      /\ frame[1] <= win[1] /\ frame[2] <= win[2]
  BY FrameType DEF Fits
<1>2. win[1] \in Nat /\ win[2] \in Nat /\ win = <<win[1], win[2]>>
  BY SizesAssumption
<1>3. Target(win) = win
  BY <1>1, <1>2 DEF Target, AtLeast
<1>4. VideoRect(win, frame) =
         [at |-> <<(win[1] - frame[1]) \div 2, (win[2] - frame[2]) \div 2>>, size |-> frame]
  BY <1>3 DEF VideoRect
<1> SUFFICES ASSUME NEW x \in 0 .. win[1] - 1, NEW y \in 0 .. win[2] - 1,
                    BlitSource(win[1], frame[1], x) # Black, BlitSource(win[2], frame[2], y) # Black
             PROVE  PositionAt(win, frame, <<x, y>>) =
                       [x |-> Normalised(BlitSource(win[1], frame[1], x), frame[1]),
                        y |-> Normalised(BlitSource(win[2], frame[2], y), frame[2])]
  BY DEF PointsAtPicture
<1>5. /\ BlitSource(win[1], frame[1], x) = x - (win[1] - frame[1]) \div 2
      /\ BlitSource(win[2], frame[2], y) = y - (win[2] - frame[2]) \div 2
  BY <1>1, <1>2, BlitCentres
<1>6. PositionAt(win, frame, <<x, y>>) =
         [x |-> Normalised(x - (win[1] - frame[1]) \div 2, frame[1]),
          y |-> Normalised(y - (win[2] - frame[2]) \div 2, frame[2])]
  BY <1>4 DEF PositionAt
<1> QED
  BY <1>5, <1>6

\* The position sent for a point of the window is that of the picture's pixel
\* that blit drew there, for every size of window and video.
THEOREM PointerFollowsPicture == Spec => []PointerOnPicture
<1>1. Typed => PointerOnPicture
  BY FittingPicture DEF Typed, ViewTyped, PointerOnPicture
<1> QED
  BY <1>1, InitTyped, NextTyped, PTL DEF Spec

(***************************************************************************)
(* What is on its way.  The commands the window queued and the messages on *)
(* the control channel lead from what the devices have to what the window  *)
(* has, one after the other.                                               *)
(***************************************************************************)
Sink == sink_keys \cup sink_buttons
PressedNow == pressed_keys \cup pressed_buttons

\* What is down and how far the wheel was turned, and what a message changes.
States == [down : SUBSET Inputs, wheel : Int]
Effect(c, s) ==
    CASE c.type = "key" /\ Mapped(c.code) -> [s EXCEPT !.down = Toggle(s.down, c.code, c.pressed)]
      [] c.type = "button" -> [s EXCEPT !.down = Toggle(s.down, c.button, c.pressed)]
      [] c.type = "wheel" -> [s EXCEPT !.wheel = s.wheel + c.vertical]
      [] c.type \in {"release_all", "quit"} -> [s EXCEPT !.down = {}]
      [] OTHER -> s

LEMMA EffectOf ==
    ASSUME NEW c, NEW s
    PROVE  /\ c.type = "key" /\ Mapped(c.code) =>
                  Effect(c, s) = [s EXCEPT !.down = Toggle(s.down, c.code, c.pressed)]
           /\ c.type = "key" /\ ~Mapped(c.code) => Effect(c, s) = s
           /\ c.type = "button" => Effect(c, s) = [s EXCEPT !.down = Toggle(s.down, c.button, c.pressed)]
           /\ c.type = "wheel" => Effect(c, s) = [s EXCEPT !.wheel = s.wheel + c.vertical]
           /\ c.type \in {"release_all", "quit"} => Effect(c, s) = [s EXCEPT !.down = {}]
           /\ c.type \in {"mouse", "hello", "set_bitrate"} => Effect(c, s) = s
  BY DEF Effect

LEMMA EffectType == ASSUME NEW c \in Sent \cup Commands, NEW s \in States PROVE Effect(c, s) \in States
<1> DEFINE e == Effect(c, s)
<1>1. \A i \in Inputs, p \in BOOLEAN : Toggle(s.down, i, p) \in SUBSET Inputs
  BY DEF Toggle, States
<1>2. \/ e = s
      \/ \E d \in SUBSET Inputs : e = [s EXCEPT !.down = d]
      \/ \E w \in Int : e = [s EXCEPT !.wheel = w]
  <2>1. CASE c.type = "key"
    <3>1. c.code \in Inputs /\ c.pressed \in BOOLEAN
      BY <2>1, Kinds DEF Inputs, Quit, ReleaseAll
    <3>2. Toggle(s.down, c.code, c.pressed) \in SUBSET Inputs
      BY <1>1, <3>1
    <3> QED
      BY <2>1, <3>2, EffectOf
  <2>2. CASE c.type = "button"
    <3>1. c.button \in Inputs /\ c.pressed \in BOOLEAN
      BY <2>2, Kinds DEF Inputs, Quit, ReleaseAll
    <3>2. Toggle(s.down, c.button, c.pressed) \in SUBSET Inputs
      BY <1>1, <3>1
    <3> QED
      BY <2>2, <3>2, EffectOf
  <2>3. CASE c.type = "wheel"
    <3>1. c.vertical \in Int /\ s.wheel \in Int
      BY <2>3, Kinds DEF Quit, ReleaseAll, States
    <3>2. e = [s EXCEPT !.wheel = s.wheel + c.vertical] /\ s.wheel + c.vertical \in Int
      BY <2>3, <3>1, EffectOf
    <3> QED
      BY <3>2
  <2>4. CASE c.type \in {"release_all", "quit"}
    <3>1. {} \in SUBSET Inputs
      OBVIOUS
    <3>2. e = [s EXCEPT !.down = {}]
      BY <2>4, EffectOf
    <3> QED
      BY <3>1, <3>2
  <2>5. CASE c.type \in {"mouse", "hello", "set_bitrate"}
    BY <2>5, EffectOf
  <2> QED
    BY <2>1, <2>2, <2>3, <2>4, <2>5, Kinds
<1> HIDE DEF e
<1>3. e \in States
  BY <1>2 DEF States
<1> QED
  BY <1>3 DEF e

\* The messages of s, one after the other, lead from state a to state b.
Leads(h, a, s, b) ==
    /\ h \in [0 .. Len(s) -> States] /\ h[0] = a /\ h[Len(s)] = b
    /\ \A i \in 1 .. Len(s) : h[i] = Effect(s[i], h[i - 1])
Reaches(a, s, b) == \E h \in [0 .. Len(s) -> States] : Leads(h, a, s, b)

LEMMA ReachesEmpty ==
    /\ \A a \in States : Reaches(a, <<>>, a)
    /\ \A a, b : Reaches(a, <<>>, b) => a = b
<1>1. Len(<<>>) = 0
  OBVIOUS
<1>2. ASSUME NEW a \in States PROVE Reaches(a, <<>>, a)
  <2> DEFINE h == [i \in 0 .. 0 |-> a]
  <2>1. h \in [0 .. 0 -> States] /\ h[0] = a
    OBVIOUS
  <2>2. Leads(h, a, <<>>, a)
    BY <1>1, <2>1 DEF Leads
  <2> QED
    BY <1>1, <2>1, <2>2 DEF Reaches
<1>3. ASSUME NEW a, NEW b, Reaches(a, <<>>, b) PROVE a = b
  BY <1>1, <1>3 DEF Reaches, Leads
<1> QED
  BY <1>2, <1>3

LEMMA ReachesAppend ==
    ASSUME NEW M, NEW s \in Seq(M), NEW c \in M, NEW a, NEW b, Reaches(a, s, b), Effect(c, b) \in States
    PROVE  Reaches(a, Append(s, c), Effect(c, b))
<1> DEFINE n == Len(s)
<1> DEFINE t == Append(s, c)
<1>1. n \in Nat /\ Len(t) = n + 1 /\ t[n + 1] = c /\ \A i \in 1 .. n : t[i] = s[i]
  OBVIOUS
<1>2. PICK h \in [0 .. n -> States] : Leads(h, a, s, b)
  BY DEF Reaches
<1>3. h[0] = a /\ h[n] = b /\ \A i \in 1 .. n : h[i] = Effect(s[i], h[i - 1])
  BY <1>2 DEF Leads
<1> DEFINE e == Effect(c, b)
<1>e. e \in States
  OBVIOUS
<1> HIDE DEF n, t, e
<1> DEFINE g == [i \in 0 .. n + 1 |-> IF i = n + 1 THEN e ELSE h[i]]
<1>4. g \in [0 .. n + 1 -> States] /\ g[n + 1] = e /\ \A i \in 0 .. n : g[i] = h[i]
  BY <1>1, <1>e
<1> HIDE DEF g
<1>5. \A i \in 1 .. n + 1 : g[i] = Effect(t[i], g[i - 1])
  <2>1. ASSUME NEW i \in 1 .. n PROVE g[i] = Effect(t[i], g[i - 1])
    BY <1>1, <1>3, <1>4, <2>1
  <2>2. g[n + 1] = Effect(t[n + 1], g[(n + 1) - 1])
    <3>1. (n + 1) - 1 = n /\ n \in 0 .. n
      BY <1>1
    <3> QED
      BY <1>1, <1>3, <1>4, <3>1 DEF e
  <2>3. \A i \in 1 .. n + 1 : i \in 1 .. n \/ i = n + 1
    BY <1>1
  <2> QED
    BY <2>1, <2>2, <2>3
<1>6. Leads(g, a, t, e)
  BY <1>1, <1>3, <1>4, <1>5 DEF Leads
<1> QED
  BY <1>1, <1>4, <1>6 DEF Reaches, t, e

LEMMA ReachesTail ==
    ASSUME NEW M, NEW s \in Seq(M), s # <<>>, NEW a, NEW b, Reaches(a, s, b)
    PROVE  Reaches(Effect(Head(s), a), Tail(s), b) /\ Effect(Head(s), a) \in States
<1> DEFINE n == Len(s)
<1> DEFINE t == Tail(s)
<1>1. n \in Nat \ {0} /\ Len(t) = n - 1 /\ Head(s) = s[1] /\ \A i \in 1 .. n - 1 : t[i] = s[i + 1]
  BY HeadTailProperties, EmptySeq
<1>2. PICK h \in [0 .. n -> States] : Leads(h, a, s, b)
  BY DEF Reaches
<1>3. h[0] = a /\ h[n] = b /\ \A i \in 1 .. n : h[i] = Effect(s[i], h[i - 1])
  BY <1>2 DEF Leads
<1> HIDE DEF n, t
<1> DEFINE g == [i \in 0 .. n - 1 |-> h[i + 1]]
<1>4. g \in [0 .. n - 1 -> States] /\ \A i \in 0 .. n - 1 : g[i] = h[i + 1]
  BY <1>1
<1> HIDE DEF g
<1>5. g[0] = Effect(Head(s), a) /\ g[0] \in States
  BY <1>1, <1>3, <1>4
<1>6. g[n - 1] = b
  BY <1>1, <1>3, <1>4
<1>7. ASSUME NEW i \in 1 .. n - 1 PROVE g[i] = Effect(t[i], g[i - 1])
  <2>1. i + 1 \in 1 .. n /\ (i + 1) - 1 = i /\ i - 1 \in 0 .. n - 1 /\ (i - 1) + 1 = i /\ i \in 0 .. n - 1
    BY <1>1
  <2>2. g[i] = h[i + 1] /\ g[i - 1] = h[i] /\ t[i] = s[i + 1]
    BY <1>1, <1>4, <2>1
  <2> QED
    BY <1>3, <2>1, <2>2
<1>8. Leads(g, g[0], t, b)
  BY <1>1, <1>4, <1>6, <1>7 DEF Leads
<1>9. Reaches(g[0], t, b)
  BY <1>1, <1>4, <1>8 DEF Reaches
<1> QED
  BY <1>5, <1>9 DEF t

\* Natural numbers have a least element.
Below == {p \in Nat \X Nat : p[1] < p[2]}

LEMMA Least == ASSUME NEW T \in SUBSET Nat, T # {} PROVE \E x \in T : \A y \in T : x <= y
<1>1. OpToRel(<, Nat) = Below
  BY DEF OpToRel, Below
<1>2. IsWellFoundedOn(Below, Nat)
  BY NatLessThanWellFounded, <1>1
<1>3. PICK x \in T : \A y \in T : <<y, x>> \notin Below
  BY <1>2, WFMin
<1>4. ASSUME NEW y \in T PROVE x <= y
  <2>1. x \in Nat /\ y \in Nat
    OBVIOUS
  <2>2. \A m \in Nat \X Nat : m[1] < m[2] => m \in Below
    BY DEF Below
  <2>3. ~(y < x)
    BY <1>3, <2>1, <2>2
  <2> QED
    BY <2>1, <2>3
<1> QED
  BY <1>4

\* What has no effect leads nowhere else.
LEMMA ReachesIdle ==
    ASSUME NEW M, NEW s \in Seq(M), NEW a, NEW b, Reaches(a, s, b),
           \A i \in 1 .. Len(s) : \A x \in States : Effect(s[i], x) = x
    PROVE  a = b
<1> DEFINE n == Len(s)
<1>1. n \in Nat
  OBVIOUS
<1>2. PICK h \in [0 .. n -> States] : Leads(h, a, s, b)
  BY DEF Reaches
<1>3. h[0] = a /\ h[n] = b /\ \A i \in 1 .. n : h[i] = Effect(s[i], h[i - 1])
  BY <1>2 DEF Leads
<1>4. \A i \in 1 .. n : \A x \in States : Effect(s[i], x) = x
  OBVIOUS
<1> HIDE DEF n
<1>5. \A i \in 1 .. n : i - 1 \in 0 .. n /\ h[i] = h[i - 1]
  BY <1>1, <1>3, <1>4
<1> DEFINE T == {i \in 0 .. n : h[i] # a}
<1>6. SUFFICES T = {}
  BY <1>1, <1>3
<1>7. SUFFICES ASSUME T # {} PROVE FALSE
  OBVIOUS
<1>8. T \in SUBSET Nat
  BY <1>1
<1>9. PICK x \in T : \A y \in T : x <= y
  BY <1>7, <1>8, Least
<1>10. x \in 1 .. n /\ x \in Nat
  BY <1>1, <1>3, <1>9
<1>11. x - 1 \in T
  BY <1>5, <1>9, <1>10
<1> QED
  BY <1>9, <1>10, <1>11

LEMMA ReachesPadded ==
    ASSUME NEW s, NEW t, NEW n \in Nat, NEW k \in Nat, Len(s) = n, Len(t) = n + k,
           NEW a, NEW b, Reaches(a, s, b),
           \A i \in 1 .. n : t[i] = s[i], \A i \in n + 1 .. n + k : Effect(t[i], b) = b
    PROVE  Reaches(a, t, b)
<1>1. PICK h \in [0 .. n -> States] : Leads(h, a, s, b)
  BY DEF Reaches
<1>2. h[0] = a /\ h[n] = b /\ \A i \in 1 .. n : h[i] = Effect(s[i], h[i - 1])
  BY <1>1 DEF Leads
<1>3. b \in States
  BY <1>2
<1> DEFINE g == [i \in 0 .. n + k |-> IF i <= n THEN h[i] ELSE b]
<1>4. /\ g \in [0 .. n + k -> States]
      /\ \A i \in 0 .. n : g[i] = h[i]
      /\ \A i \in n + 1 .. n + k : g[i] = b
  BY <1>3
<1> HIDE DEF g
<1>5. \A i \in n .. n + k : g[i] = b
  BY <1>2, <1>4
<1>6. ASSUME NEW i \in 1 .. n + k PROVE g[i] = Effect(t[i], g[i - 1])
  <2>1. CASE i <= n
    <3>1. i \in 1 .. n /\ i \in 0 .. n /\ i - 1 \in 0 .. n
      BY <2>1
    <3> QED
      BY <1>2, <1>4, <3>1
  <2>2. CASE i > n
    <3>1. i \in n + 1 .. n + k /\ i \in n .. n + k /\ i - 1 \in n .. n + k
      BY <2>2
    <3> QED
      BY <1>5, <3>1
  <2> QED
    BY <2>1, <2>2
<1>7. g[0] = a /\ g[n + k] = b
  BY <1>2, <1>4, <1>5
<1>8. Leads(g, a, t, b)
  BY <1>4, <1>6, <1>7 DEF Leads
<1> QED
  BY <1>4, <1>8 DEF Reaches

\* The messages that are on the control channel.
Decoded(s) == [i \in DOMAIN s |-> Decode(s[i])]

LEMMA DecodedType ==
    ASSUME NEW s \in Seq(ControlBytes)
    PROVE  Decoded(s) \in Seq(Sent) /\ Len(Decoded(s)) = Len(s) /\ \A i \in 1 .. Len(s) : Decoded(s)[i] = Decode(s[i])
<1> DEFINE n == Len(s)
<1> DEFINE d == Decoded(s)
<1>1. n \in Nat /\ DOMAIN s = 1 .. n /\ \A i \in 1 .. n : s[i] \in ControlBytes
  OBVIOUS
<1>2. d = [i \in 1 .. n |-> Decode(s[i])]
  BY <1>1 DEF Decoded
<1>3. \A i \in 1 .. n : Decode(s[i]) \in Sent
  BY <1>1, ControlDecodes
<1> HIDE DEF n, d
<1>4. d \in [1 .. n -> Sent] /\ \A i \in 1 .. n : d[i] = Decode(s[i])
  BY <1>2, <1>3
<1>5. d \in Seq(Sent) /\ Len(d) = n
  BY <1>1, <1>4
<1> QED
  BY <1>4, <1>5 DEF n, d

LEMMA DecodedAppend ==
    ASSUME NEW s \in Seq(ControlBytes), NEW m \in Sent
    PROVE  Decoded(Append(s, Encode(m))) = Append(Decoded(s), m)
<1> DEFINE n == Len(s)
<1> DEFINE e == Encode(m)
<1>1. e \in ControlBytes /\ Decode(e) = m
  BY EncodeType, SentArrives
<1> HIDE DEF e
<1>2. /\ n \in Nat /\ Append(s, e) \in Seq(ControlBytes) /\ Len(Append(s, e)) = n + 1
      /\ Append(s, e)[n + 1] = e /\ \A i \in 1 .. n : Append(s, e)[i] = s[i]
  BY <1>1
<1> DEFINE d == Decoded(s)
<1> DEFINE c == Decoded(Append(s, e))
<1>3. d \in Seq(Sent) /\ Len(d) = n /\ \A i \in 1 .. n : d[i] = Decode(s[i])
  BY DecodedType
<1>4. c \in Seq(Sent) /\ Len(c) = n + 1 /\ \A i \in 1 .. n + 1 : c[i] = Decode(Append(s, e)[i])
  BY <1>2, DecodedType
<1> HIDE DEF n, d, c
<1>5. /\ Append(d, m) \in Seq(Sent) /\ Len(Append(d, m)) = n + 1 /\ Append(d, m)[n + 1] = m
      /\ \A i \in 1 .. n : Append(d, m)[i] = d[i]
  BY <1>2, <1>3
<1>6. \A i \in 1 .. n + 1 : i \in 1 .. n \/ i = n + 1
  BY <1>2
<1>7. \A i \in 1 .. n + 1 : c[i] = Append(d, m)[i]
  BY <1>1, <1>2, <1>3, <1>4, <1>5, <1>6
<1>8. c = Append(d, m)
  BY <1>4, <1>5, <1>7, SeqEqual
<1> QED
  BY <1>8 DEF c, d, e

LEMMA DecodedTail ==
    ASSUME NEW s \in Seq(ControlBytes), s # <<>>
    PROVE  /\ Decoded(s) # <<>> /\ Head(Decoded(s)) = Decode(Head(s))
           /\ Decoded(Tail(s)) = Tail(Decoded(s))
<1> DEFINE n == Len(s)
<1> DEFINE t == Tail(s)
<1>1. n \in Nat \ {0}
  BY EmptySeq
<1>2. /\ t \in Seq(ControlBytes) /\ Len(t) = n - 1 /\ Head(s) = s[1]
      /\ \A i \in 1 .. n - 1 : t[i] = s[i + 1]
  BY HeadTailProperties
<1> DEFINE d == Decoded(s)
<1> DEFINE c == Decoded(t)
<1>3. d \in Seq(Sent) /\ Len(d) = n /\ \A i \in 1 .. n : d[i] = Decode(s[i])
  BY DecodedType
<1>4. c \in Seq(Sent) /\ Len(c) = n - 1 /\ \A i \in 1 .. n - 1 : c[i] = Decode(t[i])
  BY <1>2, DecodedType
<1> HIDE DEF n, t, d, c
<1>5. d # <<>>
  BY <1>1, <1>3
<1>6. /\ Tail(d) \in Seq(Sent) /\ Len(Tail(d)) = n - 1 /\ Head(d) = d[1]
      /\ \A i \in 1 .. n - 1 : Tail(d)[i] = d[i + 1]
  BY <1>1, <1>3, <1>5, HeadTailProperties
<1>7. ASSUME NEW i \in 1 .. n - 1 PROVE c[i] = Tail(d)[i]
  <2>1. i + 1 \in 1 .. n
    BY <1>1
  <2> QED
    BY <1>2, <1>3, <1>4, <1>6, <2>1
<1>8. c = Tail(d)
  BY <1>4, <1>6, <1>7, SeqEqual
<1>9. Head(d) = Decode(Head(s))
  BY <1>1, <1>2, <1>3, <1>6
<1> QED
  BY <1>5, <1>8, <1>9 DEF c, d, t

\* The greeting, put behind what is on the channel, changes nothing.
LEMMA GreetingIsIdle ==
    ASSUME NEW s \in Seq(ControlBytes), NEW a, NEW b, Reaches(a, Decoded(s), b)
    PROVE  Reaches(a, Decoded(s \o EncodeAll(Greeting)), b)
<1> DEFINE n == Len(s)
<1> DEFINE g == EncodeAll(Greeting)
<1> DEFINE k == Len(g)
<1> DEFINE t == s \o g
<1>1. g \in Seq(ControlBytes) /\ n \in Nat /\ k \in Nat
  BY GreetingEncoded
<1>2. /\ t \in Seq(ControlBytes) /\ Len(t) = n + k
      /\ \A i \in 1 .. n : t[i] = s[i]
      /\ \A i \in n + 1 .. n + k : t[i] = g[i - n]
  BY <1>1, ConcatProperties
<1>3. \A i \in 1 .. k : /\ g[i] = Encode(Greeting[i]) /\ Greeting[i] \in Sent
                       /\ Greeting[i].type \in {"hello", "set_bitrate"}
  <2>1. DOMAIN Greeting = 1 .. k
    BY <1>1, GreetingEncoded
  <2>2. HelloMessage(Version).type = "hello" /\ BitrateMessage(StartBitrate).type = "set_bitrate"
    BY DEF HelloMessage, BitrateMessage
  <2>3. \A i \in DOMAIN Greeting : Greeting[i].type \in {"hello", "set_bitrate"}
    BY <2>2, GreetingParts
  <2> QED
    BY <2>1, <2>3, GreetingEncoded
<1>4. Len(Decoded(s)) = n /\ \A i \in 1 .. n : Decoded(s)[i] = Decode(s[i])
  BY DecodedType
<1>5. Len(Decoded(t)) = n + k /\ \A i \in 1 .. n + k : Decoded(t)[i] = Decode(t[i])
  BY <1>2, DecodedType
<1> HIDE DEF n, g, k, t
<1>6. \A i \in 1 .. n : Decoded(t)[i] = Decoded(s)[i]
  BY <1>1, <1>2, <1>4, <1>5
<1>7. ASSUME NEW i \in n + 1 .. n + k PROVE Effect(Decoded(t)[i], b) = b
  <2>1. i \in 1 .. n + k /\ i - n \in 1 .. k
    BY <1>1
  <2>2. Decoded(t)[i] = Greeting[i - n] /\ Greeting[i - n].type \in {"hello", "set_bitrate"}
    BY <1>2, <1>3, <1>5, <2>1, SentArrives
  <2> QED
    BY <2>2, EffectOf
<1>8. Reaches(a, Decoded(t), b)
  BY <1>1, <1>4, <1>5, <1>6, <1>7, ReachesPadded
<1> QED
  BY <1>8 DEF t, g

(***************************************************************************)
(* The devices' books.                                                     *)
(***************************************************************************)
\* What is down is what the sink thinks, or its release failed.
DownAccounted == held \subseteq Sink \cup stuck /\ (~missed => held = Sink)

\* What a control message does to the sets of pressed inputs and to the wheel.
SinkStep(m) ==
    \/ \E i \in Inputs, p \in BOOLEAN :
          /\ Sink' = Toggle(Sink, i, p) /\ Emit(i, p) /\ UNCHANGED wheel
          /\ \A s \in States : Effect(m, s) = [s EXCEPT !.down = Toggle(s.down, i, p)]
    \/ /\ SinkWheel(m.vertical) /\ UNCHANGED <<Sink, held, stuck>>
       /\ \A s \in States : Effect(m, s) = [s EXCEPT !.wheel = s.wheel + m.vertical]
    \/ /\ SinkReleaseAll /\ UNCHANGED wheel
       /\ \A s \in States : Effect(m, s) = [s EXCEPT !.down = {}]
    \/ /\ UNCHANGED <<Sink, held, stuck, wheel, failures>>
       /\ \A s \in States : Effect(m, s) = s

LEMMA SinkSteps ==
    ASSUME Typed, HandleControl PROVE SinkStep(Decode(Head(control)))
<1> DEFINE m == Decode(Head(control))
<1>1. \/ m.type = "key" /\ m.code \in Keys /\ m.pressed \in BOOLEAN
            /\ Key(m.code, m.pressed) /\ UNCHANGED wheel
      \/ m.type = "button" /\ m.button \in Buttons /\ m.pressed \in BOOLEAN
            /\ Button(m.button, m.pressed) /\ UNCHANGED wheel
      \/ m.type = "wheel" /\ m.vertical \in Int
            /\ SinkWheel(m.vertical) /\ UNCHANGED <<sink_keys, sink_buttons, held, stuck>>
      \/ m = ReleaseAll /\ m.type = "release_all" /\ SinkReleaseAll /\ UNCHANGED wheel
      \/ m.type \in {"hello", "set_bitrate"}
            /\ UNCHANGED <<sink_keys, sink_buttons, held, stuck, wheel, failures>>
  BY ControlCases
<1>s. SUFFICES SinkStep(m)
  OBVIOUS
<1> HIDE DEF m
<1>2. sink_keys \subseteq Keys /\ sink_buttons \subseteq Buttons /\ Keys \cap Buttons = {}
  BY InputsAssumption DEF Typed, DeviceTyped
<1>3. CASE m.type = "key" /\ m.code \in Keys /\ m.pressed \in BOOLEAN
            /\ Key(m.code, m.pressed) /\ UNCHANGED wheel
  <2>1. CASE Mapped(m.code)
    <3>1. Sink' = Toggle(Sink, m.code, m.pressed) /\ Emit(m.code, m.pressed)
      BY <1>2, <1>3, <2>1 DEF Key, Sink, Toggle
    <3>2. \A s \in States : Effect(m, s) = [s EXCEPT !.down = Toggle(s.down, m.code, m.pressed)]
      BY <1>3, <2>1, EffectOf
    <3>3. m.code \in Inputs
      BY <1>3 DEF Inputs
    <3> QED
      BY <1>3, <3>1, <3>2, <3>3 DEF SinkStep
  <2>2. CASE ~Mapped(m.code)
    <3>1. UNCHANGED <<Sink, held, stuck, wheel, failures>>
      BY <1>3, <2>2 DEF Key, Sink
    <3>2. \A s \in States : Effect(m, s) = s
      BY <1>3, <2>2, EffectOf
    <3> QED
      BY <3>1, <3>2 DEF SinkStep
  <2> QED
    BY <2>1, <2>2
<1>4. CASE m.type = "button" /\ m.button \in Buttons /\ m.pressed \in BOOLEAN
            /\ Button(m.button, m.pressed) /\ UNCHANGED wheel
  <2>1. Sink' = Toggle(Sink, m.button, m.pressed) /\ Emit(m.button, m.pressed)
    BY <1>2, <1>4 DEF Button, Sink, Toggle
  <2>2. \A s \in States : Effect(m, s) = [s EXCEPT !.down = Toggle(s.down, m.button, m.pressed)]
    BY <1>4, EffectOf
  <2>3. m.button \in Inputs
    BY <1>4 DEF Inputs
  <2> QED
    BY <1>4, <2>1, <2>2, <2>3 DEF SinkStep
<1>5. CASE m.type = "wheel" /\ m.vertical \in Int
            /\ SinkWheel(m.vertical) /\ UNCHANGED <<sink_keys, sink_buttons, held, stuck>>
  <2>1. \A s \in States : Effect(m, s) = [s EXCEPT !.wheel = s.wheel + m.vertical]
    BY <1>5, EffectOf
  <2>2. UNCHANGED <<Sink, held, stuck>>
    BY <1>5 DEF Sink
  <2> QED
    BY <1>5, <2>1, <2>2 DEF SinkStep
<1>6. CASE m = ReleaseAll /\ m.type = "release_all" /\ SinkReleaseAll /\ UNCHANGED wheel
  <2>1. \A s \in States : Effect(m, s) = [s EXCEPT !.down = {}]
    BY <1>6, EffectOf
  <2> QED
    BY <1>6, <2>1 DEF SinkStep
<1>7. CASE m.type \in {"hello", "set_bitrate"}
            /\ UNCHANGED <<sink_keys, sink_buttons, held, stuck, wheel, failures>>
  <2>1. \A s \in States : Effect(m, s) = s
    BY <1>7, EffectOf
  <2>2. UNCHANGED <<Sink, held, stuck, wheel, failures>>
    BY <1>7 DEF Sink
  <2> QED
    BY <2>1, <2>2 DEF SinkStep
<1> QED
  BY <1>1, <1>3, <1>4, <1>5, <1>6, <1>7

LEMMA FailureCounted == ASSUME Typed, NEW op, Fails(op) PROVE failures' # failures
  BY DEF Typed, BoundsTyped, Fails

\* What failed to be released is stuck.
LEMMA EmitDown ==
    ASSUME Typed, DownAccounted, NEW i, NEW p \in BOOLEAN, Emit(i, p), Sink' = Toggle(Sink, i, p)
    PROVE  held' \subseteq Sink' \cup stuck' /\ (UNCHANGED failures /\ ~missed => held' = Sink')
<1>1. CASE held' = Toggle(held, i, p) /\ stuck' = stuck \ {i} /\ UNCHANGED failures
  BY <1>1 DEF DownAccounted, Toggle
<1>2. CASE /\ failures' # failures /\ UNCHANGED held
           /\ stuck' = IF p THEN stuck ELSE stuck \cup (held \cap {i})
  BY <1>2 DEF DownAccounted, Toggle
<1> QED
  BY <1>1, <1>2, FailureCounted DEF Emit

LEMMA ReleaseDown ==
    ASSUME Typed, DownAccounted, SinkReleaseAll
    PROVE  Sink' = {} /\ held' \subseteq stuck' /\ (UNCHANGED failures /\ ~missed => held' = {})
<1> DEFINE down == Sink
<1>1. PICK lost \in {{}, down, sink_buttons} :
         /\ held' = held \ (down \ lost)
         /\ stuck' = (stuck \ down) \cup (held \cap lost)
         /\ lost = {} \/ failures' # failures
  BY FailureCounted DEF SinkReleaseAll, Sink
<1>2. Sink' = {}
  BY DEF SinkReleaseAll, Sink
<1>3. held \subseteq down \cup stuck /\ (~missed => held = down)
  BY DEF DownAccounted
<1> HIDE DEF down
<1>4. held' \subseteq stuck'
  BY <1>1, <1>3
<1>5. ASSUME UNCHANGED failures, ~missed PROVE held' = {}
  BY <1>1, <1>3, <1>5
<1> QED
  BY <1>2, <1>4, <1>5

\* The steps that leave the devices alone.
LEMMA DevicesAlone ==
    ASSUME Typed, WindowNext \/ CloseRequested \/ ViewNext \/ NetNext \/ ChannelOpens \/ NetFails
                  \/ MouseTick \/ HandleMouse \/ UNCHANGED vars
    PROVE  UNCHANGED <<sink_keys, sink_buttons, held, stuck, wheel>> /\ (missed => missed')
<1>0. UNCHANGED <<afterApp>> => UNCHANGED <<sink_keys, sink_buttons, held, stuck, wheel>>
  BY DEF afterApp, devVars
<1>1. CASE WindowNext
  <2>1. ASSUME NEW k \in Keys, NEW p \in BOOLEAN, KeyboardInput(k, p) PROVE UNCHANGED <<afterApp, missed>>
    BY <2>1 DEF KeyboardInput
  <2>2. ASSUME NEW b \in Buttons, NEW p \in BOOLEAN, MouseInput(b, p) PROVE UNCHANGED <<afterApp, missed>>
    BY <2>2 DEF MouseInput
  <2>3. ASSUME NEW p \in Points, CursorMoved(p) PROVE UNCHANGED <<afterApp, missed>>
    BY <2>3 DEF CursorMoved
  <2>4. ASSUME NEW d \in Deltas, MouseWheel(d) PROVE UNCHANGED <<afterApp>> /\ (missed => missed')
    BY <2>4 DEF MouseWheel
  <2>5. ASSUME NEW f \in BOOLEAN, Focused(f) PROVE UNCHANGED <<afterApp, missed>>
    BY <2>5 DEF Focused
  <2> QED
    BY <1>0, <1>1, <2>1, <2>2, <2>3, <2>4, <2>5 DEF WindowNext
<1>2. CASE CloseRequested
  BY <1>0, <1>2 DEF CloseRequested
<1>3. CASE ViewNext
  BY <1>3 DEF ViewNext, Resize, SetMode, Resized, DecodePicture, Publish, Redraw, viewRest, devVars
<1>4. CASE NetNext
  BY <1>4 DEF NetNext, Greet, NetControl, NetMouse, NetQuit, SendControl, netRest, devVars
<1>5. CASE ChannelOpens \/ NetFails \/ MouseTick
  BY <1>5 DEF ChannelOpens, NetFails, MouseTick, netRest, devVars
<1>6. CASE HandleMouse
  BY <1>6 DEF HandleMouse
<1>7. CASE UNCHANGED vars
  BY <1>7 DEF vars, devVars
<1> QED
  BY <1>1, <1>2, <1>3, <1>4, <1>5, <1>6, <1>7

LEMMA DownStep == ASSUME Typed, DownAccounted, [Next]_vars PROVE DownAccounted'
<1>1. CASE WindowNext \/ CloseRequested \/ ViewNext \/ NetNext \/ ChannelOpens \/ NetFails
           \/ MouseTick \/ HandleMouse \/ UNCHANGED vars
  BY <1>1, DevicesAlone DEF DownAccounted, Sink
<1>2. CASE HandleControl
  <2> DEFINE m == Decode(Head(control))
  <2>1. SinkStep(m) /\ missed' = (missed \/ failures' # failures)
    BY <1>2, SinkSteps, ControlCases
  <2> HIDE DEF m
  <2>2. ASSUME NEW i \in Inputs, NEW p \in BOOLEAN, Sink' = Toggle(Sink, i, p), Emit(i, p)
        PROVE  DownAccounted'
    BY <2>1, <2>2, EmitDown DEF DownAccounted
  <2>3. CASE SinkReleaseAll
    BY <2>1, <2>3, ReleaseDown DEF DownAccounted
  <2>4. CASE UNCHANGED <<Sink, held, stuck>>
    BY <2>1, <2>4 DEF DownAccounted
  <2> QED
    BY <2>1, <2>2, <2>3, <2>4 DEF SinkStep
<1>3. CASE SessionEnds
  BY <1>3, ReleaseDown DEF SessionEnds, DownAccounted
<1> QED
  BY <1>1, <1>2, <1>3 DEF Next

\* Before the channel opens nothing has arrived; after the end nothing is left.
ChannelEnds ==
    /\ channel = "connecting" => control = <<>> /\ Sink = {}
    /\ channel = "closed" => missed /\ ~net /\ control = <<>> /\ held \subseteq stuck

LEMMA ChannelStep == ASSUME Typed, DownAccounted, ChannelEnds, [Next]_vars PROVE ChannelEnds'
<1>1. CASE WindowNext \/ CloseRequested \/ ViewNext \/ MouseTick \/ HandleMouse \/ UNCHANGED vars
  <2>1. UNCHANGED <<control, net, channel>>
    <3>1. CASE WindowNext
      BY <3>1 DEF WindowNext, KeyboardInput, MouseInput, CursorMoved, MouseWheel, Focused, afterApp, netVars
    <3>2. CASE CloseRequested
      BY <3>2 DEF CloseRequested, afterApp, netVars
    <3>3. CASE ViewNext
      BY <3>3 DEF ViewNext, Resize, SetMode, Resized, DecodePicture, Publish, Redraw, viewRest, netVars
    <3>4. CASE MouseTick \/ HandleMouse
      BY <3>4 DEF MouseTick, HandleMouse, serverRest, netVars
    <3>5. CASE UNCHANGED vars
      BY <3>5 DEF vars, netVars
    <3> QED
      BY <1>1, <3>1, <3>2, <3>3, <3>4, <3>5
  <2>2. UNCHANGED <<Sink, held, stuck>> /\ (missed => missed')
    BY <1>1, DevicesAlone DEF Sink
  <2> QED
    BY <2>1, <2>2 DEF ChannelEnds
<1>2. CASE ChannelOpens \/ Greet
  BY <1>2 DEF ChannelOpens, Greet, ChannelEnds, netRest, devVars
<1>3. CASE NetControl \/ NetMouse \/ NetQuit \/ NetFails
  <2>1. UNCHANGED <<Sink, held, stuck>> /\ (missed => missed')
    BY <1>3, DevicesAlone DEF Sink, NetNext
  <2>2. UNCHANGED channel /\ net /\ (channel = "connecting" => UNCHANGED control)
    BY <1>3 DEF NetControl, NetMouse, NetQuit, NetFails, SendControl, netVars
  <2> QED
    BY <2>1, <2>2 DEF ChannelEnds
<1>4. CASE HandleControl
  BY <1>4, ControlCases DEF ChannelEnds, serverRest, netVars
<1>5. CASE SessionEnds
  BY <1>5, ReleaseDown DEF SessionEnds, ChannelEnds
<1> QED
  BY <1>1, <1>2, <1>3, <1>4, <1>5 DEF Next, NetNext

(***************************************************************************)
(* The chain.                                                              *)
(***************************************************************************)
ServerSide(s) == s \in States /\ Sink \subseteq s.down /\ (~missed => s.down = Sink /\ s.wheel = wheel)
ClientSide(s) ==
    /\ s \in States /\ s.down = {i \in PressedNow : Mapped(i)}
    /\ ~missed => turned = s.wheel * Notch + wheel_acc

Chain ==
    net \/ ~missed =>
        \E first, mid, last \in States :
            /\ ServerSide(first) /\ Reaches(first, Decoded(control), mid)
            /\ Reaches(mid, ui, last) /\ ClientSide(last)

\* Quit is the last command, and a network thread that stops with nothing lost
\* has taken it.
QuitIsLast ==
    /\ \A i \in 1 .. Len(ui) : ui[i] = Quit => i = Len(ui) /\ ~app
    /\ ~net /\ ~missed => ui = <<>> /\ ~app

LEMMA ToggleMapped ==
    ASSUME NEW P, NEW i, NEW p \in BOOLEAN
    PROVE  /\ Mapped(i) => {j \in Toggle(P, i, p) : Mapped(j)} = Toggle({j \in P : Mapped(j)}, i, p)
           /\ ~Mapped(i) => {j \in Toggle(P, i, p) : Mapped(j)} = {j \in P : Mapped(j)}
  BY DEF Toggle

\* Every command of the window changes what the server will have by what the
\* window's own books change.
LEMMA InputQueued ==
    ASSUME Typed, NEW c \in Commands, NEW i, NEW p \in BOOLEAN,
           \/ c = KeyMessage(i, p) /\ i \in Keys /\ pressed_keys' = Toggle(pressed_keys, i, p)
                 /\ UNCHANGED pressed_buttons
           \/ c = ButtonMessage(i, p) /\ i \in Buttons /\ pressed_buttons' = Toggle(pressed_buttons, i, p)
                 /\ UNCHANGED pressed_keys,
           UNCHANGED <<turned, wheel_acc, missed>>,
           NEW s, ClientSide(s), NEW t, t = Effect(c, s)
    PROVE  ClientSide(t)'
<1>1. PressedNow' = Toggle(PressedNow, i, p)
  BY InputsAssumption DEF PressedNow, Toggle, Typed, AppTyped
<1>2. s \in States /\ t \in States
  BY EffectType DEF ClientSide
<1>3. CASE Mapped(i)
  <2>1. t = [s EXCEPT !.down = Toggle(s.down, i, p)]
    <3>1. CASE c = KeyMessage(i, p)
      BY <1>3, <3>1, EffectOf DEF KeyMessage
    <3>2. CASE c = ButtonMessage(i, p)
      BY <3>2, EffectOf DEF ButtonMessage
    <3> QED
      BY <3>1, <3>2
  <2>2. t.down = Toggle(s.down, i, p) /\ t.wheel = s.wheel
    BY <1>2, <2>1 DEF States
  <2> QED
    BY <1>1, <1>2, <1>3, <2>2, ToggleMapped DEF ClientSide
<1>4. CASE ~Mapped(i)
  <2>1. c = KeyMessage(i, p)
    BY <1>4, InputsAssumption DEF Mapped
  <2>2. t = s
    BY <1>4, <2>1, EffectOf DEF KeyMessage
  <2> QED
    BY <1>1, <1>2, <1>4, <2>2, ToggleMapped DEF ClientSide
<1> QED
  BY <1>3, <1>4

LEMMA ReleaseEffect ==
    ASSUME Typed, pressed_keys' = {}, pressed_buttons' = {}, UNCHANGED <<turned, wheel_acc, missed>>,
           NEW s, ClientSide(s)
    PROVE  /\ ClientSide(Effect(ReleaseAll, s))'
           /\ ClientSide(Effect(Quit, Effect(ReleaseAll, s)))'
           /\ Effect(ReleaseAll, s) \in States
<1> DEFINE t == Effect(ReleaseAll, s)
<1> DEFINE u == Effect(Quit, t)
<1>1. s \in States /\ ReleaseAll \in Commands /\ Quit \in Commands
  BY DEF ClientSide, Commands, Messages
<1>2. t \in States
  BY <1>1, EffectType
<1>3. u \in States
  BY <1>1, <1>2, EffectType
<1>4. t = [s EXCEPT !.down = {}]
  BY EffectOf DEF ReleaseAll
<1>5. u = [t EXCEPT !.down = {}]
  BY EffectOf DEF Quit
<1>6. t.down = {} /\ t.wheel = s.wheel /\ u.down = {} /\ u.wheel = s.wheel
  BY <1>1, <1>4, <1>5 DEF States
<1>7. PressedNow' = {}
  BY DEF PressedNow
<1> HIDE DEF t, u
<1>8. ClientSide(t)' /\ ClientSide(u)'
  BY <1>2, <1>3, <1>6, <1>7 DEF ClientSide
<1> QED
  BY <1>2, <1>8 DEF t, u

LEMMA WheelEffect ==
    ASSUME Typed, NEW d \in Deltas, MouseWheel(d), NEW s, ClientSide(s)
    PROVE  \/ UNCHANGED ui /\ ClientSide(s)'
           \/ \E c \in Commands \ {Quit} : ui' = Append(ui, c) /\ Effect(c, s) \in States /\ ClientSide(Effect(c, s))'
<1>1. turned \in Int /\ wheel_acc \in Int /\ d \in Int /\ Notch \in Int
  BY WheelAssumption DEF Typed, UserTyped, AppTyped
<1>2. PICK acc \in Int : acc = wheel_acc + d
  BY <1>1
<1>3. PICK v \in Int : v = Trunc(acc)
  BY <1>2, WheelParts
<1>4. PICK r \in Int : r = Carry(acc)
  BY <1>1, <1>2, WheelParts
<1>5. PICK k \in Int : k = v * Notch
  BY <1>1, <1>3
<1>6. acc = k + r
  BY <1>2, <1>3, <1>4, <1>5, WheelParts
<1>7. PICK w \in Int : w = Clamp(v) /\ w \in -WheelMax .. WheelMax
  BY <1>3, ClampType, WheelAssumption
<1>8. PICK c : c = WheelMessage(0, w)
  OBVIOUS
<1>9. /\ turned' = turned + d /\ wheel_acc' = r
      /\ ui' = IF v # 0 THEN Append(ui, c) ELSE ui
      /\ missed' = (missed \/ w # v)
      /\ UNCHANGED <<pressed_keys, pressed_buttons>>
  BY <1>2, <1>3, <1>4, <1>7, <1>8 DEF MouseWheel
<1>10. UNCHANGED PressedNow
  BY <1>9 DEF PressedNow
<1>11. s \in States /\ s.wheel \in Int /\ s.down = {i \in PressedNow : Mapped(i)}
  BY DEF ClientSide, States
<1>12. PICK n \in Int : n = s.wheel * Notch
  BY <1>1, <1>11
<1>13. ~missed => turned = n + wheel_acc
  BY <1>12 DEF ClientSide
<1>14. ~missed => turned' = (n + k) + wheel_acc'
  BY <1>1, <1>2, <1>6, <1>9, <1>13
<1>15. CASE v = 0
  <2>1. k = 0
    BY <1>1, <1>5, <1>15
  <2>2. n + k = n
    BY <2>1
  <2>3. ~missed' => turned' = s.wheel * Notch + wheel_acc'
    BY <1>9, <1>12, <1>14, <2>2
  <2> QED
    BY <1>9, <1>10, <1>11, <1>15, <2>3 DEF ClientSide
<1>16. CASE v # 0
  <2>1. c \in Commands /\ c # Quit /\ c.type = "wheel" /\ c.vertical = w
    BY <1>7, <1>8 DEF Commands, Messages, WheelMessage, Quit
  <2>2. PICK t : t = Effect(c, s)
    OBVIOUS
  <2>3. t = [s EXCEPT !.wheel = s.wheel + w] /\ t \in States
    BY <1>11, <2>1, <2>2, EffectOf, EffectType
  <2>4. t.down = s.down /\ t.wheel = s.wheel + w
    BY <1>11, <2>3 DEF States
  <2>5. ASSUME ~missed' PROVE turned' = t.wheel * Notch + wheel_acc'
    <3>1. w = v /\ ~missed
      BY <1>9, <2>5
    <3>2. (s.wheel + v) * Notch = s.wheel * Notch + v * Notch
      BY <1>1, <1>3, <1>11, Z3
    <3>3. t.wheel * Notch = n + k
      BY <1>5, <1>12, <2>4, <3>1, <3>2
    <3> QED
      BY <1>14, <3>1, <3>3
  <2>6. ClientSide(t)'
    BY <1>10, <1>11, <2>3, <2>4, <2>5 DEF ClientSide
  <2> QED
    BY <1>9, <1>16, <2>1, <2>2, <2>3, <2>6
<1> QED
  BY <1>15, <1>16

\* What a window event does to the queue, for a state of the client's books.
Queues(s) ==
    \/ UNCHANGED <<ui, app>> /\ ClientSide(s)'
    \/ /\ UNCHANGED app
       /\ \E c \in Commands \ {Quit} : ui' = Append(ui, c) /\ Effect(c, s) \in States /\ ClientSide(Effect(c, s))'
    \/ /\ ~app' /\ ui' = Append(Append(ui, ReleaseAll), Quit) /\ Effect(ReleaseAll, s) \in States
       /\ ClientSide(Effect(Quit, Effect(ReleaseAll, s)))'

LEMMA WindowQueues ==
    ASSUME Typed, WindowNext \/ CloseRequested, NEW s, ClientSide(s) PROVE Queues(s)
<1>1. s \in States
  BY DEF ClientSide
<1>2. ASSUME NEW k \in Keys, NEW p \in BOOLEAN, KeyboardInput(k, p) PROVE Queues(s)
  <2>1. UNCHANGED <<app, turned, wheel_acc, missed, pressed_buttons>>
    BY <1>2 DEF KeyboardInput
  <2>2. CASE ~focused
    <3>1. UNCHANGED <<pressed_keys, ui>>
      BY <1>2, <2>2 DEF KeyboardInput
    <3> QED
      BY <2>1, <3>1 DEF Queues, ClientSide, PressedNow
  <2>3. CASE focused
    <3>1. PICK c : c = KeyMessage(k, p)
      OBVIOUS
    <3>2. c \in Commands /\ c # Quit
      BY <3>1 DEF Commands, Messages, KeyMessage, Quit
    <3>3. pressed_keys' = Toggle(pressed_keys, k, p) /\ ui' = Append(ui, c)
      BY <1>2, <2>3, <3>1 DEF KeyboardInput
    <3>4. PICK t : t = Effect(c, s)
      OBVIOUS
    <3>5. t \in States /\ ClientSide(t)'
      BY <1>1, <2>1, <3>1, <3>2, <3>3, <3>4, EffectType, InputQueued
    <3> QED
      BY <2>1, <3>2, <3>3, <3>4, <3>5 DEF Queues
  <2> QED
    BY <2>2, <2>3
<1>3. ASSUME NEW b \in Buttons, NEW p \in BOOLEAN, MouseInput(b, p) PROVE Queues(s)
  <2>1. UNCHANGED <<app, turned, wheel_acc, missed, pressed_keys>>
    BY <1>3 DEF MouseInput
  <2>2. CASE UNCHANGED <<pressed_buttons, ui>>
    BY <2>1, <2>2 DEF Queues, ClientSide, PressedNow
  <2>3. CASE /\ pressed_buttons' = Toggle(pressed_buttons, b, p)
             /\ ui' = Append(ui, ButtonMessage(b, p))
    <3>1. PICK c : c = ButtonMessage(b, p)
      OBVIOUS
    <3>2. c \in Commands /\ c # Quit
      BY <3>1 DEF Commands, Messages, ButtonMessage, Quit
    <3>3. pressed_buttons' = Toggle(pressed_buttons, b, p) /\ ui' = Append(ui, c)
      BY <2>3, <3>1
    <3>4. PICK t : t = Effect(c, s)
      OBVIOUS
    <3>5. t \in States /\ ClientSide(t)'
      BY <1>1, <2>1, <3>1, <3>2, <3>3, <3>4, EffectType, InputQueued
    <3> QED
      BY <2>1, <3>2, <3>3, <3>4, <3>5 DEF Queues
  <2> QED
    BY <1>3, <2>2, <2>3 DEF MouseInput
<1>4. ASSUME NEW point \in Points, CursorMoved(point) PROVE Queues(s)
  <2>1. PICK c : c = Move(PositionAt(inner, latest, point))
    OBVIOUS
  <2>2. c \in Commands /\ c # Quit /\ c.type = "mouse"
    BY <2>1, PositionType DEF Commands, Move, Quit, Typed, ViewTyped
  <2>3. Effect(c, s) = s
    BY <2>2, EffectOf
  <2>4. UNCHANGED <<app, turned, wheel_acc, missed, pressed_keys, pressed_buttons>> /\ ui' = Append(ui, c)
    BY <1>4, <2>1 DEF CursorMoved, userVars, appVars
  <2>5. ClientSide(s)'
    BY <2>4 DEF ClientSide, PressedNow
  <2> QED
    BY <1>1, <2>2, <2>3, <2>4, <2>5 DEF Queues
<1>5. ASSUME NEW d \in Deltas, MouseWheel(d) PROVE Queues(s)
  <2>1. UNCHANGED app
    BY <1>5 DEF MouseWheel
  <2> QED
    BY <1>5, <2>1, WheelEffect DEF Queues
<1>6. ASSUME NEW f \in BOOLEAN, Focused(f) PROVE Queues(s)
  <2>1. UNCHANGED <<app, turned, wheel_acc, missed>>
    BY <1>6 DEF Focused, userVars
  <2>2. CASE f
    <3>1. UNCHANGED <<pressed_keys, pressed_buttons, ui>>
      BY <1>6, <2>2 DEF Focused
    <3> QED
      BY <2>1, <3>1 DEF Queues, ClientSide, PressedNow
  <2>3. CASE ~f
    <3>1. Release(<<>>)
      BY <1>6, <2>3 DEF Focused
    <3>2. pressed_keys' = {} /\ pressed_buttons' = {} /\ ui' = Append(ui, ReleaseAll)
      BY <3>1, ReleaseQueued DEF Release
    <3>3. ReleaseAll \in Commands \ {Quit}
      BY DEF Commands, Messages, ReleaseAll, Quit
    <3>4. ClientSide(Effect(ReleaseAll, s))' /\ Effect(ReleaseAll, s) \in States
      BY <2>1, <3>2, ReleaseEffect
    <3> QED
      BY <2>1, <3>2, <3>3, <3>4 DEF Queues
  <2> QED
    BY <2>2, <2>3
<1>7. CASE CloseRequested
  <2>1. /\ UNCHANGED <<turned, wheel_acc, missed>> /\ ~app' /\ Release(<<Quit>>)
    BY <1>7 DEF CloseRequested, userVars
  <2>2. pressed_keys' = {} /\ pressed_buttons' = {} /\ ui' = Append(Append(ui, ReleaseAll), Quit)
    BY <2>1, ReleaseQueued DEF Release
  <2>3. /\ ClientSide(Effect(Quit, Effect(ReleaseAll, s)))'
        /\ Effect(ReleaseAll, s) \in States
    BY <2>1, <2>2, ReleaseEffect
  <2> QED
    BY <2>1, <2>2, <2>3 DEF Queues
<1> QED
  BY <1>2, <1>3, <1>4, <1>5, <1>6, <1>7 DEF WindowNext

\* What window events leave to the other actors.
LEMMA WindowLeaves ==
    ASSUME Typed, WindowNext \/ CloseRequested
    PROVE  app /\ UNCHANGED <<net, channel, control>>
<1>0. UNCHANGED <<afterApp>> => UNCHANGED <<net, channel, control>>
  BY DEF afterApp, netVars
<1>1. CASE WindowNext
  BY <1>0, <1>1 DEF WindowNext, KeyboardInput, MouseInput, CursorMoved, MouseWheel, Focused, Event
<1>2. CASE CloseRequested
  BY <1>0, <1>2 DEF CloseRequested
<1> QED
  BY <1>1, <1>2

\* Steps of the view, of the mouse channel and of nobody.
LEMMA ChainAlone ==
    ASSUME Typed, ViewNext \/ MouseTick \/ HandleMouse \/ ChannelOpens \/ UNCHANGED vars
    PROVE  UNCHANGED <<turned, wheel_acc, pressed_keys, pressed_buttons, ui, app, net, control,
                       sink_keys, sink_buttons, wheel, missed>>
<1>1. CASE ViewNext
  BY <1>1 DEF ViewNext, Resize, SetMode, Resized, DecodePicture, Publish, Redraw, viewRest,
              userVars, appVars, netVars, devVars
<1>2. CASE MouseTick \/ ChannelOpens
  BY <1>2 DEF MouseTick, ChannelOpens, netRest, userVars, appVars, devVars
<1>3. CASE HandleMouse
  BY <1>3 DEF HandleMouse, serverRest, userVars, appVars, netVars
<1>4. CASE UNCHANGED vars
  BY <1>4 DEF vars, userVars, appVars, netVars, devVars
<1> QED
  BY <1>1, <1>2, <1>3, <1>4

LEMMA SomeClientSide == ASSUME Typed, Chain PROVE \E s : ClientSide(s)
<1>1. CASE missed
  <2>1. PICK s : s = [down |-> {i \in PressedNow : Mapped(i)}, wheel |-> 0]
    OBVIOUS
  <2>2. PressedNow \subseteq Inputs
    BY DEF PressedNow, Inputs, Typed, AppTyped
  <2>3. s \in States /\ s.down = {i \in PressedNow : Mapped(i)}
    BY <2>1, <2>2 DEF States
  <2> QED
    BY <1>1, <2>3 DEF ClientSide
<1>2. CASE ~missed
  BY <1>2 DEF Chain
<1> QED
  BY <1>1, <1>2

LEMMA QuitStep == ASSUME Typed, QuitIsLast, Chain, [Next]_vars PROVE QuitIsLast'
<1>0. ui \in Seq(Commands) /\ Len(ui) \in Nat /\ (ui = <<>> <=> Len(ui) = 0)
  BY EmptySeq DEF Typed, QueueTyped
<1>1. CASE WindowNext \/ CloseRequested
  <2>1. app /\ UNCHANGED net /\ (missed => missed')
    BY <1>1, WindowLeaves, DevicesAlone
  <2>2. \A i \in 1 .. Len(ui) : ui[i] # Quit
    BY <2>1 DEF QuitIsLast
  <2>3. ~(~net' /\ ~missed')
    BY <2>1 DEF QuitIsLast
  <2>4. CASE UNCHANGED <<ui, app>>
    BY <2>2, <2>3, <2>4 DEF QuitIsLast
  <2>5. ASSUME NEW c \in Commands \ {Quit}, ui' = Append(ui, c) PROVE QuitIsLast'
    <3>1. \A i \in 1 .. Len(ui') : ui'[i] # Quit
      BY <1>0, <2>2, <2>5
    <3> QED
      BY <2>3, <3>1 DEF QuitIsLast
  <2>6. CASE ~app' /\ ui' = Append(Append(ui, ReleaseAll), Quit)
    <3> DEFINE r == ReleaseAll
    <3> DEFINE q == Quit
    <3>1. r # q /\ r \in Commands /\ q \in Commands
      BY DEF ReleaseAll, Quit, Commands, Messages
    <3>2. ui' = Append(Append(ui, r), q) /\ \A i \in 1 .. Len(ui) : ui[i] # q
      BY <2>2, <2>6
    <3> HIDE DEF r, q
    <3>3. /\ Append(ui, r) \in Seq(Commands) /\ Len(Append(ui, r)) = Len(ui) + 1
          /\ \A i \in 1 .. Len(ui) + 1 : Append(ui, r)[i] # q
      BY <1>0, <3>1, <3>2
    <3>4. \A i \in 1 .. Len(ui') : ui'[i] = q => i = Len(ui')
      BY <1>0, <3>1, <3>2, <3>3
    <3>5. \A i \in 1 .. Len(ui') : ui'[i] = Quit => i = Len(ui')
      BY <3>4 DEF q
    <3> QED
      BY <2>3, <2>6, <3>5 DEF QuitIsLast
  <2>7. \/ UNCHANGED <<ui, app>>
        \/ \E c \in Commands \ {Quit} : ui' = Append(ui, c)
        \/ ~app' /\ ui' = Append(Append(ui, ReleaseAll), Quit)
    <3>1. PICK s : ClientSide(s)
      BY SomeClientSide
    <3>2. Queues(s)
      BY <1>1, <3>1, WindowQueues
    <3> QED
      BY <3>2 DEF Queues
  <2> QED
    BY <2>4, <2>5, <2>6, <2>7
<1>2. CASE ViewNext \/ MouseTick \/ HandleMouse \/ ChannelOpens \/ UNCHANGED vars
  BY <1>2, ChainAlone DEF QuitIsLast
<1>3. CASE Greet
  BY <1>3 DEF Greet, netRest, appVars, QuitIsLast
<1>4. CASE NetControl \/ NetMouse
  <2>1. net /\ ui # <<>> /\ ui' = Tail(ui) /\ UNCHANGED <<net, app>>
    BY <1>4 DEF NetControl, NetMouse, netVars, netRest, appVars
  <2>2. Len(Tail(ui)) = Len(ui) - 1 /\ \A i \in 1 .. Len(ui) - 1 : Tail(ui)[i] = ui[i + 1]
    BY <1>0, <2>1, HeadTailProperties
  <2>3. ASSUME NEW i \in 1 .. Len(ui'), ui'[i] = Quit PROVE i = Len(ui') /\ ~app'
    <3>1. i \in 1 .. Len(ui) - 1 /\ i + 1 \in 1 .. Len(ui) /\ Len(ui') = Len(ui) - 1
      BY <1>0, <2>1, <2>2
    <3>2. ui[i + 1] = Quit
      BY <2>1, <2>2, <2>3, <3>1
    <3>3. i + 1 = Len(ui) /\ ~app
      BY <3>1, <3>2 DEF QuitIsLast
    <3>4. ~app'
      BY <2>1, <3>3
    <3>5. i = Len(ui) - 1
      BY <3>1, <3>3
    <3> QED
      BY <3>1, <3>4, <3>5
  <2> QED
    BY <2>1, <2>3 DEF QuitIsLast
<1>5. CASE NetQuit
  <2>1. ui # <<>> /\ ui' = Tail(ui) /\ Head(ui) = Quit /\ UNCHANGED app
    BY <1>5 DEF NetQuit, netRest, appVars
  <2>2. Len(ui) >= 1 /\ Head(ui) = ui[1] /\ Len(Tail(ui)) = Len(ui) - 1 /\ Tail(ui) \in Seq(Commands)
    BY <1>0, <2>1, HeadTailProperties
  <2>3. Len(ui) = 1 /\ ~app
    <3>1. 1 \in 1 .. Len(ui) /\ ui[1] = Quit
      BY <1>0, <2>1, <2>2
    <3>2. 1 = Len(ui) /\ ~app
      BY <3>1 DEF QuitIsLast
    <3> QED
      BY <3>2
  <2>4. Len(ui') = 0 /\ ui' = <<>> /\ ~app'
    BY <2>1, <2>2, <2>3, EmptySeq
  <2> QED
    BY <2>4 DEF QuitIsLast
<1>6. CASE NetFails \/ SessionEnds
  BY <1>6 DEF NetFails, SessionEnds, netRest, appVars, QuitIsLast
<1>7. CASE HandleControl
  <2>1. UNCHANGED <<ui, app, net>> /\ (missed => missed')
    BY <1>7, ControlCases DEF serverRest, appVars, netVars
  <2> QED
    BY <2>1 DEF QuitIsLast
<1> QED
  BY <1>1, <1>2, <1>3, <1>4, <1>5, <1>6, <1>7 DEF Next, NetNext

\* The parts of the chain that a step leaves alone.
LEMMA ServerSideKept ==
    ASSUME UNCHANGED <<sink_keys, sink_buttons, wheel>>, missed => missed', NEW s, ServerSide(s)
    PROVE  ServerSide(s)'
  BY DEF ServerSide, Sink

LEMMA ClientSideKept ==
    ASSUME UNCHANGED <<pressed_keys, pressed_buttons, turned, wheel_acc>>, missed => missed',
           NEW s, ClientSide(s)
    PROVE  ClientSide(s)'
  BY DEF ClientSide, PressedNow

LEMMA ReachedIsState == ASSUME NEW a, NEW s, NEW b, Len(s) \in Nat, Reaches(a, s, b) PROVE a \in States /\ b \in States
  BY DEF Reaches, Leads

\* What the window queues is put at the chain's end.
LEMMA ChainWindow == ASSUME Typed, Chain, WindowNext \/ CloseRequested PROVE Chain'
<1> SUFFICES ASSUME net' \/ ~missed'
             PROVE  \E first, mid, last \in States :
                       /\ ServerSide(first)' /\ Reaches(first, Decoded(control'), mid)
                       /\ Reaches(mid, ui', last) /\ ClientSide(last)'
  BY DEF Chain
<1>1. UNCHANGED <<net, control, sink_keys, sink_buttons, wheel>> /\ (missed => missed')
  BY WindowLeaves, DevicesAlone
<1>2. PICK first \in States, mid \in States, last \in States :
         /\ ServerSide(first) /\ Reaches(first, Decoded(control), mid)
         /\ Reaches(mid, ui, last) /\ ClientSide(last)
  BY <1>1 DEF Chain
<1>3. ServerSide(first)' /\ Reaches(first, Decoded(control'), mid)
  BY <1>1, <1>2, ServerSideKept
<1>4. \E t \in States : Reaches(mid, ui', t) /\ ClientSide(t)'
  <2>1. Queues(last) /\ ui \in Seq(Commands) /\ ReleaseAll \in Commands /\ Quit \in Commands
    BY <1>2, WindowQueues DEF Typed, QueueTyped, Commands, Messages
  <2>2. CASE UNCHANGED ui /\ ClientSide(last)'
    BY <1>2, <2>2
  <2>3. ASSUME NEW c \in Commands, ui' = Append(ui, c), Effect(c, last) \in States, ClientSide(Effect(c, last))'
        PROVE  \E t \in States : Reaches(mid, ui', t) /\ ClientSide(t)'
    BY <1>2, <2>1, <2>3, ReachesAppend
  <2>4. CASE /\ ui' = Append(Append(ui, ReleaseAll), Quit) /\ Effect(ReleaseAll, last) \in States
             /\ ClientSide(Effect(Quit, Effect(ReleaseAll, last)))'
    <3>1. PICK t \in States : t = Effect(ReleaseAll, last)
      BY <2>4
    <3>2. PICK u \in States : u = Effect(Quit, t) /\ ClientSide(u)'
      BY <2>1, <2>4, <3>1, EffectType
    <3>3. Reaches(mid, Append(ui, ReleaseAll), t)
      BY <1>2, <2>1, <3>1, ReachesAppend
    <3>4. Append(ui, ReleaseAll) \in Seq(Commands)
      BY <2>1
    <3>5. Reaches(mid, Append(Append(ui, ReleaseAll), Quit), u)
      BY <2>1, <3>2, <3>3, <3>4, ReachesAppend
    <3> QED
      BY <2>4, <3>2, <3>5
  <2> QED
    BY <2>1, <2>2, <2>3, <2>4 DEF Queues
<1> QED
  BY <1>3, <1>4

\* What control.send puts on the channel, for the head of the queue or for the
\* ReleaseAll that Quit stands for: the link moves over it, unless the channel
\* is not open yet and the message is dropped.
LEMMA ChainSend ==
    ASSUME Typed, Chain, ChannelEnds, net, ui # <<>>, ui' = Tail(ui),
           NEW m \in Messages, SendControl(m), \A s \in States : Effect(Head(ui), s) = Effect(m, s),
           UNCHANGED <<turned, wheel_acc, pressed_keys, pressed_buttons, sink_keys, sink_buttons, wheel>>
    PROVE  Chain'
<1>0. ui \in Seq(Commands) /\ control \in Seq(ControlBytes) /\ m \in Sent
  BY DEF Typed, QueueTyped, FlightTyped, Sent
<1>1. missed => missed'
  BY DEF SendControl
<1>2. PICK first \in States, mid \in States, last \in States :
         /\ ServerSide(first) /\ Reaches(first, Decoded(control), mid)
         /\ Reaches(mid, ui, last) /\ ClientSide(last)
  BY DEF Chain
<1>3. ClientSide(last)'
  BY <1>1, <1>2, ClientSideKept
<1>4. PICK t : t = Effect(m, mid)
  OBVIOUS
<1>5. t \in States /\ Reaches(t, Tail(ui), last)
  BY <1>0, <1>2, <1>4, ReachesTail
<1>6. CASE channel = "connecting"
  <2>1. missed' /\ UNCHANGED control /\ control = <<>> /\ Sink = {}
    BY <1>6 DEF SendControl, ChannelEnds
  <2>2. Sink' = {}
    BY <2>1 DEF Sink
  <2>3. ServerSide(t)'
    BY <1>5, <2>1, <2>2 DEF ServerSide
  <2>4. Decoded(control') = <<>>
    BY <2>1, DecodedType, EmptySeq, <1>0
  <2>5. Reaches(t, Decoded(control'), t)
    BY <1>5, <2>4, ReachesEmpty
  <2> QED
    BY <1>3, <1>5, <2>3, <2>5 DEF Chain
<1>7. CASE channel # "connecting"
  <2>1. control' = Append(control, Encode(m))
    BY <1>7 DEF SendControl
  <2>2. Decoded(control') = Append(Decoded(control), m) /\ Decoded(control) \in Seq(Sent)
    BY <1>0, <2>1, DecodedAppend, DecodedType
  <2>3. Reaches(first, Decoded(control'), t)
    BY <1>0, <1>2, <1>4, <1>5, <2>2, ReachesAppend
  <2>4. ServerSide(first)'
    BY <1>1, <1>2, ServerSideKept
  <2> QED
    BY <1>2, <1>3, <1>5, <2>3, <2>4 DEF Chain
<1> QED
  BY <1>6, <1>7

LEMMA ChainNet == ASSUME Typed, Chain, ChannelEnds, NetNext \/ NetFails PROVE Chain'
<1>0. ui \in Seq(Commands) /\ control \in Seq(ControlBytes)
  BY DEF Typed, QueueTyped, FlightTyped
<1>1. UNCHANGED <<turned, wheel_acc, pressed_keys, pressed_buttons, sink_keys, sink_buttons, wheel>>
  BY DEF NetNext, Greet, NetControl, NetMouse, NetQuit, NetFails, netRest, userVars, appVars, devVars
<1>2. CASE NetControl
  BY <1>1, <1>2, ChainSend DEF NetControl
<1>3. CASE NetQuit
  <2>1. net /\ ui # <<>> /\ Head(ui) = Quit /\ ui' = Tail(ui) /\ SendControl(ReleaseAll)
    BY <1>3 DEF NetQuit
  <2>2. ReleaseAll \in Messages
    BY DEF Messages
  <2>3. ASSUME NEW s \in States PROVE Effect(Quit, s) = Effect(ReleaseAll, s)
    <3>1. Quit.type \in {"release_all", "quit"} /\ ReleaseAll.type \in {"release_all", "quit"}
      BY DEF Quit, ReleaseAll
    <3>2. Effect(Quit, s) = [s EXCEPT !.down = {}]
      BY <3>1, EffectOf
    <3>3. Effect(ReleaseAll, s) = [s EXCEPT !.down = {}]
      BY <3>1, EffectOf
    <3> QED
      BY <3>2, <3>3
  <2> QED
    BY <1>1, <2>1, <2>2, <2>3, ChainSend
<1>4. CASE NetMouse
  <2>1. net /\ ui # <<>> /\ Head(ui).type = "mouse" /\ ui' = Tail(ui) /\ UNCHANGED <<control, missed>>
    BY <1>4 DEF NetMouse
  <2>2. PICK first \in States, mid \in States, last \in States :
           /\ ServerSide(first) /\ Reaches(first, Decoded(control), mid)
           /\ Reaches(mid, ui, last) /\ ClientSide(last)
    BY <2>1 DEF Chain
  <2>3. Effect(Head(ui), mid) = mid
    BY <2>1, EffectOf
  <2>4. Reaches(mid, ui', last)
    BY <1>0, <2>1, <2>2, <2>3, ReachesTail
  <2>5. ServerSide(first)' /\ ClientSide(last)'
    BY <1>1, <2>1, <2>2, ServerSideKept, ClientSideKept
  <2> QED
    BY <2>1, <2>2, <2>4, <2>5 DEF Chain
<1>5. CASE Greet
  <2>1. UNCHANGED <<ui, net, missed>> /\ control' \in {control, control \o EncodeAll(Greeting)}
    BY <1>5 DEF Greet
  <2> SUFFICES ASSUME net \/ ~missed PROVE Chain'
    BY <2>1 DEF Chain
  <2>2. PICK first \in States, mid \in States, last \in States :
           /\ ServerSide(first) /\ Reaches(first, Decoded(control), mid)
           /\ Reaches(mid, ui, last) /\ ClientSide(last)
    BY DEF Chain
  <2>3. Reaches(first, Decoded(control'), mid)
    BY <1>0, <2>1, <2>2, GreetingIsIdle
  <2>4. ServerSide(first)' /\ ClientSide(last)'
    BY <1>1, <2>1, <2>2, ServerSideKept, ClientSideKept
  <2> QED
    BY <2>1, <2>2, <2>3, <2>4 DEF Chain
<1>6. CASE NetFails
  BY <1>6 DEF NetFails, Chain
<1> QED
  BY <1>2, <1>3, <1>4, <1>5, <1>6 DEF NetNext

\* What the server takes off the channel moves the chain's beginning.
LEMMA ChainControl == ASSUME Typed, Chain, HandleControl PROVE Chain'
<1>0. control \in Seq(ControlBytes) /\ control # <<>>
  BY DEF Typed, FlightTyped, HandleControl
<1> DEFINE m == Decode(Head(control))
<1>1. /\ control' = Tail(control) /\ missed' = (missed \/ failures' # failures)
      /\ UNCHANGED <<turned, wheel_acc, pressed_keys, pressed_buttons, ui, net>>
  BY ControlCases DEF serverRest, userVars, appVars, netVars
<1>2. SinkStep(m)
  BY SinkSteps
<1>3. /\ Decoded(control) \in Seq(Sent) /\ Decoded(control) # <<>> /\ Head(Decoded(control)) = m
      /\ Decoded(control') = Tail(Decoded(control))
  BY <1>0, <1>1, DecodedType, DecodedTail
<1> HIDE DEF m
<1> SUFFICES ASSUME net' \/ ~missed' PROVE Chain'
  BY DEF Chain
<1>4. PICK first \in States, mid \in States, last \in States :
         /\ ServerSide(first) /\ Reaches(first, Decoded(control), mid)
         /\ Reaches(mid, ui, last) /\ ClientSide(last)
  BY <1>1 DEF Chain
<1>5. PICK t : t = Effect(m, first)
  OBVIOUS
<1>6. t \in States /\ Reaches(t, Decoded(control'), mid)
  BY <1>3, <1>4, <1>5, ReachesTail
<1>7. ClientSide(last)'
  BY <1>1, <1>4, ClientSideKept
<1>8. /\ first \in States /\ Sink \subseteq first.down
      /\ ~missed => first.down = Sink /\ first.wheel = wheel
  BY <1>4 DEF ServerSide
<1>9. ServerSide(t)'
  <2>1. ASSUME NEW i \in Inputs, NEW p \in BOOLEAN, Sink' = Toggle(Sink, i, p), UNCHANGED wheel,
               \A s \in States : Effect(m, s) = [s EXCEPT !.down = Toggle(s.down, i, p)]
        PROVE  ServerSide(t)'
    <3>1. t.down = Toggle(first.down, i, p) /\ t.wheel = first.wheel
      BY <1>5, <1>8, <2>1 DEF States
    <3>2. Sink' \subseteq t.down
      BY <1>8, <2>1, <3>1 DEF Toggle
    <3>3. ~missed' => t.down = Sink' /\ t.wheel = wheel'
      BY <1>1, <1>8, <2>1, <3>1
    <3> QED
      BY <1>6, <3>2, <3>3 DEF ServerSide
  <2>2. CASE /\ SinkWheel(m.vertical) /\ UNCHANGED <<Sink, held, stuck>>
             /\ \A s \in States : Effect(m, s) = [s EXCEPT !.wheel = s.wheel + m.vertical]
    <3>1. t.down = first.down /\ t.wheel = first.wheel + m.vertical
      BY <1>5, <1>8, <2>2 DEF States
    <3>2. wheel' = wheel + m.vertical \/ failures' # failures
      BY <2>2, FailureCounted DEF SinkWheel
    <3>3. ~missed' => t.down = Sink' /\ t.wheel = wheel'
      BY <1>1, <1>8, <2>2, <3>1, <3>2
    <3> QED
      BY <1>6, <1>8, <2>2, <3>1, <3>3 DEF ServerSide
  <2>3. CASE /\ SinkReleaseAll /\ UNCHANGED wheel
             /\ \A s \in States : Effect(m, s) = [s EXCEPT !.down = {}]
    <3>1. t.down = {} /\ t.wheel = first.wheel
      BY <1>5, <1>8, <2>3 DEF States
    <3>2. Sink' = {}
      BY <2>3 DEF SinkReleaseAll, Sink
    <3> QED
      BY <1>1, <1>6, <1>8, <2>3, <3>1, <3>2 DEF ServerSide
  <2>4. CASE /\ UNCHANGED <<Sink, held, stuck, wheel, failures>>
             /\ \A s \in States : Effect(m, s) = s
    BY <1>1, <1>5, <1>6, <1>8, <2>4 DEF ServerSide
  <2> QED
    BY <1>2, <2>1, <2>2, <2>3, <2>4 DEF SinkStep
<1> QED
  BY <1>1, <1>4, <1>6, <1>7, <1>9 DEF Chain

LEMMA ChainStep == ASSUME Typed, Chain, ChannelEnds, [Next]_vars PROVE Chain'
<1>1. CASE ViewNext \/ MouseTick \/ HandleMouse \/ ChannelOpens \/ UNCHANGED vars
  <2>1. UNCHANGED <<turned, wheel_acc, pressed_keys, pressed_buttons, ui, net, control,
                    sink_keys, sink_buttons, wheel, missed>>
    BY <1>1, ChainAlone
  <2> QED
    BY <2>1 DEF Chain, ServerSide, ClientSide, Sink, PressedNow
<1>2. CASE SessionEnds
  BY <1>2 DEF SessionEnds, Chain
<1> QED
  BY <1>1, <1>2, ChainWindow, ChainNet, ChainControl DEF Next

(***************************************************************************)
(* The theorems about what is pressed and how far the wheel was turned.    *)
(***************************************************************************)
InputInv == Typed /\ DownAccounted /\ ChannelEnds /\ QuitIsLast /\ Chain

LEMMA InitInput == Init => InputInv
<1> SUFFICES ASSUME Init PROVE InputInv
  OBVIOUS
<1>1. Typed
  BY InitTyped
<1>2. Sink = {} /\ held = {} /\ PressedNow = {} /\ ~missed /\ wheel = 0 /\ net /\ app
      /\ turned = 0 /\ wheel_acc = 0 /\ ui = <<>> /\ control = <<>> /\ channel = "connecting"
  BY DEF Init, Sink, PressedNow
<1>3. DownAccounted /\ ChannelEnds
  BY <1>2 DEF DownAccounted, ChannelEnds
<1>4. QuitIsLast
  BY <1>2, EmptySeq DEF QuitIsLast
<1>5. PICK s : s = [down |-> {}, wheel |-> 0]
  OBVIOUS
<1>6. s \in States /\ s.down = {} /\ s.wheel = 0
  BY <1>5 DEF States
<1>7. 0 = 0 * Notch + 0
  BY WheelAssumption
<1>8. ServerSide(s) /\ ClientSide(s)
  BY <1>2, <1>6, <1>7 DEF ServerSide, ClientSide
<1>9. Decoded(control) = <<>>
  BY <1>2, DecodedType, EmptySeq
<1>10. Chain
  BY <1>2, <1>6, <1>8, <1>9, ReachesEmpty DEF Chain
<1> QED
  BY <1>1, <1>3, <1>4, <1>10 DEF InputInv

LEMMA NextInput == InputInv /\ [Next]_vars => InputInv'
  BY NextTyped, DownStep, ChannelStep, QuitStep, ChainStep DEF InputInv

\* With nothing on its way the ends of the chain are the same.
LEMMA SettledChain ==
    ASSUME InputInv, Settled, net \/ ~missed
    PROVE  \E s : ServerSide(s) /\ ClientSide(s)
<1>1. PICK first \in States, mid \in States, last \in States :
         /\ ServerSide(first) /\ Reaches(first, Decoded(control), mid)
         /\ Reaches(mid, ui, last) /\ ClientSide(last)
  BY DEF InputInv, Chain
<1>2. control = <<>> /\ control \in Seq(ControlBytes) /\ ui \in Seq(Commands)
  BY DEF InputInv, Settled, Typed, FlightTyped, QueueTyped
<1>3. Decoded(control) = <<>>
  BY <1>2, DecodedType, EmptySeq
<1>4. first = mid
  BY <1>1, <1>3, ReachesEmpty
<1>5. \A i \in 1 .. Len(ui) : \A x \in States : Effect(ui[i], x) = x
  <2>1. \A i \in 1 .. Len(ui) : net => ui[i].type = "mouse"
    BY <1>2 DEF Settled
  <2>2. ~net => Len(ui) = 0
    BY EmptySeq DEF InputInv, QuitIsLast
  <2>3. ASSUME NEW i \in 1 .. Len(ui) PROVE \A x \in States : Effect(ui[i], x) = x
    <3>1. net
      BY <2>2
    <3>2. ui[i].type = "mouse"
      BY <2>1, <3>1
    <3> QED
      BY <3>2, EffectOf
  <2> QED
    BY <2>3
<1>6. mid = last
  BY <1>1, <1>2, <1>5, ReachesIdle
<1> QED
  BY <1>1, <1>4, <1>6

LEMMA PressedHeld == InputInv => HeldIsPressed
<1> SUFFICES ASSUME InputInv, Settled, ~net => channel = "closed"
             PROVE  /\ held \subseteq pressed_keys \cup pressed_buttons \cup stuck
                    /\ ~missed => held = {i \in pressed_keys \cup pressed_buttons : Mapped(i)}
  BY DEF HeldIsPressed
<1>1. held \subseteq Sink \cup stuck /\ (~missed => held = Sink)
  BY DEF InputInv, DownAccounted
<1>2. CASE ~net
  BY <1>2 DEF InputInv, ChannelEnds
<1>3. CASE net
  <2>1. PICK s : ServerSide(s) /\ ClientSide(s)
    BY <1>3, SettledChain
  <2>2. /\ Sink \subseteq s.down /\ (~missed => s.down = Sink)
        /\ s.down = {i \in pressed_keys \cup pressed_buttons : Mapped(i)}
    BY <2>1 DEF ServerSide, ClientSide, PressedNow
  <2> QED
    BY <1>1, <2>2
<1> QED
  BY <1>2, <1>3

LEMMA NotchesArrive == InputInv => WheelConserved
<1> SUFFICES ASSUME InputInv, Settled, ~missed PROVE turned = wheel * Notch + wheel_acc
  BY DEF WheelConserved
<1>1. PICK s : ServerSide(s) /\ ClientSide(s)
  BY SettledChain
<1> QED
  BY <1>1 DEF ServerSide, ClientSide

\* Whenever nothing is on its way, the VM holds down only what the window holds
\* down or what the device refused to release, and exactly that if nothing was
\* lost: across losses of focus, messages dropped before the channel opens, a
\* lost connection and failing devices, in every order of the three threads.
THEOREM HeldMatchesWindow == Spec => []HeldIsPressed
<1>1. InputInv => HeldIsPressed
  BY PressedHeld
<1> QED
  BY <1>1, InitInput, NextInput, PTL DEF Spec

\* Whenever nothing is on its way and nothing was lost, the notches on the VM and
\* the fraction carried over by handle_wheel are what the user turned.
THEOREM WheelAddsUp == Spec => []WheelConserved
<1>1. InputInv => WheelConserved
  BY NotchesArrive
<1> QED
  BY <1>1, InitInput, NextInput, PTL DEF Spec
=============================================================================
