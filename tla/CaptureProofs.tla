--------------------------- MODULE CaptureProofs ---------------------------
(***************************************************************************)
(* Machine-checked theorems about the conversion of captured images, for   *)
(* images of every size and content: the values of a frame are those of a  *)
(* limited range signal, and reusing a buffer leaves nothing in it.        *)
(***************************************************************************)
EXTENDS Capture, FrameSourceProofs

LumaRange == 16 .. 235
ChromaRange == 16 .. 240

\* What the conversion of one colour gives: no value wraps at the byte.
LEMMA ColourInRange ==
    ASSUME NEW p \in Pixels
    PROVE  Luma(p) \in LumaRange /\ ChromaU(p) \in ChromaRange /\ ChromaV(p) \in ChromaRange
<1>1. /\ p.r \in Int /\ 0 <= p.r /\ p.r <= 255
      /\ p.g \in Int /\ 0 <= p.g /\ p.g <= 255
      /\ p.b \in Int /\ 0 <= p.b /\ p.b <= 255
  BY DEF Pixels, Channel
<1>2. Luma(p) \in LumaRange
  <2> DEFINE n == 66 * p.r + 129 * p.g + 25 * p.b + 128
  <2>0. n \in Int /\ 128 <= n /\ n <= 56228
    BY <1>1
  <2> HIDE DEF n
  <2>1. n \div 256 \in 0 .. 219
    BY <2>0
  <2>2. \A k \in 0 .. 255 : U8(k) = k
    BY DEF U8
  <2>3. Luma(p) = U8(n \div 256 + 16)
    BY DEF Luma, n
  <2> QED
    BY <2>1, <2>2, <2>3 DEF LumaRange
<1>3. ChromaU(p) \in ChromaRange
  <2> DEFINE n == 112 * p.b - 38 * p.r - 74 * p.g + 128
  <2>0. n \in Int /\ -28432 <= n /\ n <= 28688
    BY <1>1
  <2> HIDE DEF n
  <2>1. n \div 256 \in -112 .. 112
    BY <2>0
  <2>2. \A k \in 0 .. 255 : U8(k) = k
    BY DEF U8
  <2>3. ChromaU(p) = U8(n \div 256 + 128)
    BY DEF ChromaU, n
  <2> QED
    BY <2>1, <2>2, <2>3 DEF ChromaRange
<1>4. ChromaV(p) \in ChromaRange
  <2> DEFINE n == 112 * p.r - 94 * p.g - 18 * p.b + 128
  <2>0. n \in Int /\ -28432 <= n /\ n <= 28688
    BY <1>1
  <2> HIDE DEF n
  <2>1. n \div 256 \in -112 .. 112
    BY <2>0
  <2>2. \A k \in 0 .. 255 : U8(k) = k
    BY DEF U8
  <2>3. ChromaV(p) = U8(n \div 256 + 128)
    BY DEF ChromaV, n
  <2> QED
    BY <2>1, <2>2, <2>3 DEF ChromaRange
<1> QED
  BY <1>2, <1>3, <1>4

\* An offset in a plane is a row and a column of it.
LEMMA Cell ==
    ASSUME NEW w \in Nat \ {0}, NEW h \in Nat, NEW i \in 0 .. w * h - 1
    PROVE  i \div w \in 0 .. h - 1 /\ i % w \in 0 .. w - 1
<1> DEFINE q == i \div w
<1> DEFINE r == i % w
<1>1. r \in 0 .. w - 1 /\ q \in Int /\ i = w * q + r
  BY Z3
<1>2. q >= 0 /\ q < h
  <2> HIDE DEF q, r
  <2>1. ASSUME q < 0 PROVE FALSE
    <3>1. w * q <= -w
      BY <1>1, <2>1
    <3> QED
      BY <1>1, <3>1
  <2>2. ASSUME q >= h PROVE FALSE
    <3>1. w * q >= w * h
      BY <1>1, <2>2
    <3> QED
      BY <1>1, <3>1
  <2> QED
    BY <1>1, <2>1, <2>2
<1> QED
  BY <1>1, <1>2

LEMMA EvenProperties ==
    ASSUME NEW n \in Nat
    PROVE  /\ Even(n) \in Nat /\ Even(n) <= n /\ Even(Even(n)) = Even(n)
           /\ Even(n) \div 2 \in Nat /\ 2 * (Even(n) \div 2) = Even(n)
  BY DEF Even

-----------------------------------------------------------------------------
(* Pixels of an image *)

LEMMA PixelOf ==
    ASSUME NEW img, IsImage(img), NEW row \in 0 .. img.height - 1, NEW col \in 0 .. img.width - 1
    PROVE  img.at[row, col] \in Pixels
  BY DEF IsImage

LEMMA BlockOf ==
    ASSUME NEW img, IsImage(img),
           NEW row \in 0 .. (Even(img.height) \div 2) - 1,
           NEW col \in 0 .. (Even(img.width) \div 2) - 1
    PROVE  Block(img, row, col) \in Pixels
<1>1. /\ 2 * row \in 0 .. img.height - 1 /\ 2 * row + 1 \in 0 .. img.height - 1
      /\ 2 * col \in 0 .. img.width - 1 /\ 2 * col + 1 \in 0 .. img.width - 1
  BY EvenProperties DEF IsImage
<1> DEFINE mean(c) ==
        ( img.at[2 * row, 2 * col][c] + img.at[2 * row, 2 * col + 1][c]
          + img.at[2 * row + 1, 2 * col][c] + img.at[2 * row + 1, 2 * col + 1][c] + 2 ) \div 4
<1>2. ASSUME NEW p1 \in Channel, NEW p2 \in Channel, NEW p3 \in Channel, NEW p4 \in Channel
      PROVE  (p1 + p2 + p3 + p4 + 2) \div 4 \in Channel
  BY DEF Channel
<1>3. mean("r") \in Channel /\ mean("g") \in Channel /\ mean("b") \in Channel
  <2>1. /\ img.at[2 * row, 2 * col] \in Pixels /\ img.at[2 * row, 2 * col + 1] \in Pixels
        /\ img.at[2 * row + 1, 2 * col] \in Pixels /\ img.at[2 * row + 1, 2 * col + 1] \in Pixels
    BY <1>1, PixelOf
  <2> QED
    BY <1>2, <2>1 DEF Pixels
<1>4. Block(img, row, col) = [r |-> mean("r"), g |-> mean("g"), b |-> mean("b")]
  BY DEF Block
<1> HIDE DEF mean
<1>5. [r |-> mean("r"), g |-> mean("g"), b |-> mean("b")] \in Pixels
  BY <1>3 DEF Pixels
<1> QED
  BY <1>4, <1>5

-----------------------------------------------------------------------------
(* Frames *)

Frames(w, h) ==
    [ width : {w}, height : {h},
      y : [0 .. w * h - 1 -> LumaRange],
      u : [0 .. (w \div 2) * (h \div 2) - 1 -> ChromaRange],
      v : [0 .. (w \div 2) * (h \div 2) - 1 -> ChromaRange] ]

IsFrame(f) == \E w \in Nat, h \in Nat : f \in Frames(w, h)

LEMMA NewFrameIsFrame ==
    ASSUME NEW w \in Nat, NEW h \in Nat
    PROVE  NewFrame(w, h) \in Frames(Even(w), Even(h))
<1>1. 16 \in LumaRange /\ 128 \in ChromaRange
  BY DEF LumaRange, ChromaRange
<1> QED
  BY <1>1 DEF NewFrame, Planes, Frames

\* What the loops of xrgb_to_i420 write, whatever the frame holds before.
Written(img) ==
    LET w == Even(img.width)
        h == Even(img.height)
        block(i) == Block(img, i \div (w \div 2), i % (w \div 2))
    IN  [ width |-> w, height |-> h,
          y |-> [i \in 0 .. w * h - 1 |-> Luma(img.at[i \div w, i % w])],
          u |-> [i \in 0 .. (w \div 2) * (h \div 2) - 1 |-> ChromaU(block(i))],
          v |-> [i \in 0 .. (w \div 2) * (h \div 2) - 1 |-> ChromaV(block(i))] ]

LEMMA ConvertWrites ==
    ASSUME NEW img, IsImage(img), NEW dst, IsFrame(dst)
    PROVE  Convert(img, dst) =
               IF Even(img.width) = 0 \/ Even(img.height) = 0 THEN NewFrame(0, 0) ELSE Written(img)
<1> DEFINE w == Even(img.width)
<1> DEFINE h == Even(img.height)
<1> DEFINE frame == Resized(dst, w, h)
<1> DEFINE blocks == (w \div 2) * (h \div 2)
<1>1. w \in Nat /\ h \in Nat /\ Even(w) = w /\ Even(h) = h
  BY EvenProperties DEF IsImage
<1> DEFINE luma(i) == Luma(img.at[i \div w, i % w])
<1> DEFINE block(i) == Block(img, i \div (w \div 2), i % (w \div 2))
<1>2. Convert(img, dst) =
        IF w = 0 \/ h = 0
          THEN NewFrame(0, 0)
          ELSE [ width |-> frame.width, height |-> frame.height,
                 y |-> [i \in DOMAIN frame.y |-> IF i < w * h THEN luma(i) ELSE frame.y[i]],
                 u |-> [i \in DOMAIN frame.u |-> IF i < blocks THEN ChromaU(block(i)) ELSE frame.u[i]],
                 v |-> [i \in DOMAIN frame.v |-> IF i < blocks THEN ChromaV(block(i)) ELSE frame.v[i]] ]
  BY DEF Convert, Overwritten
<1>3. Written(img) =
        [ width |-> w, height |-> h, y |-> [i \in 0 .. w * h - 1 |-> luma(i)],
          u |-> [i \in 0 .. blocks - 1 |-> ChromaU(block(i))],
          v |-> [i \in 0 .. blocks - 1 |-> ChromaV(block(i))] ]
  BY DEF Written
<1>4. frame \in Frames(w, h)
  <2>1. CASE dst.width = w /\ dst.height = h
    BY <2>1 DEF IsFrame, Resized, Frames
  <2>2. CASE ~(dst.width = w /\ dst.height = h)
    <3>1. frame = NewFrame(w, h)
      BY <2>2 DEF Resized
    <3>2. NewFrame(w, h) \in Frames(Even(w), Even(h))
      BY <1>1, NewFrameIsFrame
    <3> QED
      BY <1>1, <3>1, <3>2
  <2> QED
    BY <2>1, <2>2
<1>5. w * h \in Nat /\ blocks \in Nat
  BY <1>1
<1> HIDE DEF w, h, frame, luma, block, blocks
<1>6. /\ frame.width = w /\ frame.height = h
      /\ DOMAIN frame.y = 0 .. w * h - 1
      /\ DOMAIN frame.u = 0 .. blocks - 1
      /\ DOMAIN frame.v = 0 .. blocks - 1
  BY <1>4 DEF Frames, blocks
<1>7. /\ [i \in DOMAIN frame.y |-> IF i < w * h THEN luma(i) ELSE frame.y[i]]
            = [i \in 0 .. w * h - 1 |-> luma(i)]
      /\ [i \in DOMAIN frame.u |-> IF i < blocks THEN ChromaU(block(i)) ELSE frame.u[i]]
            = [i \in 0 .. blocks - 1 |-> ChromaU(block(i))]
      /\ [i \in DOMAIN frame.v |-> IF i < blocks THEN ChromaV(block(i)) ELSE frame.v[i]]
            = [i \in 0 .. blocks - 1 |-> ChromaV(block(i))]
  BY <1>5, <1>6
<1> QED
  BY <1>2, <1>3, <1>6, <1>7 DEF w, h

LEMMA WrittenIsFrame ==
    ASSUME NEW img, IsImage(img), Even(img.width) # 0, Even(img.height) # 0
    PROVE  Written(img) \in Frames(Even(img.width), Even(img.height))
<1> DEFINE w == Even(img.width)
<1> DEFINE h == Even(img.height)
<1>1. /\ w \in Nat \ {0} /\ h \in Nat \ {0} /\ w <= img.width /\ h <= img.height
      /\ w \div 2 \in Nat \ {0} /\ h \div 2 \in Nat \ {0}
      /\ img.width \in Nat /\ img.height \in Nat
  BY EvenProperties DEF IsImage
<1> HIDE DEF w, h
<1>2. ASSUME NEW i \in 0 .. w * h - 1
      PROVE  Luma(img.at[i \div w, i % w]) \in LumaRange
  <2>1. i \div w \in 0 .. img.height - 1 /\ i % w \in 0 .. img.width - 1
    <3>1. i \div w \in 0 .. h - 1 /\ i % w \in 0 .. w - 1
      BY <1>1, Cell
    <3> QED
      BY <1>1, <3>1
  <2> QED
    BY <2>1, PixelOf, ColourInRange
<1>3. ASSUME NEW i \in 0 .. (w \div 2) * (h \div 2) - 1
      PROVE  /\ ChromaU(Block(img, i \div (w \div 2), i % (w \div 2))) \in ChromaRange
             /\ ChromaV(Block(img, i \div (w \div 2), i % (w \div 2))) \in ChromaRange
  <2>1. i \div (w \div 2) \in 0 .. (h \div 2) - 1 /\ i % (w \div 2) \in 0 .. (w \div 2) - 1
    BY <1>1, Cell
  <2>2. Block(img, i \div (w \div 2), i % (w \div 2)) \in Pixels
    BY <2>1, BlockOf DEF w, h
  <2> QED
    BY <2>2, ColourInRange
<1> QED
  BY <1>2, <1>3 DEF Written, Frames, w, h

\* Converting into a frame gives what converting into a new one gives, and a frame.
LEMMA ConvertIsPicture ==
    ASSUME NEW img, IsImage(img), NEW dst, IsFrame(dst)
    PROVE  Convert(img, dst) = Picture(img) /\ IsFrame(Picture(img))
<1>1. IsFrame(NewFrame(0, 0))
  BY NewFrameIsFrame, EvenProperties DEF IsFrame
<1>2. Convert(img, dst) = Picture(img)
  BY <1>1, ConvertWrites DEF Picture
<1>3. CASE Even(img.width) = 0 \/ Even(img.height) = 0
  BY <1>1, <1>2, <1>3, ConvertWrites
<1>4. CASE Even(img.width) # 0 /\ Even(img.height) # 0
  <2>1. Picture(img) = Written(img)
    BY <1>2, <1>4, ConvertWrites
  <2>2. Even(img.width) \in Nat /\ Even(img.height) \in Nat
    BY EvenProperties DEF IsImage
  <2> QED
    BY <1>2, <1>4, <2>1, <2>2, WrittenIsFrame DEF IsFrame
<1> QED
  BY <1>2, <1>3, <1>4

-----------------------------------------------------------------------------
(* The capture thread's frame *)

FrameInv ==
    /\ Inv
    /\ IsFrame(current)
    /\ converted \subseteq Buffers
    /\ FrameIsPicture

LEMMA FrameStep == FrameInv /\ [FrameNext]_allVars => FrameInv'
<1> SUFFICES ASSUME FrameInv, [FrameNext]_allVars PROVE FrameInv'
  OBVIOUS
<1>1. [Next]_vars
  BY Zenon DEF FrameNext, FrameThread, ConvertCaptured, HandOver, NoFrame, Next, allVars
<1>2. Inv'
  BY <1>1, InvStep DEF FrameInv
<1>3. captured' # None => captured' \in Buffers
  BY <1>2 DEF Inv, TypeOK
<1>4. \A b \in Buffers : IsImage(Image[b])
  BY ImageAssumption
<1>5. CASE ConvertCaptured
  <2>1. Convert(Image[captured'], current) = Picture(Image[captured']) /\ IsFrame(Picture(Image[captured']))
    BY <1>3, <1>4, <1>5, ConvertIsPicture DEF ConvertCaptured, FrameInv
  <2> QED
    BY <1>2, <1>3, <1>5, <2>1 DEF ConvertCaptured, FrameInv, FrameIsPicture
<1>6. CASE HandOver
  <2>1. IsFrame(NewFrame(current.width, current.height))
    <3>1. current.width \in Nat /\ current.height \in Nat
      BY DEF FrameInv, IsFrame, Frames
    <3> QED
      BY <3>1, NewFrameIsFrame, EvenProperties DEF IsFrame
  <2>2. \A b \in converted : IsFrame(Picture(Image[b]))
    <3>1. IsFrame(current) /\ converted \subseteq Buffers
      BY DEF FrameInv
    <3> QED
      BY <1>4, <3>1, ConvertIsPicture
  <2>3. IsFrame(current')
    BY <1>6, <2>1, <2>2 DEF HandOver, FrameInv
  <2> QED
    BY <1>2, <1>6, <2>3 DEF HandOver, FrameInv, FrameIsPicture
<1>7. CASE NoFrame
  BY <1>2, <1>7 DEF NoFrame, frameVars, FrameInv, FrameIsPicture
<1>8. CASE Environment /\ UNCHANGED frameVars
  <2>1. captured' = captured
    BY <1>8 DEF Environment, CardAppears, ClientChanges, AddFb, ShowFb, RemoveFb, threadVars
  <2> QED
    BY <1>2, <1>8, <2>1 DEF frameVars, FrameInv, FrameIsPicture
<1>9. CASE UNCHANGED allVars
  BY <1>2, <1>9 DEF allVars, vars, frameVars, FrameInv, FrameIsPicture
<1> QED
  BY <1>5, <1>6, <1>7, <1>8, <1>9 DEF FrameNext, FrameThread

LEMMA FrameInvariant == FrameSpec => []FrameInv
<1>1. FrameInit => FrameInv
  <2> SUFFICES ASSUME FrameInit PROVE FrameInv
    OBVIOUS
  <2>1. Inv
    BY InvInit DEF FrameInit
  <2>2. IsFrame(NewFrame(0, 0))
    BY NewFrameIsFrame, EvenProperties DEF IsFrame
  <2>3. captured = None
    BY DEF FrameInit, Init
  <2> QED
    BY <2>1, <2>2, <2>3 DEF FrameInit, FrameInv, FrameIsPicture
<1> QED
  BY <1>1, FrameStep, PTL DEF FrameSpec

\* Whatever sizes the display's modes and the images have, the frame that is
\* handed over shows the captured image, the whole of it and nothing else.
THEOREM ReuseSound == FrameSpec => []FrameIsPicture
  BY FrameInvariant, PTL DEF FrameInv

\* Every value of every frame is in the limited range of BT.601: the 32-bit
\* arithmetic never leaves what a byte holds.
THEOREM RangeSound == FrameSpec => []LimitedRange
<1>1. FrameInv => LimitedRange
  <2> SUFFICES ASSUME IsFrame(current) PROVE LimitedRange
    BY DEF FrameInv
  <2>1. PICK w \in Nat, h \in Nat : current \in Frames(w, h)
    BY DEF IsFrame
  <2>2. /\ current.y \in [0 .. w * h - 1 -> LumaRange]
        /\ current.u \in [0 .. (w \div 2) * (h \div 2) - 1 -> ChromaRange]
        /\ current.v \in [0 .. (w \div 2) * (h \div 2) - 1 -> ChromaRange]
    BY <2>1 DEF Frames
  <2>3. ASSUME NEW S, NEW T, NEW f \in [S -> T] PROVE \A i \in DOMAIN f : f[i] \in T
    OBVIOUS
  <2>4. /\ \A i \in DOMAIN current.y : current.y[i] \in LumaRange
        /\ \A i \in DOMAIN current.u : current.u[i] \in ChromaRange
        /\ \A i \in DOMAIN current.v : current.v[i] \in ChromaRange
    BY <2>2, <2>3
  <2> QED
    BY <2>4 DEF LimitedRange, LumaRange, ChromaRange
<1> QED
  BY <1>1, FrameInvariant, PTL
=============================================================================
