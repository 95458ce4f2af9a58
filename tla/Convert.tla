------------------------------ MODULE Convert ------------------------------
(***************************************************************************)
(* Colour conversion (server/src/convert.rs): the pixels of the scanout    *)
(* buffer become the three planes of an I420 frame, which the capture      *)
(* thread reuses.  An image is its size and its pixels [r, g, b]; the      *)
(* pitch of its rows, which the kernel makes long enough, is left out.     *)
(*                                                                         *)
(* Definitions named Mut... are deliberate faults, as in Pipeline.tla.     *)
(***************************************************************************)
EXTENDS Integers

Channel == 0 .. 255
Pixels == [r : Channel, g : Channel, b : Channel]

IsImage(img) ==
    /\ img.width \in Nat /\ img.height \in Nat
    /\ img.at \in [(0 .. img.height - 1) \X (0 .. img.width - 1) -> Pixels]

\* n & !1
Even(n) == 2 * (n \div 2)

\* `as u8`
U8(n) == n % 256

-----------------------------------------------------------------------------
(* One pixel, and one block of two by two *)

MutLuma(p) == U8((66 * p.r + 129 * p.g + 25 * p.b + 128) \div 256)  \* full range

Luma(p) == U8((66 * p.r + 129 * p.g + 25 * p.b + 128) \div 256 + 16)

\* The mean colour of the block in the row pair and the column pair with these numbers.
Block(img, row, col) ==
    LET mean(c) ==
            ( img.at[2 * row, 2 * col][c] + img.at[2 * row, 2 * col + 1][c]
              + img.at[2 * row + 1, 2 * col][c] + img.at[2 * row + 1, 2 * col + 1][c] + 2 ) \div 4
    IN  [r |-> mean("r"), g |-> mean("g"), b |-> mean("b")]

\* A shift to the right rounds towards minus infinity, as does \div.
ChromaU(p) == U8((112 * p.b - 38 * p.r - 74 * p.g + 128) \div 256 + 128)
ChromaV(p) == U8((112 * p.r - 94 * p.g - 18 * p.b + 128) \div 256 + 128)

-----------------------------------------------------------------------------
(* Frames *)

\* The planes of a frame of an even size, as functions of the offset.
Planes(w, h, Y(_), U(_), V(_)) ==
    [ width |-> w, height |-> h,
      y |-> [i \in 0 .. w * h - 1 |-> Y(i)],
      u |-> [i \in 0 .. (w \div 2) * (h \div 2) - 1 |-> U(i)],
      v |-> [i \in 0 .. (w \div 2) * (h \div 2) - 1 |-> V(i)] ]

\* I420Frame::new: black
NewFrame(width, height) ==
    LET luma(i) == 16
        chroma(i) == 128
    IN  Planes(Even(width), Even(height), luma, chroma, chroma)

MutResized(dst, w, h) ==  \* another mode with as many bytes keeps the buffer
    IF dst.width * dst.height # w * h THEN NewFrame(w, h) ELSE dst

\* The frame to convert into: `dst` if it has the size.
Resized(dst, w, h) ==
    IF dst.width # w \/ dst.height # h THEN NewFrame(w, h) ELSE dst

\* The first n bytes of a plane are written.
Overwritten(plane, n, Value(_)) == [i \in DOMAIN plane |-> IF i < n THEN Value(i) ELSE plane[i]]

\* xrgb_to_i420: the loops write every offset that the size of the image gives.
Convert(img, dst) ==
    LET w == Even(img.width)
        h == Even(img.height)
        frame == Resized(dst, w, h)
        blocks == (w \div 2) * (h \div 2)
        block(i) == Block(img, i \div (w \div 2), i % (w \div 2))
        luma(i) == Luma(img.at[i \div w, i % w])
        chromaU(i) == ChromaU(block(i))
        chromaV(i) == ChromaV(block(i))
    IN  IF w = 0 \/ h = 0
          THEN NewFrame(0, 0)
          ELSE [ width |-> frame.width, height |-> frame.height,
                 y |-> Overwritten(frame.y, w * h, luma),
                 u |-> Overwritten(frame.u, blocks, chromaU),
                 v |-> Overwritten(frame.v, blocks, chromaV) ]

\* The picture as a new buffer would show it.
Picture(img) == Convert(img, NewFrame(0, 0))
=============================================================================
