----------------------------- MODULE MCCapture -----------------------------
(***************************************************************************)
(* A small instance of Capture.                                            *)
(***************************************************************************)
EXTENDS Capture

Rgb(x, y, z) == [r |-> x, g |-> y, b |-> z]
Black == Rgb(0, 0, 0)
White == Rgb(255, 255, 255)
Red == Rgb(255, 0, 0)
Yellow == Rgb(255, 255, 0)
Blue == Rgb(0, 0, 255)
Cyan == Rgb(0, 255, 255)

Painted(w, h, Colour(_, _)) ==
    [width |-> w, height |-> h, at |-> [p \in (0 .. h - 1) \X (0 .. w - 1) |-> Colour(p[1], p[2])]]

\* Columns of alternating colours, which the chroma averages.
Stripes(w, h, even, odd) ==
    LET colour(row, col) == IF col % 2 = 0 THEN even ELSE odd IN Painted(w, h, colour)

\* Alternating blocks of two by two, which keep their colour.
Blocks(w, h, even, odd) ==
    LET colour(row, col) == IF (row \div 2 + col \div 2) % 2 = 0 THEN even ELSE odd
    IN  Painted(w, h, colour)

\* An odd size, which is cropped, and two modes with equally many pixels; black and
\* white are the ends of luma, blue and yellow those of U, red and cyan those of V.
SmallImages ==
    [b \in Buffers |->
        CASE b = 1 -> Stripes(3, 3, White, Black)
          [] b = 2 -> Stripes(1, 1, Black, Black)
          [] b = 3 -> Blocks(4, 2, Red, Blue)
          [] b = 4 -> Blocks(2, 4, Yellow, Cyan)]
=============================================================================
