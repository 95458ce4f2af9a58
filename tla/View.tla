-------------------------------- MODULE View --------------------------------
(***************************************************************************)
(* Where the picture is in the client's window (client/src/app.rs) and     *)
(* where the cursor is in the picture (MouseMove::from_video_position).    *)
(* A size is a pair of numbers of pixels; what the code computes in        *)
(* floating point is exact here.                                           *)
(*                                                                         *)
(* Definitions named Mut... are deliberate faults, as in ClientInput.tla.  *)
(***************************************************************************)
EXTENDS Wire

NoFrame == <<>>  \* SharedView.latest is None

AtLeast(low, n) == IF n < low THEN low ELSE n
AtMost(high, n) == IF n > high THEN high ELSE n

\* f64::round of n / d
Rounded(n, d) == (2 * n + d) \div (2 * d)

\* set_target_size: a minimised window has no size.
Target(size) == <<AtLeast(1, size[1]), AtLeast(1, size[2])>>

\* fit_aspect: the largest rectangle with the aspect of src that fits into target.
FitAspect(target, src) ==
    LET byWidth == target[1] * src[2] <= target[2] * src[1]
        w == IF byWidth THEN target[1] ELSE Rounded(src[1] * target[2], src[2])
        h == IF byWidth THEN Rounded(src[2] * target[1], src[1]) ELSE target[2]
    IN  << AtLeast(2, AtMost(target[1], AtLeast(1, w))),
           AtLeast(2, AtMost(target[2], AtLeast(1, h))) >>

Fits(frame, win) == frame # NoFrame /\ frame[1] <= win[1] /\ frame[2] <= win[2]

MutVideoRect(win, frame) ==  \* the picture at the window's corner
    [at |-> <<0, 0>>, size |-> IF Fits(frame, win) THEN frame ELSE win]

\* App::video_rect
VideoRect(win, frame) ==
    LET inner == Target(win) IN
    IF Fits(frame, inner)
      THEN [at |-> <<(inner[1] - frame[1]) \div 2, (inner[2] - frame[2]) \div 2>>, size |-> frame]
      ELSE [at |-> <<0, 0>>, size |-> inner]

\* blit, in one direction: which of the frame's n pixels is drawn at x, or black.
Black == -1
BlitSource(width, n, x) ==
    LET copy == AtMost(width, n)
        x0 == (width - copy) \div 2
        sx0 == (n - copy) \div 2
    IN  IF x \in x0 .. x0 + copy - 1 THEN sx0 + (x - x0) ELSE Black

\* from_video_position, in one direction: clamped to the picture's edges.
Normalised(v, size) ==
    IF size <= 1 THEN 0 ELSE Rounded(AtMost(size - 1, AtLeast(0, v)) * (Word - 1), size - 1)

\* The MouseMove for the cursor at this point of the window.
PositionAt(win, frame, point) ==
    LET rect == VideoRect(win, frame) IN
    [x |-> Normalised(point[1] - rect.at[1], rect.size[1]),
     y |-> Normalised(point[2] - rect.at[2], rect.size[2])]

\* Wherever the picture is drawn, the cursor's position is that of the pixel
\* under it.
PointsAtPicture(win, frame) ==
    \A x \in 0 .. win[1] - 1, y \in 0 .. win[2] - 1 :
        LET col == BlitSource(win[1], frame[1], x)
            row == BlitSource(win[2], frame[2], y)
        IN  col # Black /\ row # Black =>
                PositionAt(win, frame, <<x, y>>) =
                    [x |-> Normalised(col, frame[1]), y |-> Normalised(row, frame[2])]
=============================================================================
