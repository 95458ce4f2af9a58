------------------------------ MODULE Capture ------------------------------
(***************************************************************************)
(* The capture thread's frames: FrameSource.tla finds the buffer, and the  *)
(* thread converts it (Convert.tla) into the frame it has at hand, which   *)
(* after a hand-over is one that came back from the encoder thread with an *)
(* earlier picture of perhaps another size (capture_loop of                *)
(* server/src/pipeline.rs).                                                *)
(***************************************************************************)
EXTENDS FrameSource, Convert

CONSTANT Image  \* what each buffer shows

ASSUME ImageAssumption ==
    \A b \in Buffers : IsImage(Image[b])

VARIABLES
    current,   \* the frame at hand
    converted  \* the buffers converted so far

frameVars == <<current, converted>>

FrameInit == Init /\ current = NewFrame(0, 0) /\ converted = {}

\* A buffer is captured and converted at once.
ConvertCaptured ==
    /\ Thread
    /\ captured' # None
    /\ current' = Convert(Image[captured'], current)
    /\ converted' = converted \cup {captured'}

\* The captured frame is skipped, or is exchanged for a spare one or a new one.
HandOver ==
    /\ Thread
    /\ captured # None /\ captured' = None
    /\ current' \in {current, NewFrame(current.width, current.height)}
                        \cup {Picture(Image[b]) : b \in converted}
    /\ UNCHANGED converted

\* The thread's other steps.
NoFrame == Thread /\ captured = None /\ captured' = None /\ UNCHANGED frameVars

FrameThread == ConvertCaptured \/ HandOver \/ NoFrame

FrameNext == FrameThread \/ (Environment /\ UNCHANGED frameVars)

allVars == <<vars, frameVars>>

FrameSpec == FrameInit /\ [][FrameNext]_allVars /\ WF_allVars(FrameThread)

-----------------------------------------------------------------------------
(* Properties *)

\* The captured frame is the picture of the captured buffer and nothing else: no
\* byte of the frame that was in the buffer before, of whatever size, is left.
FrameIsPicture == captured # None => current = Picture(Image[captured])

\* "The results are within 16..=240 for in-range input" (convert.rs:111), and
\* luma within 16..=235: what the decoder takes for limited range, and no value
\* wraps when it is cast to a byte.
LimitedRange ==
    /\ \A i \in DOMAIN current.y : current.y[i] \in 16 .. 235
    /\ \A i \in DOMAIN current.u : current.u[i] \in 16 .. 240
    /\ \A i \in DOMAIN current.v : current.v[i] \in 16 .. 240
=============================================================================
