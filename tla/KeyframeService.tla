--------------------------- MODULE KeyframeService ---------------------------
(***************************************************************************)
(* What the pipeline promises the session layer about keyframes: a client  *)
(* that asks for one gets it, and before it at most the one frame that was *)
(* already being encoded.  Pipeline.tla shows that the two threads, their  *)
(* channels and the flags they share implement this (KeyframeServed).      *)
(***************************************************************************)
CONSTANTS
    Clients,  \* who may be served
    None      \* nobody

VARIABLES
    client,   \* whose queue takes the encoded frames
    request   \* its keyframe request, see States

vars == <<client, request>>

\* "none": no keyframe is asked for.  "inFlight": one is, but a frame without it
\* is already on its way.  "due": the next frame for the client is the keyframe.
States == {"none", "inFlight", "due"}

Init == client = None /\ request = "none"

\* A client takes over; what its predecessor had asked for is void.
Attach(c) ==
    /\ c # client
    /\ client' = c
    /\ request' = "none"

\* The client is gone, or does not read its frames any more.
Detach ==
    /\ client # None
    /\ client' = None
    /\ request' = "none"

\* The client asks for a keyframe (on connecting, PLI or FIR).
Ask ==
    /\ client # None
    /\ request = "none"
    /\ request' \in {"inFlight", "due"}
    /\ UNCHANGED client

\* The frame that was on its way goes out, or is lost.
InFlightFrame ==
    /\ request = "inFlight"
    /\ request' = "due"
    /\ UNCHANGED client

\* The keyframe is queued for the client.
Keyframe ==
    /\ request = "due"
    /\ request' = "none"
    /\ UNCHANGED client

Next == (\E c \in Clients : Attach(c)) \/ Detach \/ Ask \/ InFlightFrame \/ Keyframe

Spec == Init /\ [][Next]_vars
=============================================================================
