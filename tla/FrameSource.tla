---------------------------- MODULE FrameSource ----------------------------
(***************************************************************************)
(* Screen capture (server/src/capture.rs) as the capture thread uses it:   *)
(* find the card and the display behind the connector, ask for the         *)
(* framebuffer of its primary plane, map that framebuffer once and read    *)
(* the mapping for as long as the plane reports the same framebuffer id.   *)
(*                                                                         *)
(* The display server and the kernel's mode objects are external.  A       *)
(* framebuffer id is free again once its framebuffer is removed, and the   *)
(* kernel gives out the lowest free id.  A mapping keeps its buffer alive  *)
(* after the framebuffer is gone.                                          *)
(*                                                                         *)
(* One action of the thread is one ioctl whose answer another process can  *)
(* change, with the local work after it.                                   *)
(***************************************************************************)
EXTENDS Integers, FiniteSets

CONSTANTS
    MaxFbs,      \* bound: framebuffers that exist at a time
    MaxBuffers,  \* bound: buffers the display server allocates, numbered in order
    Unmappable,  \* buffers whose pixel format is not XRGB8888 or ARGB8888
    None

Ids == 1 .. MaxFbs
Buffers == 1 .. MaxBuffers

ASSUME BoundsAssumption == MaxFbs \in Nat /\ MaxBuffers \in Nat
ASSUME UnmappableAssumption == Unmappable \subseteq Buffers
ASSUME NoneAssumption == None \notin Ids \cup Buffers

VARIABLES
    \* kernel and display server: the card is there; framebuffer id -> buffer;
    \* the id on the primary plane; how many buffers were ever allocated
    card, fbs, plane, allocated,
    \* Shared.client_connected
    client_connected,
    \* capture thread: `source` is Some; its mapping; the id read from the plane
    pc, source, mapping, fb,
    \* the buffer behind the frame that capture() has just returned
    captured,
    \* history: buffers on the plane since capture() looked at it; the id that
    \* the thread knows was given to another framebuffer behind its back
    scanned, reused

kernelVars == <<card, fbs, plane, allocated>>
vars == <<kernelVars, client_connected, pc, source, mapping, fb, captured, scanned, reused>>

Mappings == [fb : Ids, buffer : Buffers]

TypeOK ==
    /\ card \in BOOLEAN
    /\ fbs \in [Ids -> Buffers \cup {None}]
    /\ plane \in Ids \cup {None}
    /\ allocated \in 0 .. MaxBuffers
    /\ client_connected \in BOOLEAN
    /\ pc \in {"check", "card", "crtc", "plane", "capture", "map"}
    /\ source \in BOOLEAN
    /\ mapping \in Mappings \cup {None}
    /\ fb \in Ids \cup {None}
    /\ captured \in Buffers \cup {None}
    /\ scanned \subseteq Buffers
    /\ reused \in BOOLEAN

Init ==
    /\ card \in BOOLEAN
    /\ fbs = [i \in Ids |-> None]
    /\ plane = None
    /\ allocated = 0
    /\ client_connected = FALSE
    /\ pc = "check"
    /\ source = FALSE
    /\ mapping = None
    /\ fb = None
    /\ captured = None
    /\ scanned = {}
    /\ reused = FALSE

-----------------------------------------------------------------------------
(* The kernel, the display server, the client *)

threadVars == <<pc, source, mapping, fb, captured>>

\* vkms is loaded, or its device node becomes accessible.
CardAppears ==
    /\ ~card
    /\ card' = TRUE
    /\ UNCHANGED <<fbs, plane, allocated, client_connected, threadVars, scanned, reused>>

\* ADDFB of a new buffer, which gets the lowest free id.
AddFb(i) ==
    /\ card /\ allocated < MaxBuffers
    /\ fbs[i] = None /\ \A j \in 1 .. i - 1 : fbs[j] # None
    /\ fbs' = [fbs EXCEPT ![i] = allocated + 1]
    /\ allocated' = allocated + 1
    /\ reused' = (reused \/ (mapping # None /\ mapping.fb = i) \/ (pc = "map" /\ fb = i))
    /\ UNCHANGED <<card, plane, client_connected, threadVars, scanned>>

\* SETCRTC or a page flip: the plane shows another framebuffer.
ShowFb(i) ==
    /\ fbs[i] # None /\ i # plane
    /\ plane' = i
    /\ scanned' = scanned \cup {fbs[i]}
    /\ UNCHANGED <<card, fbs, allocated, client_connected, threadVars, reused>>

\* RMFB, or the display server exits: a plane that shows it is switched off.
RemoveFb(i) ==
    /\ fbs[i] # None
    /\ fbs' = [fbs EXCEPT ![i] = None]
    /\ plane' = IF plane = i THEN None ELSE plane
    /\ UNCHANGED <<card, allocated, client_connected, threadVars, scanned, reused>>

ClientChanges ==
    /\ client_connected' = ~client_connected
    /\ UNCHANGED <<kernelVars, threadVars, scanned, reused>>

-----------------------------------------------------------------------------
(* The capture thread *)

\* No client: the source and its mapping are kept.
Idle ==
    /\ pc = "check" /\ ~client_connected
    /\ captured' = None
    /\ UNCHANGED <<kernelVars, client_connected, pc, source, mapping, fb, scanned, reused>>

\* The next frame: use the open display or wait for one.
Tick ==
    /\ pc = "check" /\ client_connected
    /\ pc' = IF source THEN "capture" ELSE "card"
    /\ captured' = None
    /\ UNCHANGED <<kernelVars, client_connected, source, mapping, fb, scanned, reused>>

\* Some step of wait_for_display fails: sleep and begin again, for ever.
LocateFails == /\ pc' = "card"
               /\ UNCHANGED source

\* find_card: open the card.
FindCard ==
    /\ pc = "card"
    /\ IF card THEN pc' = "crtc" /\ UNCHANGED source ELSE LocateFails
    /\ UNCHANGED <<kernelVars, client_connected, mapping, fb, captured, scanned, reused>>

\* locate_display: the CRTC behind the connector has a mode and a framebuffer.
LocateCrtc ==
    /\ pc = "crtc"
    /\ IF plane # None THEN pc' = "plane" /\ UNCHANGED source ELSE LocateFails
    /\ UNCHANGED <<kernelVars, client_connected, mapping, fb, captured, scanned, reused>>

\* locate_display: the plane on that CRTC.  A switched off plane is on none.
LocatePlane ==
    /\ pc = "plane"
    /\ IF plane # None THEN pc' = "capture" /\ source' = TRUE ELSE LocateFails
    /\ UNCHANGED <<kernelVars, client_connected, mapping, fb, captured, scanned, reused>>

\* capture() returns an error: the caller drops the source and its mapping.
CaptureFails ==
    /\ pc' = "check"
    /\ source' = FALSE
    /\ mapping' = None
    /\ fb' = None
    /\ reused' = FALSE
    /\ UNCHANGED captured

MutHit(i) == mapping # None  \* once mapped, always mapped

\* The mapping is taken for the framebuffer's when the ids agree.
Hit(i) == mapping # None /\ mapping.fb = i

\* capture(): GETPLANE, and read the mapping unless the id is another one.
GetPlane ==
    /\ pc = "capture"
    /\ scanned' = IF plane = None THEN {} ELSE {fbs[plane]}
    /\ \/ /\ plane = None
          /\ CaptureFails
       \/ /\ plane # None /\ Hit(plane)
          /\ captured' = mapping.buffer
          /\ pc' = "check"
          /\ UNCHANGED <<source, mapping, fb, reused>>
       \/ /\ plane # None /\ ~Hit(plane)
          /\ fb' = plane
          /\ reused' = FALSE
          /\ pc' = "map"
          /\ UNCHANGED <<source, mapping, captured>>
    /\ UNCHANGED <<kernelVars, client_connected>>

MutMappable(b) == TRUE  \* maps what GETFB2 did not return

\* map_framebuffer needs the framebuffer to exist still, in a known format.
Mappable(b) == b # None /\ b \notin Unmappable

MutMapRetries ==  \* waits for the framebuffer it was asked for
    /\ pc = "map"
    /\ Mappable(fbs[fb])
    /\ mapping' = [fb |-> fb, buffer |-> fbs[fb]]
    /\ captured' = fbs[fb]
    /\ pc' = "check"
    /\ fb' = None
    /\ UNCHANGED <<source, reused, kernelVars, client_connected, scanned>>

\* map_framebuffer: GETFB2, or GETFB, gives the buffer now behind the id; it is
\* mapped through PRIME or MAP_DUMB and read.
MapFramebuffer ==
    /\ pc = "map"
    /\ IF Mappable(fbs[fb])
         THEN /\ mapping' = [fb |-> fb, buffer |-> fbs[fb]]
              /\ captured' = fbs[fb]
              /\ pc' = "check"
              /\ fb' = None
              /\ UNCHANGED <<source, reused>>
         ELSE CaptureFails
    /\ UNCHANGED <<kernelVars, client_connected, scanned>>

Thread == Idle \/ Tick \/ FindCard \/ LocateCrtc \/ LocatePlane \/ GetPlane \/ MapFramebuffer

Environment ==
    \/ CardAppears \/ ClientChanges
    \/ \E i \in Ids : AddFb(i) \/ ShowFb(i) \/ RemoveFb(i)

Next == Thread \/ Environment

Spec == Init /\ [][Next]_vars

\* The thread runs; nothing is assumed of the display server or the client.
FairSpec == Spec /\ WF_vars(Thread)

-----------------------------------------------------------------------------
(* Properties *)

\* Comparing ids is the only weak point of the cached mapping: while the id in
\* use was not given to another framebuffer, what capture() returns was on the
\* plane since it looked there, however modes change, framebuffers disappear
\* between two ioctls, mapping fails, and clients come and go.
StaleOnlyByReuse == captured # None /\ ~reused => captured \in scanned

\* A client is there and the plane shows a framebuffer that can be mapped.
Watchable == card /\ client_connected /\ plane # None /\ Mappable(fbs[plane])

\* wait_for_display "retrying forever" and the re-location after a failed capture
\* bring the picture back: while there is something to see, frames come.
FramesResume == <>[]Watchable => []<>(captured # None)

\* "Returns the current scanout buffer contents" (capture.rs:324): once the
\* display stays as it is, no frame is of any other buffer.  Does not hold: a
\* framebuffer that came to the id of the mapped one is taken for it.
SettledFrameIsCurrent ==
    \A i \in Ids, b \in Buffers :
        <>[](Watchable /\ plane = i /\ fbs[i] = b) => <>[](captured \in {b, None})

=============================================================================
