------------------------- MODULE FrameSourceProofs -------------------------
(***************************************************************************)
(* Machine-checked theorems about FrameSource, for any number of           *)
(* framebuffers, buffers and formats.                                      *)
(***************************************************************************)
EXTENDS FrameSource, TLAPS

(***************************************************************************)
(* Between two looks at the plane the thread relies on what it remembers:  *)
(* the id of its mapping, or the id it is about to map, stands for the     *)
(* same buffer as before or for none, unless the id was reused.            *)
(***************************************************************************)
PlaneShows == plane # None => fbs[plane] # None
NothingYet == pc # "check" => captured = None
MappingValid ==
    pc # "map" /\ mapping # None /\ ~reused => fbs[mapping.fb] \in {mapping.buffer, None}
LookedAt == pc = "map" => fb # None /\ (~reused => fbs[fb] \in scanned \cup {None})

Inv == TypeOK /\ PlaneShows /\ NothingYet /\ MappingValid /\ LookedAt /\ StaleOnlyByReuse

LEMMA InitType == Init => TypeOK
<1> SUFFICES ASSUME Init PROVE TypeOK
  OBVIOUS
<1>1. card \in BOOLEAN /\ client_connected \in BOOLEAN /\ source \in BOOLEAN /\ reused \in BOOLEAN
  BY Zenon DEF Init
<1>2. allocated \in 0 .. MaxBuffers
  BY BoundsAssumption DEF Init
<1> QED
  BY <1>1, <1>2, Zenon DEF Init, TypeOK

LEMMA TypeStep == Inv /\ [Next]_vars => TypeOK'
<1> SUFFICES ASSUME Inv, [Next]_vars PROVE TypeOK'
  OBVIOUS
<1> USE NoneAssumption, BoundsAssumption
    DEF Inv, TypeOK, kernelVars, threadVars, Ids, Buffers, Mappings
<1>1. CASE CardAppears \/ ClientChanges \/ UNCHANGED vars
  BY <1>1 DEF CardAppears, ClientChanges, vars
<1>2. ASSUME NEW i \in Ids, AddFb(i) PROVE TypeOK'
  <2>1. allocated + 1 \in Buffers /\ allocated' = allocated + 1
    BY <1>2 DEF AddFb
  <2>2. fbs' \in [Ids -> Buffers \cup {None}]
    BY <1>2, <2>1 DEF AddFb
  <2>3. reused' \in BOOLEAN
    BY <1>2, Zenon DEF AddFb
  <2> QED
    BY <1>2, <2>1, <2>2, <2>3 DEF AddFb
<1>3. ASSUME NEW i \in Ids, ShowFb(i) PROVE TypeOK'
  BY <1>3 DEF ShowFb
<1>4. ASSUME NEW i \in Ids, RemoveFb(i) PROVE TypeOK'
  BY <1>4 DEF RemoveFb
<1>5. CASE Idle \/ Tick
  BY <1>5 DEF Idle, Tick
<1>6. CASE FindCard \/ LocateCrtc \/ LocatePlane
  BY <1>6 DEF FindCard, LocateCrtc, LocatePlane, LocateFails
<1>7. CASE GetPlane
  <2>1. scanned' \subseteq Buffers
    BY <1>7 DEF GetPlane, PlaneShows
  <2>2. CASE plane = None
    BY <1>7, <2>1, <2>2 DEF GetPlane, CaptureFails
  <2>3. CASE plane # None /\ Hit(plane)
    BY <1>7, <2>1, <2>3 DEF GetPlane, Hit
  <2>4. CASE plane # None /\ ~Hit(plane)
    BY <1>7, <2>1, <2>4 DEF GetPlane
  <2> QED
    BY <2>2, <2>3, <2>4
<1>8. CASE MapFramebuffer
  <2>1. fb # None
    BY <1>8 DEF MapFramebuffer, LookedAt
  <2>2. CASE Mappable(fbs[fb])
    <3>1. fb \in Ids /\ fbs[fb] \in Buffers
      BY <2>1, <2>2 DEF Mappable
    <3>2. mapping' \in Mappings /\ captured' \in Buffers
      BY <1>8, <2>2, <3>1 DEF MapFramebuffer
    <3> QED
      BY <1>8, <2>2, <3>2 DEF MapFramebuffer
  <2>3. CASE ~Mappable(fbs[fb])
    BY <1>8, <2>3 DEF MapFramebuffer, CaptureFails
  <2> QED
    BY <2>2, <2>3
<1> QED
  BY <1>1, <1>2, <1>3, <1>4, <1>5, <1>6, <1>7, <1>8 DEF Next, Thread, Environment

LEMMA KernelInv == ASSUME Inv, TypeOK', Environment PROVE Inv'
<1> USE NoneAssumption DEF Inv, PlaneShows, NothingYet, MappingValid, LookedAt, StaleOnlyByReuse,
    TypeOK, kernelVars, threadVars
<1>1. CASE CardAppears \/ ClientChanges
  BY <1>1 DEF CardAppears, ClientChanges
<1>2. ASSUME NEW i \in Ids, AddFb(i) PROVE Inv'
  <2>1. fbs' = [fbs EXCEPT ![i] = allocated + 1] /\ fbs[i] = None /\ allocated + 1 # None
    BY <1>2, BoundsAssumption DEF AddFb, Buffers
  <2>2. UNCHANGED <<plane, pc, captured, mapping, fb, scanned>>
    BY <1>2 DEF AddFb
  <2>3. ~reused' => ~reused /\ ~(mapping # None /\ mapping.fb = i) /\ ~(pc = "map" /\ fb = i)
    BY <1>2, Zenon DEF AddFb
  <2> QED
    BY <2>1, <2>2, <2>3 DEF Mappings
<1>3. ASSUME NEW i \in Ids, ShowFb(i) PROVE Inv'
  BY <1>3 DEF ShowFb
<1>4. ASSUME NEW i \in Ids, RemoveFb(i) PROVE Inv'
  BY <1>4 DEF RemoveFb, Mappings
<1> QED
  BY <1>1, <1>2, <1>3, <1>4 DEF Environment

LEMMA ThreadInv == ASSUME Inv, TypeOK', Thread PROVE Inv'
<1> USE NoneAssumption DEF Inv, PlaneShows, NothingYet, MappingValid, LookedAt, StaleOnlyByReuse,
    TypeOK, kernelVars
<1>1. CASE Idle \/ Tick
  BY <1>1 DEF Idle, Tick
<1>2. CASE FindCard \/ LocateCrtc \/ LocatePlane
  BY <1>2 DEF FindCard, LocateCrtc, LocatePlane, LocateFails
<1>3. CASE GetPlane
  <2>1. CASE plane = None
    BY <1>3, <2>1 DEF GetPlane, CaptureFails
  <2>2. CASE plane # None /\ Hit(plane)
    BY <1>3, <2>2 DEF GetPlane, Hit, Mappings
  <2>3. CASE plane # None /\ ~Hit(plane)
    BY <1>3, <2>3 DEF GetPlane
  <2> QED
    BY <2>1, <2>2, <2>3
<1>4. CASE MapFramebuffer
  <2>1. CASE Mappable(fbs[fb])
    BY <1>4, <2>1 DEF MapFramebuffer, Mappable
  <2>2. CASE ~Mappable(fbs[fb])
    BY <1>4, <2>2 DEF MapFramebuffer, CaptureFails
  <2> QED
    BY <2>1, <2>2
<1> QED
  BY <1>1, <1>2, <1>3, <1>4 DEF Thread

LEMMA InvInit == Init => Inv
  BY InitType DEF Init, Inv, PlaneShows, NothingYet, MappingValid, LookedAt, StaleOnlyByReuse

LEMMA InvStep == Inv /\ [Next]_vars => Inv'
<1> SUFFICES ASSUME Inv, [Next]_vars PROVE Inv'
  OBVIOUS
<1>1. TypeOK'
  BY TypeStep
<1>2. CASE UNCHANGED vars
  BY <1>1, <1>2 DEF vars, kernelVars, Inv, PlaneShows, NothingYet, MappingValid, LookedAt,
                    StaleOnlyByReuse
<1> QED
  BY <1>1, <1>2, KernelInv, ThreadInv DEF Next

\* Type correctness, and what the thread may rely on between two looks: it never
\* maps without an id, and a plane that is on has a framebuffer.
THEOREM FrameSourceTyped == Spec => []Inv
  BY InvInit, InvStep, PTL DEF Spec

\* The thread never maps without an id (`map` always finds one to give to GETFB2), and
\* what it maps or hands over is a buffer that was allocated.
THEOREM FrameSourceTypes == Spec => []TypeOK
  BY FrameSourceTyped, PTL DEF Inv

\* A frame is of a buffer that was on the plane since capture() looked there,
\* unless the kernel gave an id the thread remembers to another framebuffer: no
\* interleaving of mode changes, failing ioctls and clients has the thread show
\* an old picture otherwise.
THEOREM CaptureSound == Spec => []StaleOnlyByReuse
  BY FrameSourceTyped, PTL DEF Inv
=============================================================================
