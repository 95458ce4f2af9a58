--------------------------- MODULE ReceiverProofs ---------------------------
(***************************************************************************)
(* Machine-checked theorems about Receiver, for channels of any capacity,  *)
(* any limit of failures and any number of faults.                         *)
(***************************************************************************)
EXTENDS Receiver, TLAPS

(***************************************************************************)
(* Types, by who writes the variables: the select loop and read_track, and *)
(* the decode thread.                                                      *)
(***************************************************************************)
NetTyped ==
    /\ force_keyframe \in BOOLEAN
    /\ reader \in {"none", "run", "ended"} /\ lost \in BOOLEAN
    /\ kf \in 0 .. MaxPending /\ req \in 0 .. MaxPending
    /\ video \in BOOLEAN /\ pliRecent \in BOOLEAN
    /\ faults \in 0 .. MaxFaults
QueueTyped == aus \in Seq(Units) /\ Len(aus) <= AuCap
DecTyped ==
    /\ dpc \in {"recv", "decode", "gone"} /\ au \in Units
    /\ decoder \in Decoders /\ hw_failures \in 0 .. HwLimit - 1
    /\ reqRecent \in BOOLEAN /\ latest \in {"black", "clean", "smeared"}

LEMMA TypedParts == TypeOK <=> NetTyped /\ QueueTyped /\ DecTyped
  BY DEF TypeOK, NetTyped, QueueTyped, DecTyped

LEMMA FaultTyped ==
    ASSUME NetTyped, Fault \/ UNCHANGED faults
    PROVE  faults' \in 0 .. MaxFaults
  BY BoundsAssumption DEF NetTyped, Fault

LEMMA InitTyped == Init => TypeOK
<1> SUFFICES ASSUME Init PROVE NetTyped /\ QueueTyped /\ DecTyped
  BY TypedParts
<1>1. NetTyped
  <2>1. kf \in 0 .. MaxPending /\ req \in 0 .. MaxPending /\ faults \in 0 .. MaxFaults
    BY BoundsAssumption DEF Init
  <2> QED
    BY <2>1, Zenon DEF Init, NetTyped
<1>2. QueueTyped
  BY CapacityAssumption DEF Init, QueueTyped
<1>3. DecTyped
  <2>1. hw_failures \in 0 .. HwLimit - 1
    BY CapacityAssumption DEF Init
  <2>2. au \in Units /\ decoder \in Decoders /\ dpc \in {"recv", "decode", "gone"}
    BY DEF Init, NewDecoders, NoUnit, Units
  <2> QED
    BY <2>1, <2>2, Zenon DEF Init, DecTyped
<1> QED
  BY <1>1, <1>2, <1>3

LEMMA AnswerTyped ==
    ASSUME NetTyped, SendPli \/ AnswerRequest
    PROVE  /\ force_keyframe' \in BOOLEAN /\ pliRecent' \in BOOLEAN
           /\ faults' \in 0 .. MaxFaults
<1>1. CASE SendPli
  BY <1>1, FaultTyped DEF SendPli, NetTyped
<1>2. CASE UNCHANGED <<pliRecent, force_keyframe, faults>>
  BY <1>2 DEF NetTyped
<1> QED
  BY <1>1, <1>2 DEF AnswerRequest

\* The select loop, the clocks and read_track.
LEMMA NetStep ==
    ASSUME TypeOK, NetNext \/ PliIntervalElapses \/ UnitLost \/ UnitArrives
    PROVE  TypeOK'
<1> USE DEF NetTyped, QueueTyped, DecTyped
<1>0. NetTyped /\ QueueTyped /\ DecTyped
  BY TypedParts
<1>1. CASE OnTrack
  <2>1. force_keyframe' \in BOOLEAN /\ pliRecent' \in BOOLEAN /\ video' \in BOOLEAN
        /\ faults' \in 0 .. MaxFaults
    BY <1>0, <1>1, AnswerTyped, FaultTyped DEF OnTrack
  <2> QED
    BY <1>0, <1>1, <2>1, TypedParts DEF OnTrack, decVars, TypeOK
<1>2. CASE OnDecoderRequest \/ OnKeyframeRequest
  <2>1. force_keyframe' \in BOOLEAN /\ pliRecent' \in BOOLEAN /\ faults' \in 0 .. MaxFaults
    BY <1>0, <1>2, AnswerTyped DEF OnDecoderRequest, OnKeyframeRequest
  <2>2. kf' \in 0 .. MaxPending /\ req' \in 0 .. MaxPending
    <3>1. kf \in 0 .. MaxPending /\ req \in 0 .. MaxPending
      BY <1>0 DEF NetTyped
    <3>2. (req > 0 /\ req' = req - 1 /\ kf' = kf) \/ (kf > 0 /\ kf' = kf - 1 /\ req' = req)
      BY <1>2, Zenon DEF OnDecoderRequest, OnKeyframeRequest
    <3> HIDE DEF NetTyped
    <3> QED
      BY <3>1, <3>2, BoundsAssumption
  <2> QED
    BY <1>0, <1>2, <2>1, <2>2 DEF OnDecoderRequest, OnKeyframeRequest, decVars, TypeOK
<1>3. CASE PliIntervalElapses
  BY <1>0, <1>3 DEF PliIntervalElapses, decVars, TypeOK
<1>4. CASE UnitLost
  BY <1>0, <1>4, FaultTyped DEF UnitLost, decVars, TypeOK
<1>5. CASE UnitArrives
  <2>1. aus' \in Seq(Units) /\ Len(aus') <= AuCap
    <3>1. [key |-> force_keyframe, gap |-> lost] \in Units
      BY <1>0 DEF Units
    <3>2. CASE aus' = aus
      BY <1>0, <3>2
    <3>3. CASE Len(aus) < AuCap /\ aus' = Append(aus, [key |-> force_keyframe, gap |-> lost])
      BY <1>0, <3>1, <3>3, CapacityAssumption
    <3> QED
      BY <1>5, <3>2, <3>3 DEF UnitArrives
  <2>2. kf' \in 0 .. MaxPending
    BY <1>0, <1>5, BoundsAssumption DEF UnitArrives
  <2>3. faults' \in 0 .. MaxFaults
    BY <1>0, <1>5, FaultTyped DEF UnitArrives
  <2>4. lost' \in BOOLEAN /\ force_keyframe' \in BOOLEAN
    BY <1>0, <1>5 DEF UnitArrives
  <2>5. reader' \in {"none", "run", "ended"}
    BY <1>0, <1>5 DEF UnitArrives
  <2> QED
    BY <1>0, <1>5, <2>1, <2>2, <2>3, <2>4, <2>5 DEF UnitArrives, decVars, TypeOK
<1> QED
  BY <1>1, <1>2, <1>3, <1>4, <1>5 DEF NetNext

\* What the decode thread's request does.
LEMMA RequestTyped ==
    ASSUME NetTyped, DecTyped, RequestKeyframe
    PROVE  req' \in 0 .. MaxPending /\ reqRecent' \in BOOLEAN
<1>1. CASE reqRecent
  BY <1>1 DEF RequestKeyframe, NetTyped, DecTyped
<1>2. CASE ~reqRecent
  <2>1. req < MaxPending /\ req' = req + 1 /\ reqRecent' = TRUE
    BY <1>2 DEF RequestKeyframe
  <2>2. req' \in 0 .. MaxPending
    BY <2>1, BoundsAssumption DEF NetTyped
  <2> QED
    BY <2>1, <2>2
<1> QED
  BY <1>1, <1>2

\* What is left of NetTyped and the queue when the decode thread has dealt with a unit.
LEMMA DecRest ==
    ASSUME NetTyped, QueueTyped, UNCHANGED decRest, req' \in 0 .. MaxPending,
           Fault \/ UNCHANGED faults
    PROVE  NetTyped' /\ QueueTyped'
<1>1. faults' \in 0 .. MaxFaults
  BY FaultTyped
<1> QED
  BY <1>1 DEF decRest, netVars, NetTyped, QueueTyped

\* A decoder that was just made.
LEMMA NewTyped == \A kinds : NewDecoders(kinds) \subseteq Decoders
  BY DEF NewDecoders

\* The decode thread: hw_failures stays below its limit because what reaches the
\* limit is given up in the same step.
LEMMA DecStep ==
    ASSUME TypeOK, DecNext \/ RequestIntervalElapses
    PROVE  TypeOK'
<1>0. NetTyped /\ QueueTyped /\ DecTyped
  BY TypedParts
<1>1. CASE DecRecv
  <2>1. aus \in Seq(Units) /\ aus # <<>> /\ au' = Head(aus) /\ aus' = Tail(aus)
        /\ Len(aus) <= AuCap
    BY <1>0, <1>1 DEF DecRecv, QueueTyped
  <2>2. au' \in Units /\ aus' \in Seq(Units) /\ Len(aus') <= AuCap
    BY <2>1, CapacityAssumption
  <2> QED
    BY <1>0, <1>1, <2>2 DEF DecRecv, netVars, NetTyped, DecTyped, TypeOK
<1>2. CASE DecodeOk
  <2>1. PICK kind \in {decoder.kind, "sw"} :
            decoder' = [decoder EXCEPT !.kind = kind, !.pictures = TRUE, !.ref = NextRef]
    BY <1>2 DEF DecodeOk
  <2>2. kind \in Kinds /\ NextRef \in {"none", "clean", "damaged"}
    BY <1>0, <2>1 DEF DecTyped, Decoders, Kinds, NextRef
  <2>3. decoder' \in Decoders
    BY <1>0, <2>1, <2>2 DEF DecTyped, Decoders
  <2>4. hw_failures' \in 0 .. HwLimit - 1
    BY <1>2, CapacityAssumption DEF DecodeOk
  <2>5. latest' \in {"black", "clean", "smeared"}
    BY <1>0, <1>2 DEF DecodeOk, DecTyped
  <2>6. NetTyped' /\ QueueTyped'
    <3>1. req' \in 0 .. MaxPending /\ UNCHANGED decRest /\ (Fault \/ UNCHANGED faults)
      BY <1>0, <1>2 DEF DecodeOk, NetTyped
    <3> QED
      BY <1>0, <3>1, DecRest
  <2>7. DecTyped'
    BY <1>0, <1>2, <2>3, <2>4, <2>5 DEF DecodeOk, DecTyped
  <2> QED
    BY <2>6, <2>7 DEF TypeOK, NetTyped, QueueTyped, DecTyped
<1>3. CASE DecodeCorrupt
  <2>1. req' \in 0 .. MaxPending /\ reqRecent' \in BOOLEAN
    BY <1>0, <1>3, RequestTyped DEF DecodeCorrupt
  <2>2. decoder' \in Decoders /\ hw_failures' \in 0 .. HwLimit - 1
    <3>1. CASE IsHardware(decoder) /\ ~decoder.pictures /\ GivesUp(hw_failures + 1)
      BY <1>3, <3>1, NewTyped, CapacityAssumption DEF DecodeCorrupt, Fallback
    <3>2. CASE IsHardware(decoder) /\ ~decoder.pictures /\ ~GivesUp(hw_failures + 1)
      BY <1>0, <1>3, <3>2, CapacityAssumption DEF DecodeCorrupt, GivesUp, DecTyped
    <3>3. CASE ~(IsHardware(decoder) /\ ~decoder.pictures)
      BY <1>0, <1>3, <3>3 DEF DecodeCorrupt, DecTyped, Decoders
    <3> QED
      BY <3>1, <3>2, <3>3
  <2>3. NetTyped' /\ QueueTyped'
    BY <1>0, <1>3, <2>1, DecRest DEF DecodeCorrupt
  <2>4. DecTyped'
    BY <1>0, <1>3, <2>1, <2>2 DEF DecodeCorrupt, DecTyped
  <2> QED
    BY <2>3, <2>4 DEF TypeOK, NetTyped, QueueTyped, DecTyped
<1>4. CASE DecodeFatal
  <2>1. req' \in 0 .. MaxPending /\ reqRecent' \in BOOLEAN
    BY <1>0, <1>4, RequestTyped DEF DecodeFatal
  <2>2. decoder' \in Decoders /\ dpc' \in {"recv", "gone"}
    BY <1>0, <1>4, NewTyped DEF DecodeFatal, Fallback, DecTyped
  <2>3. Fault \/ UNCHANGED faults
    BY <1>0, <1>4 DEF DecodeFatal, DecTyped, Decoders, Kinds
  <2>4. NetTyped' /\ QueueTyped'
    BY <1>0, <1>4, <2>1, <2>3, DecRest DEF DecodeFatal
  <2>5. DecTyped'
    BY <1>0, <1>4, <2>1, <2>2 DEF DecodeFatal, DecTyped
  <2> QED
    BY <2>4, <2>5 DEF TypeOK, NetTyped, QueueTyped, DecTyped
<1>5. CASE DecodeNothing
  <2>1. decoder' = decoder \/ decoder' = [decoder EXCEPT !.ref = NextRef]
    BY <1>5 DEF DecodeNothing
  <2>2. decoder' \in Decoders
    <3>1. NextRef \in {"none", "clean", "damaged"}
      BY DEF NextRef
    <3> QED
      BY <1>0, <2>1, <3>1 DEF DecTyped, Decoders
  <2>3. hw_failures' \in 0 .. HwLimit - 1
    BY <1>5, CapacityAssumption DEF DecodeNothing
  <2>4. NetTyped' /\ QueueTyped'
    <3>1. req' \in 0 .. MaxPending /\ UNCHANGED decRest /\ UNCHANGED faults
      BY <1>0, <1>5 DEF DecodeNothing, NetTyped
    <3> QED
      BY <1>0, <3>1, DecRest
  <2>5. DecTyped'
    BY <1>0, <1>5, <2>2, <2>3 DEF DecodeNothing, DecTyped
  <2> QED
    BY <2>4, <2>5 DEF TypeOK, NetTyped, QueueTyped, DecTyped
<1>6. CASE RequestIntervalElapses
  BY <1>0, <1>6 DEF RequestIntervalElapses, netVars, TypeOK, NetTyped, QueueTyped, DecTyped
<1> QED
  BY <1>1, <1>2, <1>3, <1>4, <1>5, <1>6 DEF DecNext

\* The channels of the video path never hold more than their capacity, and a
\* hardware decoder that never gave a picture has always failed fewer than
\* HW_FAILURE_LIMIT times: the decode thread has fallen back to software before
\* the next unit.
THEOREM ReceiverTyped == Spec => []TypeOK
<1>1. TypeOK /\ UNCHANGED vars => TypeOK'
  BY DEF TypeOK, vars, netVars, decVars
<1>2. TypeOK /\ [Next]_vars => TypeOK'
  BY <1>1, NetStep, DecStep DEF Next
<1> QED
  BY <1>2, InitTyped, PTL DEF Spec
=============================================================================
