--------------------------- MODULE PipelineProofs ---------------------------
(***************************************************************************)
(* Machine-checked theorems about Pipeline, for any screens, sessions,     *)
(* bitrates, queue capacity and number of failures.                        *)
(***************************************************************************)
EXTENDS Pipeline, TLAPS

\* What the program counters of the two threads say about their locals.
LocalsOK ==
    /\ capPc \in {"swap", "send"} => current # None
    /\ encPc # "recv" => frame # None
    /\ encPc \in {"rate", "encode"} => encoder # None
    /\ encPc = "send" => target # None

IInv == TypeOK /\ LocalsOK

LEMMA InitIInv == Init => IInv
<1> SUFFICES ASSUME Init PROVE IInv
  OBVIOUS
<1>1. FlagsOK
  BY Zenon DEF Init, FlagsOK
<1>2. TypeOK
  BY <1>1, BitratesAssumption, BoundsAssumption DEF Init, TypeOK
<1> QED
  BY <1>2 DEF IInv, Init, LocalsOK

(***************************************************************************)
(* The Boolean variables stay Boolean.                                     *)
(***************************************************************************)
LEMMA CaptureFlags == FlagsOK /\ CapNext => FlagsOK'
<1> SUFFICES ASSUME FlagsOK, CapNext PROVE FlagsOK'
  OBVIOUS
<1> USE DEF FlagsOK, sharedVars, capVars, encVars, sessVars
<1>1. CASE CapIdle
  BY <1>1, Zenon DEF CapIdle
<1>2. CASE CapStart
  BY <1>2, Zenon DEF CapStart
<1>3. CASE CapFail
  BY <1>3, Zenon DEF CapFail
<1>4. CASE CapFrame
  BY <1>4, Zenon DEF CapFrame
<1>5. CASE CapSwap
  BY <1>5, Zenon DEF CapSwap
<1>6. CASE CapSend
  BY <1>6, Zenon DEF CapSend
<1> QED
  BY <1>1, <1>2, <1>3, <1>4, <1>5, <1>6
  DEF CapNext

LEMMA EncoderFlags == FlagsOK /\ EncNext => FlagsOK'
<1> SUFFICES ASSUME FlagsOK, EncNext PROVE FlagsOK'
  OBVIOUS
<1> USE DEF FlagsOK, sharedVars, capVars, encVars, sessVars
<1>1. CASE EncRecv
  BY <1>1, Zenon DEF EncRecv
<1>2. CASE EncSwap
  BY <1>2, Zenon DEF EncSwap
<1>3. CASE EncCreate
  BY <1>3, Zenon DEF EncCreate
<1>4. CASE EncCreateFail
  BY <1>4, Zenon DEF EncCreateFail
<1>5. CASE EncRate
  BY <1>5, Zenon DEF EncRate
<1>6. CASE EncEncode
  BY <1>6, Zenon DEF EncEncode
<1>7. CASE EncNothing
  BY <1>7, Zenon DEF EncNothing
<1>8. CASE EncFail
  BY <1>8, Zenon DEF EncFail
<1>9. CASE EncSink
  BY <1>9, Zenon DEF EncSink
<1>10. CASE EncSend
  BY <1>10, Zenon DEF EncSend
<1>11. CASE EncStore
  BY <1>11, Zenon DEF EncStore
<1>12. CASE EncSpare
  BY <1>12, Zenon DEF EncSpare
<1> QED
  BY <1>1, <1>2, <1>3, <1>4, <1>5, <1>6, <1>7, <1>8, <1>9, <1>10, <1>11, <1>12
  DEF EncNext

LEMMA SessionFlags == ASSUME NEW s \in Sessions, FlagsOK, SessNext(s) PROVE FlagsOK'
<1> USE DEF FlagsOK, sharedVars, capVars, encVars, sessVars, sessRest
<1>1. CASE SessBitrate(s)
  BY <1>1, Zenon DEF SessBitrate
<1>2. CASE SessPli(s)
  BY <1>2, Zenon DEF SessPli
<1>3. CASE SessSetBitrate(s)
  BY <1>3, Zenon DEF SessSetBitrate
<1>4. CASE SessDisable(s)
  BY <1>4, Zenon DEF SessDisable
<1>5. CASE SessInstall(s)
  BY <1>5, Zenon DEF SessInstall
<1>6. CASE SessForce(s)
  BY <1>6, Zenon DEF SessForce
<1>7. CASE SessEnable(s)
  BY <1>7, Zenon DEF SessEnable
<1>8. CASE SessClear(s)
  BY <1>8, Zenon DEF SessClear
<1>9. CASE SessAbort(s)
  BY <1>9, Zenon DEF SessAbort
<1>10. CASE WriteFrame(s)
  BY <1>10, Zenon DEF WriteFrame
<1>11. CASE WriterFails(s)
  BY <1>11, Zenon DEF WriterFails
<1> QED
  BY <1>1, <1>2, <1>3, <1>4, <1>5, <1>6, <1>7, <1>8, <1>9, <1>10, <1>11
  DEF SessNext, SessContinue

LEMMA FlagsStep == FlagsOK /\ [Next]_vars => FlagsOK'
<1> SUFFICES ASSUME FlagsOK, [Next]_vars PROVE FlagsOK'
  OBVIOUS
<1>1. CASE UNCHANGED vars
  BY <1>1, Zenon DEF FlagsOK, vars, sharedVars, capVars, encVars, sessVars
<1>2. CASE DrawScreen
  BY <1>2, Zenon DEF DrawScreen, FlagsOK, sharedVars, capVars, encVars, sessVars
<1>3. CASE SecondElapses
  BY <1>3, Zenon DEF SecondElapses, FlagsOK, sharedVars, capVars, encVars, sessVars
<1> QED
  BY <1>1, <1>2, <1>3, CaptureFlags, EncoderFlags, SessionFlags DEF Next

(***************************************************************************)
(* The rest of the invariant.                                              *)
(***************************************************************************)
LEMMA CaptureIInv == IInv /\ FlagsOK' /\ CapNext => IInv'
<1> SUFFICES ASSUME IInv, FlagsOK', CapNext PROVE IInv'
  OBVIOUS
<1> USE ScreensAssumption, NoneAssumption, BoundsAssumption
    DEF IInv, TypeOK, FlagsOK, LocalsOK, Captured, sharedVars, capVars, encVars, sessVars
<1>1. CASE CapIdle
  BY <1>1 DEF CapIdle
<1>2. CASE CapStart
  BY <1>2 DEF CapStart
<1>3. CASE CapFail
  BY <1>3 DEF CapFail, Fails
<1>4. CASE CapFrame
  BY <1>4 DEF CapFrame
<1>5. CASE CapSwap
  BY <1>5 DEF CapSwap, TakeSpare
<1>6. CASE CapSend
  BY <1>6 DEF CapSend
<1> QED
  BY <1>1, <1>2, <1>3, <1>4, <1>5, <1>6
  DEF CapNext

LEMMA NewEncoderType ==
  ASSUME NEW f \in Screens, NEW kbps \in Bitrates
  PROVE  NewEncoder(f.size, kbps) \in Encoders
  BY DEF NewEncoder, Encoders

\* What the clamped and wrapped conversions give.
LEMMA Conversions ==
  ASSUME NEW kbps \in Nat
  PROVE  /\ TargetOf(kbps) \in Nat /\ CeilingOf(kbps) \in Nat
         /\ MaxFactor * kbps <= IntMax => /\ TargetOf(kbps) = kbps
                                          /\ CeilingOf(kbps) = MaxFactor * kbps
  BY BoundsAssumption DEF TargetOf, CeilingOf, Clamped, Saturated, MaxFactor

\* A bitrate that is not taken to be rising is lower: the cast can only make the
\* old ceiling smaller.
LEMMA NotRising ==
  ASSUME NEW old \in Nat, NEW kbps \in Nat, kbps # old, ~Rises(old, kbps)
  PROVE  TargetOf(kbps) < TargetOf(old) /\ kbps < old
  BY BoundsAssumption DEF Rises, TargetOf, CeilingOf, Clamped, Saturated, AsI32, MaxFactor

\* Without overflow the comparison of the ceilings is one of the bitrates.
LEMMA RisesIfHigher ==
  ASSUME NEW old \in Nat, NEW kbps \in Nat,
         MaxFactor * old <= IntMax, MaxFactor * kbps <= IntMax
  PROVE  Rises(old, kbps) <=> kbps > old
  BY BoundsAssumption DEF Rises, CeilingOf, Clamped, Saturated, AsI32, MaxFactor

LEMMA EncoderRates ==
  ASSUME NEW enc \in Encoders
  PROVE  enc.kbps \in Nat /\ enc.rate \in Nat /\ enc.ceiling \in Nat
<1>1. enc.kbps \in Bitrates
  BY DEF Encoders
<1>2. PICK b \in Bitrates : enc.rate = TargetOf(b)
  BY DEF Encoders
<1>3. PICK c \in Bitrates : enc.ceiling = CeilingOf(c)
  BY DEF Encoders
<1> QED
  BY <1>1, <1>2, <1>3, BitratesAssumption, Conversions

\* set_bitrate gives an encoder of the same size, whatever calls succeed.
LEMMA AfterOptionsType ==
  ASSUME NEW enc \in Encoders, NEW kbps \in Bitrates, NEW calls \in {1, 2}
  PROVE  /\ AfterOptions(enc, kbps, calls) \in Encoders
         /\ AfterOptions(enc, kbps, calls).size = enc.size
<1> DEFINE after == AfterOptions(enc, kbps, calls)
<1>1. after = [size |-> enc.size, kbps |-> after.kbps, rate |-> after.rate, ceiling |-> after.ceiling]
  BY DEF AfterOptions, Encoders
<1>2. after.kbps \in {enc.kbps, kbps} /\ after.rate \in {enc.rate, TargetOf(kbps)}
  BY DEF AfterOptions, Encoders
<1>3. after.ceiling \in {enc.ceiling, CeilingOf(kbps)}
  BY DEF AfterOptions, Encoders
<1>4. enc.kbps \in Bitrates /\ enc.size \in {f.size : f \in Screens}
  BY DEF Encoders
<1>5. /\ enc.rate \in {TargetOf(b) : b \in Bitrates}
      /\ TargetOf(kbps) \in {TargetOf(b) : b \in Bitrates}
      /\ enc.ceiling \in {CeilingOf(b) : b \in Bitrates}
      /\ CeilingOf(kbps) \in {CeilingOf(b) : b \in Bitrates}
  BY DEF Encoders
<1> HIDE DEF after
<1>6. after \in Encoders /\ after.size = enc.size
  BY <1>1, <1>2, <1>3, <1>4, <1>5 DEF Encoders
<1> QED
  BY <1>6 DEF after

\* What its two calls do to target and ceiling, in the order that depends on
\* whether the bitrate rises.
LEMMA AfterOptionsRates ==
  ASSUME NEW enc \in Encoders, NEW kbps \in Bitrates
  PROVE  /\ AfterOptions(enc, kbps, 2).kbps = kbps
         /\ AfterOptions(enc, kbps, 2).rate = TargetOf(kbps)
         /\ AfterOptions(enc, kbps, 2).ceiling = CeilingOf(kbps)
         /\ AfterOptions(enc, kbps, 1).kbps = enc.kbps
         /\ Rises(enc.kbps, kbps) => /\ AfterOptions(enc, kbps, 1).rate = enc.rate
                                     /\ AfterOptions(enc, kbps, 1).ceiling = CeilingOf(kbps)
         /\ ~Rises(enc.kbps, kbps) => /\ AfterOptions(enc, kbps, 1).rate = TargetOf(kbps)
                                      /\ AfterOptions(enc, kbps, 1).ceiling = enc.ceiling
  BY DEF AfterOptions, Encoders

LEMMA EncoderIInv == IInv /\ FlagsOK' /\ EncNext => IInv'
<1> SUFFICES ASSUME IInv, FlagsOK', EncNext PROVE IInv'
  OBVIOUS
<1> USE ScreensAssumption, NoneAssumption, SessionsAssumption, BitratesAssumption, BoundsAssumption
    DEF IInv, TypeOK, FlagsOK, LocalsOK, Captured, Encoders, sharedVars, capVars, encVars, sessVars
<1>1. CASE EncRecv
  BY <1>1 DEF EncRecv
<1>2. CASE EncSwap
  BY <1>2 DEF EncSwap
<1>3. CASE EncCreate
  <2>1. frame \in Captured /\ encPc = "create" /\ encPc' = "rate"
    BY <1>3 DEF EncCreate
  <2>2. encoder' = NewEncoder(frame.frame.size, bitrate_kbps)
    BY <1>3 DEF EncCreate
  <2>3. encoder' \in Encoders /\ encoder' # None
    <3>1. frame.frame \in Screens /\ bitrate_kbps \in Bitrates
      BY <2>1
    <3> HIDE DEF Encoders, IInv, TypeOK
    <3> QED
      BY <2>2, <3>1, NoneAssumption, NewEncoderType
  <2>4. /\ current_bitrate' = bitrate_kbps /\ bitrate_kbps \in Bitrates
        /\ UNCHANGED <<frame, out, target, sharedVars, screen, capVars, slot, spare, sessVars, faults, owed>>
    BY <1>3 DEF EncCreate
  <2> HIDE DEF Encoders
  <2> QED
    BY <2>1, <2>3, <2>4
<1>4. CASE EncCreateFail
  BY <1>4 DEF EncCreateFail, Fails
<1>5. CASE EncRate
  <2>1. encoder \in Encoders /\ encPc' = "encode"
    BY <1>5 DEF EncRate
  <2>2. encoder' \in Encoders /\ encoder' # None
    <3>1. bitrate_kbps \in Bitrates /\ encoder # None
      BY <2>1, NoneAssumption
    <3>2. \/ encoder' = encoder
          \/ encoder' = AfterOptions(encoder, bitrate_kbps, 1)
          \/ encoder' = AfterOptions(encoder, bitrate_kbps, 2)
      BY <1>5, Zenon DEF EncRate
    <3> HIDE DEF Encoders, IInv, TypeOK
    <3> QED
      BY <2>1, <3>1, <3>2, NoneAssumption, AfterOptionsType
  <2>3. current_bitrate' \in Bitrates /\ faults' \in Nat
    BY <1>5 DEF EncRate, Fails
  <2> HIDE DEF Encoders
  <2> QED
    BY <1>5, <2>1, <2>2, <2>3 DEF EncRate
<1>6. CASE EncEncode
  <2>1. encPc = "encode" /\ encPc' = "sink" /\ (UNCHANGED faults \/ Fails("unforced"))
    BY <1>6, Zenon DEF EncEncode
  <2>2. /\ UNCHANGED <<frame, force, encoder, current_bitrate, target>>
        /\ UNCHANGED <<sharedVars, screen, capVars, slot, spare, sessVars, owed>>
    BY <1>6, Zenon DEF EncEncode
  <2> QED
    BY <2>1, <2>2 DEF Fails
<1>7. CASE EncNothing
  BY <1>7 DEF EncNothing, Fails
<1>8. CASE EncFail
  BY <1>8 DEF EncFail, Fails
<1>9. CASE EncSink
  BY <1>9 DEF EncSink
<1>10. CASE EncSend
  BY <1>10 DEF EncSend
<1>11. CASE EncStore
  BY <1>11 DEF EncStore
<1>12. CASE EncSpare
  BY <1>12 DEF EncSpare
<1> QED
  BY <1>1, <1>2, <1>3, <1>4, <1>5, <1>6, <1>7, <1>8, <1>9, <1>10, <1>11, <1>12
  DEF EncNext

LEMMA SessionIInv == ASSUME NEW s \in Sessions, IInv, FlagsOK', SessNext(s) PROVE IInv'
<1> USE NoneAssumption, SessionsAssumption, BitratesAssumption, BoundsAssumption
    DEF IInv, TypeOK, FlagsOK, LocalsOK, sharedVars, capVars, encVars, sessVars, sessRest
<1>1. CASE SessBitrate(s)
  BY <1>1 DEF SessBitrate
<1>2. CASE SessPli(s)
  BY <1>2 DEF SessPli
<1>3. CASE SessSetBitrate(s)
  BY <1>3 DEF SessSetBitrate
<1>4. CASE SessDisable(s)
  BY <1>4 DEF SessDisable
<1>5. CASE SessInstall(s)
  BY <1>5 DEF SessInstall
<1>6. CASE SessForce(s)
  BY <1>6 DEF SessForce
<1>7. CASE SessEnable(s)
  BY <1>7 DEF SessEnable
<1>8. CASE SessClear(s)
  BY <1>8 DEF SessClear
<1>9. CASE SessAbort(s)
  BY <1>9 DEF SessAbort
<1>10. CASE WriteFrame(s)
  BY <1>10 DEF WriteFrame
<1>11. CASE WriterFails(s)
  BY <1>11 DEF WriterFails, Fails
<1> QED
  BY <1>1, <1>2, <1>3, <1>4, <1>5, <1>6, <1>7, <1>8, <1>9, <1>10, <1>11
  DEF SessNext, SessContinue

LEMMA IInvStep == IInv /\ [Next]_vars => IInv'
<1> SUFFICES ASSUME IInv, [Next]_vars PROVE IInv'
  OBVIOUS
<1>1. FlagsOK'
  BY FlagsStep DEF IInv, TypeOK
<1>2. CASE UNCHANGED vars
  BY <1>2 DEF IInv, TypeOK, FlagsOK, LocalsOK, vars, sharedVars, capVars, encVars, sessVars
<1>3. CASE DrawScreen
  BY <1>1, <1>3 DEF DrawScreen, IInv, TypeOK, LocalsOK, sharedVars, capVars, encVars, sessVars
<1>4. CASE SecondElapses
  BY <1>1, <1>4 DEF SecondElapses, IInv, TypeOK, LocalsOK, sharedVars, capVars, encVars, sessVars
<1> QED
  BY <1>1, <1>2, <1>3, <1>4, CaptureIInv, EncoderIInv, SessionIInv DEF Next

\* Type correctness of the pipeline, and what its program counters promise
\* about the locals of the two threads: the capture thread never sends without
\* a picture, the encoder thread's `encoder.as_mut().expect("encoder present")`
\* never fails.
THEOREM PipelineTyped == Spec => []IInv
  BY InitIInv, IInvStep, PTL DEF Spec

\* The type invariant the runs check.
THEOREM TypeCorrect == Spec => []TypeOK
  BY PipelineTyped, PTL DEF IInv

(***************************************************************************)
(* Four buffers are enough.  The argument needs no history: a new buffer is *)
(* allocated only when no spare one is left, and then at most three can be  *)
(* elsewhere.                                                              *)
(***************************************************************************)
LEMMA SessionBuffers ==
  ASSUME NEW s \in Sessions, SessNext(s) PROVE UNCHANGED <<capPc, slot, spare, encPc>>
  BY Zenon DEF SessNext, SessContinue, SessBitrate, SessPli, SessSetBitrate, SessDisable,
     SessInstall, SessForce, SessEnable, SessClear, SessAbort, WriteFrame, WriterFails,
     capVars, encVars, sessRest

LEMMA BuffersStep == IInv /\ Buffers <= SpareCap + 1 /\ [Next]_vars => (Buffers <= SpareCap + 1)'
<1> SUFFICES ASSUME IInv, Buffers <= SpareCap + 1, [Next]_vars
             PROVE  (Buffers <= SpareCap + 1)'
  OBVIOUS
<1> USE DEF Buffers, SpareCap
<1>0. spare \in Nat
  BY DEF IInv, TypeOK
<1>1. CASE UNCHANGED <<capPc, slot, spare, encPc>>
  BY <1>1
<1>2. CASE CapNext
  <2>1. CASE CapIdle \/ CapStart \/ CapFail \/ CapFrame
    BY <1>0, <1>2, <2>1 DEF CapIdle, CapStart, CapFail, CapFrame, encVars
  <2>2. CASE CapSwap
    BY <1>0, <2>2 DEF CapSwap, TakeSpare, encVars
  <2>3. CASE CapSend
    BY <1>0, <2>3 DEF CapSend, encVars
  <2> QED
    BY <1>2, <2>1, <2>2, <2>3 DEF CapNext
<1>3. CASE EncNext
  <2>1. CASE EncRecv
    BY <1>0, <2>1 DEF EncRecv, capVars
  <2>2. CASE EncSpare
    BY <1>0, <2>2 DEF EncSpare, capVars
  <2>3. CASE \/ EncSwap \/ EncCreate \/ EncCreateFail \/ EncRate \/ EncEncode
             \/ EncNothing \/ EncFail \/ EncSink \/ EncSend \/ EncStore
    <3>1. UNCHANGED <<capPc, slot, spare>> /\ encPc # "recv" /\ encPc' # "recv"
      BY <2>3 DEF EncSwap, EncCreate, EncCreateFail, EncRate, EncEncode, EncNothing,
                  EncFail, EncSink, EncSend, EncStore, capVars
    <3> QED
      BY <3>1
  <2> QED
    BY <1>3, <2>1, <2>2, <2>3 DEF EncNext
<1>4. CASE DrawScreen \/ SecondElapses
  BY <1>1, <1>4 DEF DrawScreen, SecondElapses, capVars, encVars
<1>5. CASE UNCHANGED vars
  BY <1>1, <1>5 DEF vars, capVars, encVars
<1> QED
  BY <1>1, <1>2, <1>3, <1>4, <1>5, SessionBuffers DEF Next

\* At most four I420 buffers exist, and the spare channel is never full when
\* the encoder thread gives a buffer back: every buffer is reused.
THEOREM BuffersReused == Spec => []BuffersBounded
<1>1. Init => Buffers <= SpareCap + 1
  BY DEF Init, Buffers, SpareCap
<1>2. IInv /\ Buffers <= SpareCap + 1 => BuffersBounded
  BY DEF IInv, TypeOK, Buffers, SpareCap, BuffersBounded
<1> QED
  BY PipelineTyped, BuffersStep, <1>1, <1>2, PTL DEF Spec

(***************************************************************************)
(* A skipped frame was handed over.                                        *)
(***************************************************************************)
HashInv == last_hash # None => handed # None /\ last_hash = handed.pixels

LEMMA HashStep == IInv /\ HashInv /\ [Next]_vars => HashInv'
<1> SUFFICES ASSUME IInv, HashInv, [Next]_vars PROVE HashInv'
  OBVIOUS
<1> USE DEF HashInv
<1>1. CASE UNCHANGED <<last_hash, handed>>
  BY <1>1
<1>2. CASE CapSend
  BY <1>1, <1>2, NoneAssumption, Zenon DEF CapSend, IInv, TypeOK, LocalsOK
<1>3. CASE CapStart
  BY <1>1, <1>3 DEF CapStart
<1>4. CASE CapIdle \/ CapFail \/ CapFrame \/ CapSwap
  BY <1>1, <1>4, Zenon DEF CapIdle, CapFail, CapFrame, CapSwap
<1>5. CASE EncNext
  BY <1>1, <1>5, Zenon DEF EncNext, EncRecv, EncSwap, EncCreate, EncCreateFail, EncRate, EncEncode,
     EncNothing, EncFail, EncSink, EncSend, EncStore, EncSpare, capVars
<1>6. ASSUME NEW s \in Sessions, SessNext(s) PROVE UNCHANGED <<last_hash, handed>>
  BY <1>6, Zenon DEF SessNext, SessContinue, SessBitrate, SessPli, SessSetBitrate, SessDisable,
     SessInstall, SessForce, SessEnable, SessClear, SessAbort, WriteFrame, WriterFails,
     capVars, sessRest
<1>7. CASE DrawScreen \/ SecondElapses \/ UNCHANGED vars
  BY <1>1, <1>7, Zenon DEF DrawScreen, SecondElapses, vars, capVars
<1> QED
  BY <1>1, <1>2, <1>3, <1>4, <1>5, <1>6, <1>7 DEF Next, CapNext

\* The capture thread skips a frame only when the encoder thread was handed one
\* with the same bytes last.
THEOREM SkipSound == Spec => SkippedFrameWasHandedOver
<1> DEFINE Skipped == capPc = "capture" /\ capPc' = "check" /\ faults' = faults
<1> DEFINE Handed == handed # None /\ handed.pixels = screen.pixels
<1>1. IInv /\ HashInv /\ [Next]_vars => [Skipped => Handed]_vars
  <2> SUFFICES ASSUME IInv, HashInv, Next, Skipped PROVE Handed
    OBVIOUS
  <2>1. CASE CapFrame
    <3>1. last_hash = screen.pixels
      BY <2>1 DEF CapFrame, Skip
    <3>2. screen.pixels # None
      BY ScreensAssumption DEF IInv, TypeOK
    <3> QED
      BY <3>1, <3>2 DEF HashInv
  <2>2. CASE CapFail
    BY <2>2 DEF CapFail, Fails, IInv, TypeOK
  <2>3. CASE CapIdle \/ CapStart \/ CapSwap \/ CapSend
    BY <2>3 DEF CapIdle, CapStart, CapSwap, CapSend
  <2>4. CASE EncNext
    BY <2>4, Zenon DEF EncNext, EncRecv, EncSwap, EncCreate, EncCreateFail, EncRate, EncEncode,
       EncNothing, EncFail, EncSink, EncSend, EncStore, EncSpare, capVars
  <2>5. CASE DrawScreen \/ SecondElapses
    BY <2>5 DEF DrawScreen, SecondElapses, capVars
  <2> QED
    BY <2>1, <2>2, <2>3, <2>4, <2>5, SessionBuffers DEF Next, CapNext
<1>2. Init => HashInv
  BY DEF Init, HashInv
<1> QED
  BY PipelineTyped, HashStep, <1>1, <1>2, PTL DEF Spec, SkippedFrameWasHandedOver

(***************************************************************************)
(* The encoder's bitrate.                                                  *)
(***************************************************************************)
LEMMA FaultsGrow ==
    IInv /\ [Next]_vars => faults \in Nat /\ faults' \in Nat /\ faults' >= faults
<1> SUFFICES ASSUME IInv, [Next]_vars PROVE faults \in Nat /\ faults' \in Nat /\ faults' >= faults
  OBVIOUS
<1>1. faults \in Nat
  BY DEF IInv, TypeOK
<1>2. CASE UNCHANGED faults
  BY <1>1, <1>2
<1>3. ASSUME NEW kind, Fails(kind) PROVE faults' = faults + 1
  BY <1>3 DEF Fails
<1>4. CASE CapNext \/ DrawScreen \/ SecondElapses \/ UNCHANGED vars
  <2>1. UNCHANGED faults \/ Fails("capture")
    BY <1>4, Zenon DEF CapNext, CapIdle, CapStart, CapFail, CapFrame, CapSwap, CapSend,
       DrawScreen, SecondElapses, vars
  <2> QED
    BY <1>1, <1>2, <1>3, <2>1
<1>5. CASE EncNext
  <2>1. UNCHANGED faults \/ \E kind \in FaultKinds : Fails(kind)
    BY <1>5, Zenon DEF EncNext, EncRecv, EncSwap, EncCreate, EncCreateFail, EncRate, EncEncode,
       EncNothing, EncFail, EncSink, EncSend, EncStore, EncSpare, FaultKinds
  <2> QED
    BY <1>1, <1>2, <1>3, <2>1
<1>6. ASSUME NEW s \in Sessions, SessNext(s) PROVE UNCHANGED faults \/ Fails("writer")
  BY <1>6, Zenon DEF SessNext, SessContinue, SessBitrate, SessPli, SessSetBitrate, SessDisable,
     SessInstall, SessForce, SessEnable, SessClear, SessAbort, WriteFrame, WriterFails, sessRest
<1> QED
  BY <1>1, <1>2, <1>3, <1>4, <1>5, <1>6 DEF Next

\* Why the target stays below the ceiling: a change that failed half-way leaves
\* it below the bitrate last set, whose ceiling is three times as high.
Margin ==
    encoder # None => /\ encoder.rate <= TargetOf(encoder.kbps)
                      /\ RatesFit => MaxFactor * encoder.kbps <= encoder.ceiling

RateInv == BitrateBelieved /\ Margin

\* One bitrate change, from an encoder that satisfies the margin.
LEMMA ChangeKeepsMargin ==
  ASSUME NEW enc \in Encoders, NEW kbps \in Bitrates, NEW calls \in {1, 2}, kbps # enc.kbps,
         enc.rate <= TargetOf(enc.kbps),
         RatesFit => MaxFactor * enc.kbps <= enc.ceiling
  PROVE  LET after == AfterOptions(enc, kbps, calls)
         IN  /\ after.rate <= TargetOf(after.kbps)
             /\ RatesFit => MaxFactor * after.kbps <= after.ceiling
             /\ calls = 1 => after.rate = enc.rate \/ after.rate < TargetOf(enc.kbps)
<1>1. enc.kbps \in Bitrates /\ enc.kbps \in Nat /\ kbps \in Nat /\ enc.rate \in Nat /\ enc.ceiling \in Nat
  BY EncoderRates, BitratesAssumption DEF Encoders
<1>2. TargetOf(kbps) \in Nat /\ CeilingOf(kbps) \in Nat /\ TargetOf(enc.kbps) \in Nat
  BY <1>1, Conversions
<1>3. RatesFit => CeilingOf(kbps) = MaxFactor * kbps /\ (Rises(enc.kbps, kbps) <=> kbps > enc.kbps)
  BY <1>1, Conversions, RisesIfHigher DEF RatesFit
<1>4. ~Rises(enc.kbps, kbps) => TargetOf(kbps) < TargetOf(enc.kbps) /\ kbps < enc.kbps
  BY <1>1, NotRising
<1>5. CASE calls = 2
  BY <1>1, <1>2, <1>3, <1>5, AfterOptionsRates DEF MaxFactor
<1>6. CASE calls = 1 /\ Rises(enc.kbps, kbps)
  BY <1>1, <1>2, <1>3, <1>6, AfterOptionsRates DEF MaxFactor
<1>7. CASE calls = 1 /\ ~Rises(enc.kbps, kbps)
  BY <1>1, <1>2, <1>4, <1>7, AfterOptionsRates DEF MaxFactor
<1> QED
  BY <1>5, <1>6, <1>7

LEMMA RateStep == IInv /\ RateInv /\ [Next]_vars => RateInv'
<1> SUFFICES ASSUME IInv, RateInv, [Next]_vars PROVE RateInv'
  OBVIOUS
<1> USE DEF RateInv, BitrateBelieved, Margin
<1>0. faults \in Nat /\ faults' \in Nat /\ faults' >= faults
  BY FaultsGrow
<1>1. CASE UNCHANGED <<encoder, current_bitrate>>
  BY <1>0, <1>1
<1>2. CASE EncCreate
  <2>1. bitrate_kbps \in Bitrates /\ bitrate_kbps \in Nat
    BY BitratesAssumption DEF IInv, TypeOK
  <2>2. encoder' = NewEncoder(frame.frame.size, bitrate_kbps) /\ current_bitrate' = bitrate_kbps
    BY <1>2 DEF EncCreate
  <2>3. /\ encoder'.kbps = bitrate_kbps /\ encoder'.rate = TargetOf(bitrate_kbps)
        /\ encoder'.ceiling = CeilingOf(bitrate_kbps)
    BY <2>2 DEF NewEncoder
  <2>4. TargetOf(bitrate_kbps) \in Nat /\ MaxFactor * bitrate_kbps \in Nat
    BY <2>1, Conversions DEF MaxFactor
  <2>5. RatesFit => CeilingOf(bitrate_kbps) = MaxFactor * bitrate_kbps
    BY <2>1, Conversions DEF RatesFit
  <2> QED
    BY <2>1, <2>2, <2>3, <2>4, <2>5
<1>3. CASE EncRate
  <2>1. encoder \in Encoders /\ encoder # None /\ bitrate_kbps \in Bitrates
    BY <1>3 DEF EncRate, IInv, TypeOK, LocalsOK
  <2>2. /\ bitrate_kbps \in Nat /\ encoder.kbps \in Nat /\ encoder.rate \in Nat
        /\ encoder.ceiling \in Nat
    BY <2>1, EncoderRates, BitratesAssumption
  <2>3. CASE bitrate_kbps \in {current_bitrate, encoder.kbps}
    BY <1>0, <1>3, <2>1, <2>3 DEF EncRate
  <2>4. CASE /\ bitrate_kbps \notin {current_bitrate, encoder.kbps}
             /\ encoder' = AfterOptions(encoder, bitrate_kbps, 2) /\ current_bitrate' = bitrate_kbps
    BY <2>1, <2>2, <2>4, AfterOptionsRates, ChangeKeepsMargin
  <2>5. CASE UNCHANGED <<encoder, current_bitrate>>
    BY <1>0, <2>5
  <2>6. CASE /\ bitrate_kbps \notin {current_bitrate, encoder.kbps}
             /\ Fails("halfrate")
             /\ encoder' = AfterOptions(encoder, bitrate_kbps, 1)
             /\ UNCHANGED current_bitrate
    <3>1. faults' > 0 /\ "halfrate" \in Faults
      BY <1>0, <2>6 DEF Fails
    <3>2. /\ encoder'.kbps = encoder.kbps /\ encoder'.rate <= TargetOf(encoder'.kbps)
          /\ RatesFit => MaxFactor * encoder'.kbps <= encoder'.ceiling
          /\ encoder'.rate = encoder.rate \/ encoder'.rate < TargetOf(encoder.kbps)
      BY <2>1, <2>6, AfterOptionsRates, ChangeKeepsMargin
    <3>3. encoder.kbps = current_bitrate /\ TargetOf(encoder.kbps) <= encoder.kbps
      BY <2>1, <2>2, BoundsAssumption DEF TargetOf, Clamped
    <3>4. encoder'.rate \in Nat /\ TargetOf(encoder.kbps) \in Nat
      BY <2>1, <2>2, <2>6, AfterOptionsType, EncoderRates, Conversions
    <3> QED
      BY <1>0, <2>1, <2>2, <2>6, <3>1, <3>2, <3>3, <3>4
  <2> QED
    BY <1>3, <2>3, <2>4, <2>5, <2>6 DEF EncRate
<1>4. CASE EncFail
  BY <1>4 DEF EncFail
<1>5. CASE \/ EncRecv \/ EncSwap \/ EncCreateFail \/ EncEncode
           \/ EncNothing \/ EncSink \/ EncSend \/ EncStore \/ EncSpare
  BY <1>1, <1>5, Zenon DEF EncRecv, EncSwap, EncCreateFail, EncEncode, EncNothing, EncSink,
     EncSend, EncStore, EncSpare
<1>6. CASE CapNext \/ DrawScreen \/ SecondElapses \/ UNCHANGED vars
  BY <1>1, <1>6, Zenon DEF CapNext, CapIdle, CapStart, CapFail, CapFrame, CapSwap, CapSend,
     DrawScreen, SecondElapses, vars, encVars
<1>7. ASSUME NEW s \in Sessions, SessNext(s) PROVE UNCHANGED <<encoder, current_bitrate>>
  BY <1>7, Zenon DEF SessNext, SessContinue, SessBitrate, SessPli, SessSetBitrate, SessDisable,
     SessInstall, SessForce, SessEnable, SessClear, SessAbort, WriteFrame, WriterFails,
     encVars, sessRest
<1> QED
  BY <1>1, <1>2, <1>3, <1>4, <1>5, <1>6, <1>7 DEF Next, EncNext

\* The encoder thread's current_bitrate is the bitrate of its encoder, which after a
\* change that failed half-way may be lower.
THEOREM BitrateTracked == Spec => []BitrateBelieved
<1>1. Init => RateInv
  BY DEF Init, RateInv, BitrateBelieved, Margin
<1>2. RateInv => BitrateBelieved
  BY DEF RateInv
<1> QED
  BY PipelineTyped, RateStep, <1>1, <1>2, PTL DEF Spec

\* "Raise the ceiling first so the target never exceeds it": as long as three times
\* every bitrate is an i32, no sequence of bitrate changes, failing at either call,
\* takes the target of the encoder above its ceiling.
THEOREM CeilingHolds == Spec => []TargetWithinCeiling
<1>1. Init => RateInv
  BY DEF Init, RateInv, BitrateBelieved, Margin
<1>2. IInv /\ RateInv => TargetWithinCeiling
  <2> SUFFICES ASSUME IInv, RateInv, RatesFit, encoder # None
               PROVE  encoder.rate <= encoder.ceiling
    BY DEF TargetWithinCeiling
  <2>1. encoder \in Encoders
    BY DEF IInv, TypeOK
  <2>2. encoder.kbps \in Nat /\ encoder.rate \in Nat /\ encoder.ceiling \in Nat
    BY <2>1, EncoderRates
  <2>3. TargetOf(encoder.kbps) = encoder.kbps
    BY <2>1, <2>2, Conversions DEF RatesFit, Encoders
  <2> QED
    BY <2>2, <2>3 DEF RateInv, Margin, MaxFactor
<1> QED
  BY PipelineTyped, RateStep, <1>1, <1>2, PTL DEF Spec

(***************************************************************************)
(* No keyframe request is lost.  KeyframeRequestKept is not inductive by   *)
(* itself.  It also takes: who waits for a keyframe is attached to the     *)
(* sink and its queue has a reader; a sink belongs to a session that is    *)
(* not yet detached; what a forced encode produced is a keyframe; and the  *)
(* encoder is only replaced when there is none (one encodable size).       *)
(***************************************************************************)
OwedAttached == owed => sink # None /\ open[sink]
SinkOwner == \A s \in Sessions : sess[s] \in {"new", "drain", "closed"} => sink # s
ForcedIsKeyframe == encPc = "sink" /\ force => out
CreateOnlyFirst ==
    /\ frame # None => frame.frame.size # 0
    /\ encoder # None => encoder.size # 0
    /\ encPc = "create" /\ "create" \in Faults => encoder = None

KInv == KeyframeRequestKept /\ OwedAttached /\ SinkOwner /\ ForcedIsKeyframe /\ CreateOnlyFirst

\* What must not happen to a frame for the theorem to hold: openh264 gives
\* Ok(None), or ignores the forced intra frame, or a display with two encodable
\* sizes meets a failing encoder::create.
NoSilentLoss ==
    /\ "skip" \notin Faults
    /\ "unforced" \notin Faults
    /\ "create" \in Faults =>
         \A f, g \in Screens : f.size # 0 /\ g.size # 0 => f.size = g.size

LEMMA InitKInv == Init => KInv
  BY NoneAssumption
  DEF Init, KInv, KeyframeRequestKept, OwedAttached, SinkOwner, ForcedIsKeyframe, CreateOnlyFirst

LEMMA CaptureKInv == ASSUME IInv, KInv, CapNext \/ DrawScreen \/ SecondElapses \/ UNCHANGED vars
                     PROVE  KInv'
<1>1. UNCHANGED <<force_keyframe, sink, open, sess, owed, encPc, frame, force, encoder, out, target>>
  BY Zenon DEF CapNext, CapIdle, CapStart, CapFail, CapFrame, CapSwap, CapSend,
     DrawScreen, SecondElapses, vars, sharedVars, encVars, sessVars
<1> QED
  BY <1>1, Zenon DEF KInv, KeyframeRequestKept, KeyframePending, OwedAttached, SinkOwner,
     ForcedIsKeyframe, CreateOnlyFirst

LEMMA EncoderKInv == ASSUME NoSilentLoss, IInv, IInv', KInv, EncNext PROVE KInv'
<1> USE DEF KInv, KeyframeRequestKept, KeyframePending, OwedAttached, SinkOwner, ForcedIsKeyframe,
            CreateOnlyFirst, sharedVars, sessVars
<1>1. CASE EncRecv
  BY <1>1 DEF EncRecv
<1>2. CASE EncSwap
  <2>1. frame \in Captured /\ frame.frame \in Screens /\ frame.frame.size # 0
    BY <1>2 DEF EncSwap, IInv, TypeOK, LocalsOK, Captured
  <2>2. encPc' = "create" /\ "create" \in Faults => encoder = None
    BY <1>2, <2>1 DEF EncSwap, NoSilentLoss, IInv, TypeOK, Encoders
  <2> QED
    BY <1>2, <2>1, <2>2 DEF EncSwap
<1>3. CASE EncCreate
  BY <1>3 DEF EncCreate, NewEncoder, IInv, LocalsOK
<1>4. CASE EncCreateFail
  BY <1>4 DEF EncCreateFail, Fails
<1>5. CASE EncRate
  <2>1. encoder \in Encoders /\ encoder # None /\ bitrate_kbps \in Bitrates
    BY <1>5 DEF EncRate, IInv, TypeOK, LocalsOK
  <2>2. encoder'.size = encoder.size /\ encoder' # None
    BY <1>5, <2>1, AfterOptionsType, NoneAssumption DEF EncRate
  <2> QED
    BY <1>5, <2>1, <2>2 DEF EncRate, IInv, LocalsOK
<1>6. CASE EncEncode
  <2>1. encPc = "encode" /\ encPc' = "sink" /\ out' \in {TRUE, force}
    BY <1>6, Zenon DEF EncEncode, Fails, NoSilentLoss
  <2>2. /\ UNCHANGED <<frame, force, encoder, current_bitrate, target>>
        /\ UNCHANGED <<sharedVars, screen, capVars, slot, spare, sessVars, owed>>
    BY <1>6, Zenon DEF EncEncode
  <2>3. force => out'
    BY <2>1, Zenon
  <2> QED
    BY <2>1, <2>2, <2>3
<1>7. CASE EncNothing
  BY <1>7 DEF EncNothing, Fails, NoSilentLoss
<1>8. CASE EncFail
  BY <1>8 DEF EncFail
<1>9. CASE EncSink
  BY <1>9 DEF EncSink
<1>10. CASE EncSend
  <2>1. owed' => owed /\ (target = sink => ~out \/ ~open[target])
    BY <1>10, Zenon DEF EncSend
  <2>2. /\ encPc = "send" /\ encPc' = "spare"
        /\ UNCHANGED <<frame, force, encoder, current_bitrate, out, target>>
        /\ UNCHANGED <<sharedVars, screen, capVars, slot, spare, sess, open, faults>>
    BY <1>10, Zenon DEF EncSend
  <2> QED
    BY <2>1, <2>2
<1>11. CASE EncStore
  BY <1>11 DEF EncStore
<1>12. CASE EncSpare
  BY <1>12 DEF EncSpare
<1> QED
  BY <1>1, <1>2, <1>3, <1>4, <1>5, <1>6, <1>7, <1>8, <1>9, <1>10, <1>11, <1>12
  DEF EncNext

LEMMA SessionKInv == ASSUME NEW s \in Sessions, IInv, KInv, SessNext(s) PROVE KInv'
<1> USE NoneAssumption
    DEF KInv, KeyframeRequestKept, KeyframePending, OwedAttached, SinkOwner, ForcedIsKeyframe,
        CreateOnlyFirst, sharedVars, sessVars, encVars, sessRest, IInv, TypeOK, FlagsOK
<1>1. CASE SessBitrate(s)
  BY <1>1 DEF SessBitrate
<1>2. CASE SessPli(s)
  BY <1>2 DEF SessPli
<1>3. CASE SessSetBitrate(s)
  BY <1>3 DEF SessSetBitrate
<1>4. CASE SessDisable(s)
  BY <1>4 DEF SessDisable
<1>5. CASE SessInstall(s)
  BY <1>5 DEF SessInstall
<1>6. CASE SessForce(s)
  BY <1>6 DEF SessForce
<1>7. CASE SessEnable(s)
  BY <1>7 DEF SessEnable
<1>8. CASE SessClear(s)
  BY <1>8 DEF SessClear
<1>9. CASE SessAbort(s)
  BY <1>9 DEF SessAbort
<1>10. CASE WriteFrame(s)
  BY <1>10 DEF WriteFrame
<1>11. CASE WriterFails(s)
  BY <1>11 DEF WriterFails
<1> QED
  BY <1>1, <1>2, <1>3, <1>4, <1>5, <1>6, <1>7, <1>8, <1>9, <1>10, <1>11
  DEF SessNext, SessContinue

\* Unless a forced encode is silently lost, no interleaving of the two threads
\* with connecting, reconnecting and departing sessions, and no failing encoder,
\* makes the server forget a keyframe request of the client it sends to.
THEOREM KeyframeKept == ASSUME NoSilentLoss PROVE Spec => []KeyframeRequestKept
<1>1. IInv /\ IInv' /\ KInv /\ [Next]_vars => KInv'
  BY CaptureKInv, EncoderKInv, SessionKInv DEF Next
<1>2. KInv => KeyframeRequestKept
  BY DEF KInv
<1> QED
  BY PipelineTyped, InitKInv, <1>1, <1>2, PTL DEF Spec

(***************************************************************************)
(* The pipeline implements KeyframeService.                                *)
(***************************************************************************)
ServiceStep == [Service!Next]_Service!vars

LEMMA ServiceStutter == UNCHANGED <<Listener, Request>> => ServiceStep
  BY DEF ServiceStep, Service!vars

\* The client stays and its request goes on.
LEMMA RequestAdvances ==
  ASSUME UNCHANGED Listener,
         \/ Request' = Request
         \/ Request = "inFlight" /\ Request' = "due"
         \/ Request = "due" /\ Request' = "none"
         \/ Request = "none" /\ Request' # "none" /\ Listener # None
  PROVE  ServiceStep
<1>1. Request' \in {"none", "inFlight", "due"}
  BY DEF Request
<1> QED
  BY <1>1 DEF ServiceStep, Service!vars, Service!Next, Service!InFlightFrame, Service!Keyframe,
              Service!Ask

\* Another client is served, or nobody, and nothing is asked for.
LEMMA ListenerChanges ==
  ASSUME Listener' \in Sessions \cup {None}, Listener' # Listener, Request' = "none"
  PROVE  ServiceStep
<1>1. CASE Listener' = None
  BY <1>1 DEF ServiceStep, Service!Next, Service!Detach
<1>2. CASE Listener' \in Sessions
  BY <1>2 DEF ServiceStep, Service!Next, Service!Attach
<1> QED
  BY <1>1, <1>2

LEMMA CaptureServes == ASSUME CapNext \/ DrawScreen \/ SecondElapses \/ UNCHANGED vars
                       PROVE  ServiceStep
<1>1. UNCHANGED <<sink, open, owed, encPc, force, out, target>>
  BY Zenon DEF CapNext, CapIdle, CapStart, CapFail, CapFrame, CapSwap, CapSend,
     DrawScreen, SecondElapses, vars, sharedVars, encVars, sessVars
<1>2. UNCHANGED <<Listener, Request>>
  BY <1>1 DEF Listener, Request, DeltaInFlight
<1> QED
  BY <1>2, ServiceStutter

LEMMA EncoderServes == ASSUME NoSilentLoss, IInv, KInv, KInv', EncNext PROVE ServiceStep
<1> USE DEF Request, DeltaInFlight, sharedVars, sessVars
<1>1. UNCHANGED Listener
  BY Zenon DEF EncNext, EncRecv, EncSwap, EncCreate, EncCreateFail, EncRate, EncEncode,
     EncNothing, EncFail, EncSink, EncSend, EncStore, EncSpare, Listener
<1>2. CASE EncRecv
  BY <1>1, <1>2, RequestAdvances DEF EncRecv
<1>3. CASE EncSwap
  BY <1>1, <1>3, RequestAdvances DEF EncSwap, KInv, KeyframeRequestKept, KeyframePending
<1>4. CASE EncCreate
  BY <1>1, <1>4, RequestAdvances DEF EncCreate
<1>5. CASE EncCreateFail
  BY <1>1, <1>5, RequestAdvances DEF EncCreateFail
<1>6. CASE EncRate
  BY <1>1, <1>6, RequestAdvances DEF EncRate
<1>7. CASE EncEncode
  BY <1>1, <1>7, RequestAdvances DEF EncEncode, KInv, ForcedIsKeyframe
<1>8. CASE EncNothing
  BY <1>1, <1>8, RequestAdvances DEF EncNothing
<1>9. CASE EncFail
  BY <1>1, <1>9, RequestAdvances DEF EncFail
<1>10. CASE EncSink
  BY <1>1, <1>10, RequestAdvances DEF EncSink
<1>11. CASE EncSend
  <2>1. /\ encPc = "send" /\ encPc' = "spare" /\ UNCHANGED <<sink, open, target, out>>
        /\ owed' = owed \/ owed' = (owed /\ ~(target = sink /\ out))
        /\ open[target] => owed' = (owed /\ ~(target = sink /\ out))
    BY <1>11, Zenon DEF EncSend
  <2>2. ~DeltaInFlight'
    BY <2>1
  <2>3. DeltaInFlight <=> target = sink /\ ~out
    BY <2>1
  <2>4. owed /\ target = sink => open[target]
    BY DEF KInv, OwedAttached
  <2> HIDE DEF DeltaInFlight
  <2>5. CASE ~owed
    <3>0. ~owed'
      BY <2>1, <2>5
    <3>1. Request = "none" /\ Request' = "none"
      BY <2>5, <3>0, Zenon
    <3> QED
      BY <1>1, <3>1, RequestAdvances
  <2>6. CASE owed /\ target = sink /\ out
    <3>1. Request = "due" /\ Request' = "none"
      BY <2>1, <2>3, <2>4, <2>6, Zenon
    <3> QED
      BY <1>1, <3>1, RequestAdvances
  <2>7. CASE owed /\ target = sink /\ ~out
    <3>1. Request = "inFlight" /\ Request' = "due"
      BY <2>1, <2>2, <2>3, <2>4, <2>7, Zenon
    <3> QED
      BY <1>1, <3>1, RequestAdvances
  <2>8. CASE owed /\ target # sink
    <3>1. Request = "due" /\ Request' = "due"
      BY <2>1, <2>2, <2>3, <2>8, Zenon
    <3> QED
      BY <1>1, <3>1, RequestAdvances
  <2> QED
    BY <2>5, <2>6, <2>7, <2>8
<1>12. CASE EncStore
  BY <1>1, <1>12, RequestAdvances DEF EncStore
<1>13. CASE EncSpare
  BY <1>1, <1>13, RequestAdvances DEF EncSpare
<1> QED
  BY <1>2, <1>3, <1>4, <1>5, <1>6, <1>7, <1>8, <1>9, <1>10, <1>11, <1>12, <1>13 DEF EncNext

LEMMA SessionServes == ASSUME NEW s \in Sessions, IInv, KInv, SessNext(s) PROVE ServiceStep
<1> USE DEF sharedVars, sessVars, encVars, sessRest
<1>0. owed \in BOOLEAN /\ sink \in Sessions \cup {None} /\ open \in [Sessions -> BOOLEAN] /\ s # None
  BY NoneAssumption DEF IInv, TypeOK, FlagsOK
<1>1. CASE UNCHANGED <<sink, open, owed, encPc, force, out, target>>
  BY <1>1, ServiceStutter, Zenon DEF Listener, Request, DeltaInFlight
<1>2. CASE SessBitrate(s) \/ SessSetBitrate(s) \/ SessDisable(s) \/ SessEnable(s) \/ WriteFrame(s)
  BY <1>1, <1>2, Zenon DEF SessBitrate, SessSetBitrate, SessDisable, SessEnable, WriteFrame
<1>3. CASE SessInstall(s)
  <2>1. /\ sink' = s /\ owed' = (owed /\ sink = s)
        /\ UNCHANGED <<open, encPc, force, out, target>>
    BY <1>3, Zenon DEF SessInstall
  <2>2. CASE sink = s
    <3>1. owed' = owed /\ sink' = sink
      BY <1>0, <2>1, <2>2
    <3> QED
      BY <1>1, <2>1, <3>1, Zenon
  <2>3. CASE sink # s
    <3>1. ~owed' /\ Request' = "none"
      BY <2>1, <2>3, Zenon DEF Request
    <3>2. CASE Listener' = Listener
      BY <3>1, <3>2, <2>1, <2>3, <1>0 DEF ServiceStep, Service!vars, Listener, Request, KInv, OwedAttached
    <3>3. Listener' \in Sessions \cup {None}
      BY <2>1, <1>0 DEF Listener
    <3> QED
      BY <3>1, <3>2, <3>3, ListenerChanges
  <2> QED
    BY <2>2, <2>3
<1>4. CASE SessForce(s) \/ SessPli(s)
  <2>1. /\ owed' = (owed \/ (sink = s /\ open[s]))
        /\ UNCHANGED <<sink, open, encPc, force, out, target>>
    BY <1>4, Zenon DEF SessForce, SessPli
  <2>2. UNCHANGED <<Listener, DeltaInFlight>>
    BY <2>1, Zenon DEF Listener, DeltaInFlight
  <2>3. CASE owed' = owed
    BY <1>1, <2>1, <2>3, Zenon
  <2>4. CASE owed' # owed
    <3>1. ~owed /\ owed' /\ sink = s /\ open[s]
      BY <1>0, <2>1, <2>4
    <3>2. Request = "none" /\ Request' # "none" /\ Listener # None
      BY <1>0, <3>1 DEF Request, Listener
    <3> QED
      BY <2>2, <3>2, RequestAdvances
  <2> QED
    BY <2>3, <2>4
<1>5. CASE SessClear(s)
  <2>1. Listener' = None /\ Request' = "none"
    BY <1>5 DEF SessClear, Listener, Request
  <2>2. CASE Listener # None
    BY <2>1, <2>2, ListenerChanges
  <2>3. CASE Listener = None
    <3>1. ~owed
      BY <1>0, <2>3 DEF Listener, KInv, OwedAttached
    <3> QED
      BY <2>1, <2>3, <3>1, ServiceStutter DEF Request
  <2> QED
    BY <2>2, <2>3
<1>6. CASE SessAbort(s)
  <2>1. /\ sess[s] = "drain" /\ open' = [open EXCEPT ![s] = FALSE]
        /\ UNCHANGED <<sink, owed, encPc, force, out, target>>
    BY <1>6, Zenon DEF SessAbort
  <2>2. sink # s
    BY <2>1 DEF KInv, SinkOwner
  <2>3. UNCHANGED Listener
    BY <1>0, <2>1, <2>2 DEF Listener
  <2>4. UNCHANGED Request
    BY <2>1, Zenon DEF Request, DeltaInFlight
  <2> QED
    BY <2>3, <2>4, ServiceStutter
<1>7. CASE WriterFails(s)
  <2>1. /\ open[s] /\ open' = [open EXCEPT ![s] = FALSE] /\ owed' = (owed /\ sink # s)
        /\ UNCHANGED <<sink, encPc, force, out, target>>
    BY <1>7, Zenon DEF WriterFails
  <2>2. CASE sink = s
    <3>1. Listener # None /\ Listener' = None
      BY <1>0, <2>1, <2>2 DEF Listener
    <3>2. Request' = "none"
      BY <2>1, <2>2, Zenon DEF Request
    <3> QED
      BY <3>1, <3>2, ListenerChanges
  <2>3. CASE sink # s
    <3>1. UNCHANGED Listener
      BY <1>0, <2>1, <2>3 DEF Listener
    <3>2. owed' = owed
      BY <1>0, <2>1, <2>3
    <3>3. UNCHANGED Request
      BY <2>1, <3>2 DEF Request, DeltaInFlight
    <3> QED
      BY <3>1, <3>3, ServiceStutter
  <2> QED
    BY <2>2, <2>3
<1> QED
  BY <1>2, <1>3, <1>4, <1>5, <1>6, <1>7 DEF SessNext, SessContinue

\* Unless a forced encode is silently lost, the pipeline implements the abstract
\* service: between a request and its keyframe the client is sent at most one
\* frame, whatever the threads, the sessions and the encoder do.
THEOREM KeyframeServiceImplemented == ASSUME NoSilentLoss PROVE Spec => KeyframeServed
<1>1. Init => Service!Init
  BY DEF Init, Service!Init, Listener, Request
<1>2. IInv /\ KInv /\ KInv' /\ [Next]_vars => ServiceStep
  BY CaptureServes, EncoderServes, SessionServes DEF Next
<1>3. IInv /\ IInv' /\ KInv /\ [Next]_vars => KInv'
  BY CaptureKInv, EncoderKInv, SessionKInv DEF Next
<1> QED
  BY PipelineTyped, InitKInv, <1>1, <1>2, <1>3, PTL DEF Spec, KeyframeServed, Service!Spec, ServiceStep

=============================================================================
