------------------------------ MODULE Pipeline ------------------------------
(***************************************************************************)
(* The capture -> convert -> encode pipeline of vmdesk-server              *)
(* (server/src/pipeline.rs): the capture thread and the encoder thread,    *)
(* the one-slot frame channel and the spare-buffer channel between them,   *)
(* the state `Shared` with the session layer, and the bounded queue of     *)
(* encoded frames that each session's writer task drains.                  *)
(*                                                                         *)
(* One action is one operation on state that another thread can see (an    *)
(* atomic load, store or swap, a mutex-protected access, a channel         *)
(* operation) together with the thread-local work that follows it.         *)
(*                                                                         *)
(* Definitions named Mut... are deliberate faults: each is a plausible bug  *)
(* in the definition that follows it, which TLC must find when it replaces  *)
(* that definition.  No specification uses them.                           *)
(*                                                                         *)
(* The session layer appears here only as far as the pipeline sees it: the *)
(* operations of run_session and accept_offer on `Shared`, in their        *)
(* program order.  Session.tla models that layer itself.                   *)
(***************************************************************************)
EXTENDS Integers, Sequences, FiniteSets

CONSTANTS
    Screens,     \* what the scanout buffer may show: records [pixels, size]
    Sessions,    \* 1 .. n, in the order in which the sessions connect
    Bitrates,    \* values of Shared.bitrate_kbps
    ConfigRate,  \* config.video.bitrate_kbps
    IntMax,      \* i32::MAX in kbit/s: the encoder takes bit/s as an i32
    SinkCap,     \* capacity of a session's frame channel (8 in the code)
    Faults,      \* which external operations may fail, see FaultKinds
    MaxFaults,   \* bound: how many failures a behaviour has
    None         \* Rust's Option::None

FaultKinds ==
    {"capture", "create", "rate", "halfrate", "encode", "skip", "unforced", "writer"}

MaxFactor == 3  \* MAX_BITRATE_FACTOR

\* What goes through the frame channel.
Captured == [frame : Screens, keyframe : BOOLEAN]

\* i32::try_from(..).unwrap_or(i32::MAX)
Clamped(x) == IF x > IntMax THEN IntMax ELSE x

\* saturating_mul of a u32
Saturated(x) == IF x > 2 * IntMax + 1 THEN 2 * IntMax + 1 ELSE x

\* `as i32` of a u32
AsI32(x) == IF x > IntMax THEN x - 2 * IntMax - 2 ELSE x

\* Target and ceiling for a bitrate.
TargetOf(kbps) == Clamped(kbps)
CeilingOf(kbps) == Clamped(Saturated(MaxFactor * kbps))

\* An encoder: its size, the bitrate it was last set to (the field bitrate_kbps),
\* and the target and the ceiling that OpenH264 really has.
Encoders ==
    [size : {f.size : f \in Screens}, kbps : Bitrates,
     rate : {TargetOf(b) : b \in Bitrates}, ceiling : {CeilingOf(b) : b \in Bitrates}]

ASSUME ScreensAssumption == \A f \in Screens : f.size \in Nat /\ f.pixels # None
ASSUME SessionsAssumption == Sessions \subseteq Nat
ASSUME BitratesAssumption == Bitrates \subseteq Nat /\ ConfigRate \in Bitrates
ASSUME NoneAssumption ==
    None \notin Screens /\ None \notin Sessions /\ None \notin Captured /\ None \notin Encoders
ASSUME BoundsAssumption ==
    /\ SinkCap \in Nat \ {0}
    /\ IntMax \in Nat /\ IntMax % 3 # 0  \* as is 2147483, the i32::MAX of the code
    /\ MaxFaults \in Nat
    /\ Faults \subseteq FaultKinds

FrameCap == 1  \* mpsc::sync_channel::<Captured>(1)
SpareCap == 3  \* mpsc::sync_channel::<I420Frame>(3)

VARIABLES
    \* Shared
    client_connected, force_keyframe, bitrate_kbps, sink,
    \* the display
    screen,
    \* capture thread: program counter and locals
    capPc, current, keyframe, last_hash, sent1s, was_connected,
    \* the two channels between the threads (the spare buffers are a count)
    slot, spare,
    \* encoder thread: program counter and locals
    encPc, frame, force, encoder, current_bitrate, out, target,
    \* the session layer, as far as the pipeline sees it; the encoded frames
    \* waiting for a session's writer are a count
    sess, queue, open,
    \* bound on failures
    faults,
    \* history: the client attached to the sink waits for a keyframe; the frame
    \* last handed to the encoder thread since a client came
    owed, handed

sharedVars == <<client_connected, force_keyframe, bitrate_kbps, sink>>
capVars == <<capPc, current, keyframe, last_hash, sent1s, was_connected, handed>>
encVars == <<encPc, frame, force, encoder, current_bitrate, out, target>>
sessVars == <<sess, queue, open>>
vars == <<sharedVars, screen, capVars, slot, spare, encVars, sessVars, faults, owed>>

FlagsOK ==
    /\ client_connected \in BOOLEAN
    /\ force_keyframe \in BOOLEAN
    /\ keyframe \in BOOLEAN
    /\ sent1s \in BOOLEAN
    /\ was_connected \in BOOLEAN
    /\ force \in BOOLEAN
    /\ out \in BOOLEAN
    /\ owed \in BOOLEAN
    /\ open \in [Sessions -> BOOLEAN]

TypeOK ==
    /\ FlagsOK
    /\ bitrate_kbps \in Bitrates
    /\ sink \in Sessions \cup {None}
    /\ screen \in Screens
    /\ capPc \in {"check", "capture", "swap", "send"}
    /\ current \in Screens \cup {None}
    /\ last_hash \in {f.pixels : f \in Screens} \cup {None}
    /\ slot \in Captured \cup {None}
    /\ spare \in Nat
    /\ encPc \in {"recv", "swap", "create", "rate", "encode", "sink", "send", "store", "spare"}
    /\ frame \in Captured \cup {None}
    /\ encoder \in Encoders \cup {None}
    /\ current_bitrate \in Bitrates
    /\ target \in Sessions \cup {None}
    /\ sess \in [Sessions -> {"new", "install", "force", "enable", "up", "clear", "drain", "closed"}]
    /\ queue \in [Sessions -> 0 .. SinkCap]
    /\ faults \in Nat
    /\ handed \in Screens \cup {None}

\* Shared::new, spawn, and the locals of the two loops.  `current` is None while
\* the capture thread's buffer holds no picture it will send.
Init ==
    /\ client_connected = FALSE
    /\ force_keyframe = FALSE
    /\ bitrate_kbps = ConfigRate
    /\ sink = None
    /\ screen \in Screens
    /\ capPc = "check"
    /\ current = None
    /\ keyframe = FALSE
    /\ last_hash = None
    /\ sent1s = FALSE
    /\ was_connected = FALSE
    /\ slot = None
    /\ spare = 0
    /\ encPc = "recv"
    /\ frame = None
    /\ force = FALSE
    /\ encoder = None
    /\ current_bitrate = ConfigRate
    /\ out = FALSE
    /\ target = None
    /\ sess = [s \in Sessions |-> "new"]
    /\ queue = [s \in Sessions |-> 0]
    /\ open = [s \in Sessions |-> TRUE]
    /\ faults = 0
    /\ owed = FALSE
    /\ handed = None

\* An external operation of this kind fails; bounded by MaxFaults.
Fails(kind) ==
    /\ kind \in Faults
    /\ faults < MaxFaults
    /\ faults' = faults + 1

-----------------------------------------------------------------------------
(* The display *)

\* The VM draws something else, or changes the mode.
DrawScreen ==
    /\ screen' \in Screens \ {screen}
    /\ UNCHANGED <<sharedVars, capVars, slot, spare, encVars, sessVars, faults, owed>>

-----------------------------------------------------------------------------
(* The capture thread *)

\* last_sent.elapsed() reaches one second.
SecondElapses ==
    /\ ~sent1s
    /\ sent1s' = TRUE
    /\ UNCHANGED <<capPc, current, keyframe, last_hash, was_connected, handed>>
    /\ UNCHANGED <<sharedVars, screen, slot, spare, encVars, sessVars, faults, owed>>

\* No client: sleep 100 ms and look again.
CapIdle ==
    /\ capPc = "check"
    /\ ~client_connected
    /\ was_connected' = FALSE
    /\ UNCHANGED <<capPc, current, keyframe, last_hash, sent1s, handed>>
    /\ UNCHANGED <<sharedVars, screen, slot, spare, encVars, sessVars, faults, owed>>

MutCapStartUnguarded ==  \* captures without a client
    /\ capPc = "check"
    /\ was_connected' = TRUE
    /\ last_hash' = IF was_connected THEN last_hash ELSE None
    /\ handed' = IF was_connected THEN handed ELSE None
    /\ capPc' = "capture"
    /\ UNCHANGED <<current, keyframe, sent1s>>
    /\ UNCHANGED <<sharedVars, screen, slot, spare, encVars, sessVars, faults, owed>>

\* A client is there: forget the hash when it is new, pace, and open the
\* display if the last capture failed or there was none (wait_for_display
\* without a deadline retries for ever and cannot fail).
CapStart ==
    /\ capPc = "check"
    /\ client_connected
    /\ was_connected' = TRUE
    /\ last_hash' = IF was_connected THEN last_hash ELSE None
    /\ handed' = IF was_connected THEN handed ELSE None
    /\ capPc' = "capture"
    /\ UNCHANGED <<current, keyframe, sent1s>>
    /\ UNCHANGED <<sharedVars, screen, slot, spare, encVars, sessVars, faults, owed>>

\* Capturing fails: locate the display again.
CapFail ==
    /\ capPc = "capture"
    /\ Fails("capture")
    /\ capPc' = "check"
    /\ UNCHANGED <<current, keyframe, last_hash, sent1s, was_connected, handed>>
    /\ UNCHANGED <<sharedVars, screen, slot, spare, encVars, sessVars, owed>>

MutSkipForever(f, key) == last_hash = f.pixels /\ ~key  \* no frame per second

\* Whether the loop goes on to the next tick without handing the frame over.
\* The hash covers the three planes and not the dimensions.
Skip(f, key) == last_hash = f.pixels /\ ~key /\ ~sent1s

\* Capture, convert, hash, load the keyframe flag and decide.  The scanout is
\* read before the flag; no other thread reads or writes the two together.
CapFrame ==
    /\ capPc = "capture"
    /\ IF Skip(screen, force_keyframe)
         THEN /\ capPc' = "check"
              /\ UNCHANGED <<current, keyframe>>
         ELSE /\ capPc' = "swap"
              /\ current' = screen
              /\ keyframe' = force_keyframe
    /\ UNCHANGED <<last_hash, sent1s, was_connected, handed>>
    /\ UNCHANGED <<sharedVars, screen, slot, spare, encVars, sessVars, faults, owed>>

MutNeverTakeSpare == spare          \* always allocates
MutTakeSpareUnchecked == spare - 1  \* takes one that is not there

\* How many spare buffers are left when the capture thread has taken one; with
\* none there it allocates.
TakeSpare == IF spare > 0 THEN spare - 1 ELSE 0

\* spare_rx.try_recv(), or a new buffer.
CapSwap ==
    /\ capPc = "swap"
    /\ spare' = TakeSpare
    /\ capPc' = "send"
    /\ UNCHANGED <<current, keyframe, last_hash, sent1s, was_connected, handed>>
    /\ UNCHANGED <<sharedVars, screen, slot, encVars, sessVars, faults, owed>>

MutCapSendHashFirst ==  \* remembers the hash of a frame it dropped
    /\ capPc = "send"
    /\ capPc' = "check"
    /\ last_hash' = current.pixels
    /\ \/ /\ slot = None
          /\ slot' = [frame |-> current, keyframe |-> keyframe]
          /\ sent1s' = FALSE
          /\ handed' = current
       \/ /\ slot # None
          /\ UNCHANGED <<slot, sent1s, handed>>
    /\ current' = None
    /\ keyframe' = FALSE
    /\ UNCHANGED was_connected
    /\ UNCHANGED <<sharedVars, screen, spare, encVars, sessVars, faults, owed>>

\* frame_tx.try_send(captured): handed over, or dropped when the slot is taken.
CapSend ==
    /\ capPc = "send"
    /\ capPc' = "check"
    /\ \/ /\ slot = None
          /\ slot' = [frame |-> current, keyframe |-> keyframe]
          /\ last_hash' = current.pixels
          /\ sent1s' = FALSE
          /\ handed' = current
       \/ /\ slot # None
          /\ UNCHANGED <<slot, last_hash, sent1s, handed>>
    /\ current' = None
    /\ keyframe' = FALSE
    /\ UNCHANGED was_connected
    /\ UNCHANGED <<sharedVars, screen, spare, encVars, sessVars, faults, owed>>

CapNext == CapIdle \/ CapStart \/ CapFail \/ CapFrame \/ CapSwap \/ CapSend

-----------------------------------------------------------------------------
(* The encoder thread *)

\* frame_rx.recv(): a frame without pixels is thrown away with its buffer.
EncRecv ==
    /\ encPc = "recv"
    /\ slot # None
    /\ slot' = None
    /\ IF slot.frame.size = 0
         THEN UNCHANGED <<encPc, frame>>
         ELSE encPc' = "swap" /\ frame' = slot
    /\ UNCHANGED <<force, encoder, current_bitrate, out, target>>
    /\ UNCHANGED <<sharedVars, screen, capVars, spare, sessVars, faults, owed>>

MutEncSwapDropsFlag ==  \* clears the flag and looks only at the frame's own
    /\ encPc = "swap"
    /\ force' = frame.keyframe
    /\ force_keyframe' = FALSE
    /\ encPc' = IF encoder = None \/ (encoder # None /\ encoder.size # frame.frame.size)
                  THEN "create" ELSE "rate"
    /\ UNCHANGED <<frame, encoder, current_bitrate, out, target>>
    /\ UNCHANGED <<client_connected, bitrate_kbps, sink>>
    /\ UNCHANGED <<screen, capVars, slot, spare, sessVars, faults, owed>>

MutEncSwapCapturedFlag ==  \* relies on the flag the capture thread saw
    /\ encPc = "swap"
    /\ force' = frame.keyframe
    /\ force_keyframe' = (force_keyframe /\ ~frame.keyframe)
    /\ encPc' = IF encoder = None \/ (encoder # None /\ encoder.size # frame.frame.size)
                  THEN "create" ELSE "rate"
    /\ UNCHANGED <<frame, encoder, current_bitrate, out, target>>
    /\ UNCHANGED <<client_connected, bitrate_kbps, sink>>
    /\ UNCHANGED <<screen, capVars, slot, spare, sessVars, faults, owed>>

\* force_keyframe.swap(false), merged with what the capture thread saw.
EncSwap ==
    /\ encPc = "swap"
    /\ force' = (frame.keyframe \/ force_keyframe)
    /\ force_keyframe' = FALSE
    /\ encPc' = IF encoder = None \/ (encoder # None /\ encoder.size # frame.frame.size)
                  THEN "create" ELSE "rate"
    /\ UNCHANGED <<frame, encoder, current_bitrate, out, target>>
    /\ UNCHANGED <<client_connected, bitrate_kbps, sink>>
    /\ UNCHANGED <<screen, capVars, slot, spare, sessVars, faults, owed>>

\* OpenH264Encoder::initialize sets target and ceiling together.
NewEncoder(size, kbps) ==
    [size |-> size, kbps |-> kbps, rate |-> TargetOf(kbps), ceiling |-> CeilingOf(kbps)]

\* Whether set_bitrate takes the ceiling to be rising: it compares the new one,
\* clamped to an i32, with the old one cast to it.
Rises(old, kbps) == CeilingOf(kbps) > AsI32(Saturated(MaxFactor * old))

MutEncCreateNoForce ==  \* the new encoder does not start with a keyframe
    /\ encPc = "create"
    /\ encoder' = NewEncoder(frame.frame.size, bitrate_kbps)
    /\ current_bitrate' = bitrate_kbps
    /\ encPc' = "rate"
    /\ UNCHANGED <<frame, force, out, target>>
    /\ UNCHANGED <<sharedVars, screen, capVars, slot, spare, sessVars, faults, owed>>

MutEncCreateStaleRate ==  \* current_bitrate is not updated
    /\ encPc = "create"
    /\ encoder' = NewEncoder(frame.frame.size, bitrate_kbps)
    /\ force' = TRUE
    /\ encPc' = "rate"
    /\ UNCHANGED <<frame, current_bitrate, out, target>>
    /\ UNCHANGED <<sharedVars, screen, capVars, slot, spare, sessVars, faults, owed>>

\* encoder::create succeeds: the new stream starts with a keyframe.
EncCreate ==
    /\ encPc = "create"
    /\ encoder' = NewEncoder(frame.frame.size, bitrate_kbps)
    /\ current_bitrate' = bitrate_kbps
    /\ force' = TRUE
    /\ encPc' = "rate"
    /\ UNCHANGED <<frame, out, target>>
    /\ UNCHANGED <<sharedVars, screen, capVars, slot, spare, sessVars, faults, owed>>

\* encoder::create fails: the old encoder, if any, stays; the buffer goes back.
EncCreateFail ==
    /\ encPc = "create"
    /\ Fails("create")
    /\ encPc' = "spare"
    /\ UNCHANGED <<frame, force, encoder, current_bitrate, out, target>>
    /\ UNCHANGED <<sharedVars, screen, capVars, slot, spare, sessVars, owed>>

MutAfterOptionsSwapped(enc, kbps, calls) ==  \* the ceiling last when raising
    LET raise == Rises(enc.kbps, kbps) IN
    [size |-> enc.size,
     kbps |-> IF calls = 2 THEN kbps ELSE enc.kbps,
     rate |-> IF calls = 2 \/ raise THEN TargetOf(kbps) ELSE enc.rate,
     ceiling |-> IF calls = 2 \/ ~raise THEN CeilingOf(kbps) ELSE enc.ceiling]

\* set_bitrate after one or both of its two SetOption calls: it raises the ceiling
\* before the target and lowers it after.  No bitrate is below 100, to which
\* set_bitrate would raise it (Config::validate, and the clamp of SetBitrate).
AfterOptions(enc, kbps, calls) ==
    LET raise == Rises(enc.kbps, kbps) IN
    [size |-> enc.size,
     kbps |-> IF calls = 2 THEN kbps ELSE enc.kbps,
     rate |-> IF calls = 2 \/ ~raise THEN TargetOf(kbps) ELSE enc.rate,
     ceiling |-> IF calls = 2 \/ raise THEN CeilingOf(kbps) ELSE enc.ceiling]

\* Follow Shared.bitrate_kbps.  A failed change, at its first or its second call,
\* is tried again on the next frame; a change to what the encoder already has
\* returns early.
EncRate ==
    /\ encPc = "rate"
    /\ encPc' = "encode"
    /\ \/ /\ encoder' = IF bitrate_kbps \in {current_bitrate, encoder.kbps}
                          THEN encoder ELSE AfterOptions(encoder, bitrate_kbps, 2)
          /\ current_bitrate' = bitrate_kbps
          /\ UNCHANGED faults
       \/ /\ bitrate_kbps \notin {current_bitrate, encoder.kbps}
          /\ Fails("rate")
          /\ UNCHANGED <<encoder, current_bitrate>>
       \/ /\ bitrate_kbps \notin {current_bitrate, encoder.kbps}
          /\ Fails("halfrate")
          /\ encoder' = AfterOptions(encoder, bitrate_kbps, 1)
          /\ UNCHANGED current_bitrate
    /\ UNCHANGED <<frame, force, out, target>>
    /\ UNCHANGED <<sharedVars, screen, capVars, slot, spare, sessVars, owed>>

\* enc.encode gives an access unit.  A forced frame is an IDR; the encoder may
\* also make one of its own (keyframe_interval).
EncEncode ==
    /\ encPc = "encode"
    /\ encPc' = "sink"
    /\ \/ /\ out' \in {TRUE, force}
          /\ UNCHANGED faults
       \/ /\ Fails("unforced")  \* ForceIntraFrame failed, which is only logged
          /\ out' = FALSE
    /\ UNCHANGED <<frame, force, encoder, current_bitrate, target>>
    /\ UNCHANGED <<sharedVars, screen, capVars, slot, spare, sessVars, owed>>

\* Ok(None): the encoder produced nothing for this frame.
EncNothing ==
    /\ encPc = "encode"
    /\ Fails("skip")
    /\ encPc' = "spare"
    /\ UNCHANGED <<frame, force, encoder, current_bitrate, out, target>>
    /\ UNCHANGED <<sharedVars, screen, capVars, slot, spare, sessVars, owed>>

\* Err: drop the encoder, the next frame creates one.
EncFail ==
    /\ encPc = "encode"
    /\ Fails("encode")
    /\ encoder' = None
    /\ encPc' = "spare"
    /\ UNCHANGED <<frame, force, current_bitrate, out, target>>
    /\ UNCHANGED <<sharedVars, screen, capVars, slot, spare, sessVars, owed>>

\* shared.sink(): clone the sender that is installed now.
EncSink ==
    /\ encPc = "sink"
    /\ target' = sink
    /\ encPc' = IF sink # None THEN "send" ELSE IF force THEN "store" ELSE "spare"
    /\ UNCHANGED <<frame, force, encoder, current_bitrate, out>>
    /\ UNCHANGED <<sharedVars, screen, capVars, slot, spare, sessVars, faults, owed>>

\* sink.blocking_send(out): waits for room, or fails when the receiver is gone.
EncSend ==
    /\ encPc = "send"
    /\ encPc' = "spare"
    /\ \/ /\ open[target]
          /\ queue[target] < SinkCap
          /\ queue' = [queue EXCEPT ![target] = @ + 1]
          /\ owed' = (owed /\ ~(target = sink /\ out))
       \/ /\ ~open[target]
          /\ UNCHANGED <<queue, owed>>
    /\ UNCHANGED <<frame, force, encoder, current_bitrate, out, target>>
    /\ UNCHANGED <<sharedVars, screen, capVars, slot, spare, sess, open, faults>>

\* Nobody was listening: ask again for a keyframe.
EncStore ==
    /\ encPc = "store"
    /\ force_keyframe' = TRUE
    /\ encPc' = "spare"
    /\ UNCHANGED <<frame, force, encoder, current_bitrate, out, target>>
    /\ UNCHANGED <<client_connected, bitrate_kbps, sink>>
    /\ UNCHANGED <<screen, capVars, slot, spare, sessVars, faults, owed>>

\* spare_tx.try_send(frame): a full channel would drop the buffer.  The locals
\* of the iteration end here.
EncSpare ==
    /\ encPc = "spare"
    /\ spare' = IF spare < SpareCap THEN spare + 1 ELSE spare
    /\ encPc' = "recv"
    /\ frame' = None
    /\ out' = FALSE
    /\ target' = None
    /\ force' = FALSE
    /\ UNCHANGED <<encoder, current_bitrate>>
    /\ UNCHANGED <<sharedVars, screen, capVars, slot, sessVars, faults, owed>>

EncNext ==
    \/ EncRecv \/ EncSwap \/ EncCreate \/ EncCreateFail \/ EncRate
    \/ EncEncode \/ EncNothing \/ EncFail \/ EncSink \/ EncSend \/ EncStore \/ EncSpare

-----------------------------------------------------------------------------
(* The session layer: run_session of session s, and the accept_offer that  *)
(* replaces it.  A session connects after the ones before it are detached. *)

sessRest == <<screen, capVars, slot, spare, encVars, faults>>

\* PcEvent::Connection(Connected): bitrate, sink, keyframe flag, connected
\* flag, in this order.  It comes again after a transient disconnection.
SessBitrate(s) ==
    /\ \/ sess[s] = "new" /\ \A t \in Sessions : t < s => sess[t] \in {"drain", "closed"}
       \/ sess[s] = "up"
    /\ bitrate_kbps' = ConfigRate
    /\ sess' = [sess EXCEPT ![s] = "install"]
    /\ UNCHANGED <<client_connected, force_keyframe, sink, queue, open, owed, sessRest>>

SessInstall(s) ==
    /\ sess[s] = "install"
    /\ sink' = s
    /\ owed' = (owed /\ sink = s)
    /\ sess' = [sess EXCEPT ![s] = "force"]
    /\ UNCHANGED <<client_connected, force_keyframe, bitrate_kbps, queue, open, sessRest>>

SessForce(s) ==
    /\ sess[s] = "force"
    /\ force_keyframe' = TRUE
    /\ owed' = (owed \/ (sink = s /\ open[s]))
    /\ sess' = [sess EXCEPT ![s] = "enable"]
    /\ UNCHANGED <<client_connected, bitrate_kbps, sink, queue, open, sessRest>>

SessEnable(s) ==
    /\ sess[s] = "enable"
    /\ client_connected' = TRUE
    /\ sess' = [sess EXCEPT ![s] = "up"]
    /\ UNCHANGED <<force_keyframe, bitrate_kbps, sink, queue, open, owed, sessRest>>

\* The rtcp task: the client asked for a keyframe (PLI or FIR).  The task lives
\* until it is aborted.
SessPli(s) ==
    /\ sess[s] \in {"up", "clear", "drain"}
    /\ force_keyframe' = TRUE
    /\ owed' = (owed \/ (sink = s /\ open[s]))
    /\ UNCHANGED <<client_connected, bitrate_kbps, sink, sessVars, sessRest>>

\* ControlMessage::SetBitrate.
SessSetBitrate(s) ==
    /\ sess[s] = "up"
    /\ bitrate_kbps' \in Bitrates \ {bitrate_kbps}
    /\ UNCHANGED <<client_connected, force_keyframe, sink, sessVars, owed, sessRest>>

\* Teardown, or replacement by a new offer: connected flag first, then the sink.
SessDisable(s) ==
    /\ sess[s] = "up"
    /\ client_connected' = FALSE
    /\ sess' = [sess EXCEPT ![s] = "clear"]
    /\ UNCHANGED <<force_keyframe, bitrate_kbps, sink, queue, open, owed, sessRest>>

SessClear(s) ==
    /\ sess[s] = "clear"
    /\ sink' = None
    /\ owed' = FALSE
    /\ sess' = [sess EXCEPT ![s] = "drain"]
    /\ UNCHANGED <<client_connected, force_keyframe, bitrate_kbps, queue, open, sessRest>>

\* writer.abort(): the receiver is dropped with whatever is queued.
SessAbort(s) ==
    /\ sess[s] = "drain"
    /\ sess' = [sess EXCEPT ![s] = "closed"]
    /\ open' = [open EXCEPT ![s] = FALSE]
    /\ queue' = [queue EXCEPT ![s] = 0]
    /\ UNCHANGED <<sharedVars, owed, sessRest>>

\* write_frames: send the next access unit as RTP.
WriteFrame(s) ==
    /\ open[s]
    /\ queue[s] > 0
    /\ queue' = [queue EXCEPT ![s] = @ - 1]
    /\ UNCHANGED <<sess, open, sharedVars, owed, sessRest>>

\* write_frames: write_sample failed, the task returns and the session lives on.
WriterFails(s) ==
    /\ open[s]
    /\ queue[s] > 0
    /\ Fails("writer")
    /\ open' = [open EXCEPT ![s] = FALSE]
    /\ queue' = [queue EXCEPT ![s] = 0]
    /\ owed' = (owed /\ sink # s)
    /\ UNCHANGED <<sess, sharedVars, screen, capVars, slot, spare, encVars>>

\* Steps a running task takes on its own; the others wait for the client.
SessContinue(s) ==
    SessInstall(s) \/ SessForce(s) \/ SessEnable(s) \/ SessClear(s) \/ SessAbort(s)

SessNext(s) ==
    \/ SessBitrate(s) \/ SessPli(s) \/ SessSetBitrate(s) \/ SessDisable(s)
    \/ SessContinue(s) \/ WriteFrame(s) \/ WriterFails(s)

-----------------------------------------------------------------------------
Next ==
    \/ DrawScreen \/ SecondElapses \/ CapNext \/ EncNext
    \/ \E s \in Sessions : SessNext(s)

Spec == Init /\ [][Next]_vars

\* The two threads run, the clock advances, and a session's tasks finish what
\* they began.  Nothing is assumed of the client, the display or of failures.
Fairness ==
    /\ WF_vars(CapNext) /\ WF_vars(EncNext) /\ WF_vars(SecondElapses)
    /\ \A s \in Sessions : WF_vars(SessContinue(s)) /\ WF_vars(WriteFrame(s))

FairSpec == Spec /\ Fairness
-----------------------------------------------------------------------------
(* Properties *)

\* Buffers alive: the capture thread's `current`, the frame it is about to
\* send, the slot, the frame being encoded, and the spare ones.
Buffers ==
    1 + (IF capPc = "send" THEN 1 ELSE 0) + (IF slot # None THEN 1 ELSE 0)
      + (IF encPc # "recv" THEN 1 ELSE 0) + spare

\* However the two threads interleave, four I420 buffers are enough, so that
\* the spare channel has room for every buffer the encoder thread gives back:
\* `let _ = spare_tx.try_send(frame)` never throws one away.
BuffersBounded ==
    /\ Buffers <= SpareCap + 1
    /\ encPc = "spare" => spare < SpareCap

\* Where a keyframe request can be between the store that makes it and the
\* keyframe that answers it.
KeyframePending ==
    \/ force_keyframe
    \/ encoder = None
    \/ encPc \in {"create", "rate", "encode", "sink"} /\ force
    \/ encPc = "send" /\ target = sink /\ out

\* A keyframe request of the client attached to the sink (on connect, or by
\* PLI/FIR) is never forgotten before a keyframe is queued for that client:
\* neither by the encoder thread's swap, nor by a failing or recreated encoder,
\* nor by a session change while a frame is on its way to the previous sink.
KeyframeRequestKept == owed => KeyframePending

\* Whose queue takes the encoded frames.
Listener == IF sink # None /\ open[sink] THEN sink ELSE None

\* The frame in the encoder thread's hands may still reach the sink's client as
\* one that is not a keyframe.
DeltaInFlight ==
    \/ encPc = "rate" /\ ~force
    \/ encPc = "encode" /\ ~force
    \/ encPc = "sink" /\ ~out
    \/ encPc = "send" /\ target = sink /\ ~out

Request == IF ~owed THEN "none" ELSE IF DeltaInFlight THEN "inFlight" ELSE "due"

Service == INSTANCE KeyframeService WITH
    Clients <- Sessions,
    client  <- Listener,
    request <- Request

\* The pipeline implements KeyframeService: after a request at most the frame
\* that was already past the encoder thread's look at the flag goes out to the
\* client, and then the keyframe, whatever happens to encoder and sessions.
KeyframeServed == Service!Spec

\* "Unchanged frames are skipped": a frame is skipped only when its bytes are
\* those last handed to the encoder thread since the client came, never when
\* that hand-over was refused because the encoder was busy.  (It may be a picture of another size
\* with the same bytes: LatestScreenShown says that it is not lost.)
SkippedFrameWasHandedOver ==
    [][capPc = "capture" /\ capPc' = "check" /\ faults' = faults =>
          handed # None /\ handed.pixels = screen.pixels]_vars

\* The bitrate the encoder thread compares with Shared.bitrate_kbps is the one
\* its encoder runs at, after failed changes and after a recreation too; if it
\* were not, a requested change would be taken for done.  The one exception is a
\* change that failed half-way, which leaves the encoder at a lower rate.
BitrateBelieved ==
    encoder # None =>
        /\ encoder.kbps = current_bitrate
        /\ \/ encoder.rate = TargetOf(current_bitrate)
           \/ "halfrate" \in Faults /\ faults > 0 /\ encoder.rate < current_bitrate

\* Three times every bitrate is an i32 in bit/s (715827 kbit/s and less).
RatesFit == \A b \in Bitrates : MaxFactor * b <= IntMax

\* "Raise the ceiling first so the target never exceeds it": after any sequence
\* of changes up and down, each of which may fail between its two calls.  Above
\* RatesFit the cast makes the old ceiling negative and the order is wrong.
TargetWithinCeiling == RatesFit /\ encoder # None => encoder.rate <= encoder.ceiling

\* Whoever is attached to the sink and waits for a keyframe gets one, or is
\* detached: the second client too, when the encoder thread is still blocked on
\* the full queue of the first and the capture thread never saw it go.
KeyframeArrives == owed ~> ~owed

\* Once the screen stays as it is, the client that stays connected gets that
\* last picture, although frames are dropped while the encoder is busy, skipped
\* when unchanged or when another mode's picture has the same bytes, and lost
\* when encoding fails.
LatestScreenShown ==
    /\ <>[][screen' = screen]_vars
    /\ <>[](screen.size # 0 /\ client_connected /\ sink # None /\ open[sink])
    => /\ []<>(encPc = "send" /\ target = sink /\ frame.frame = screen)
       /\ <>[](encPc = "send" => frame.frame = screen)

\* "Both threads idle while no client is connected": no frame stays in the slot
\* and the encoder thread is not left blocked on the queue of the last session.
IdleWithoutClient ==
    <>[]~client_connected => <>[](capPc = "check" /\ encPc = "recv" /\ slot = None)

=============================================================================
