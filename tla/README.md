# A TLA+ verification of vmdesk

vmdesk shows the desktop of a Linux VM in a window on a laptop: a Rust server on
the VM captures the display, encodes it with OpenH264 and sends it over WebRTC; a
Rust client decodes and draws it and sends keys, buttons, wheel and cursor back.
This directory models both programs in TLA+ - the concurrent core, the input and
video paths end to end, the colour conversion, the wire format and the set-up
tool -, checks the models with TLC and proves with TLAPS every safety property that
TLC finds to hold.

Paths are relative to `src/`; `PROJECT.json` maps every definition to its lines.

## The system

| Part | Source | State | Operations | Talks to |
|---|---|---|---|---|
| Capture thread | `server/src/pipeline.rs` `capture_loop` | the picture at hand, hash of the last one sent, time of the last send | capture, convert, compare, take a spare buffer, `try_send` | `Shared`, one-slot frame channel, spare channel |
| Encoder thread | `encode_loop` | encoder and its size, `current_bitrate` | create the encoder, change its rate, encode, `blocking_send` to the sink | the same, and the queue of the attached session |
| `Shared` | `pipeline.rs` | `client_connected`, `force_keyframe`, `bitrate_kbps`, `active_session`, sink | atomics and one mutex | everything on the server |
| Session layer | `server/src/session.rs`, `signalling.rs` | registered connection, session and port counters, cached public address; per session four tasks | `accept_offer`, `run_session`, `read_data_channel`, `write_frames`, RTCP task | webrtc, `Shared`, the input sink |
| Input injection | `server/src/input/` | pressed keys and buttons, two uinput devices | key, button, wheel, move, release all | called by the readers and by `release_input` under a mutex |
| DRM capture | `server/src/capture.rs` | card, plane, mapped framebuffer | capture one frame, remap | capture thread |
| Colour conversion | `server/src/convert.rs` | none of its own; writes a frame that is reused | XRGB to I420 | capture thread |
| Encoder | `server/src/encoder/` | OpenH264 handle, bitrate, ceiling | encode, set_bitrate | encoder thread |
| Client window | `client/src/app.rs` | focus, pressed keys and buttons, wheel remainder, size, latest frame | one handler per window event, redraw | network thread (channel), decode thread (shared view) |
| Client network | `client/src/net.rs` | track, time of the last PLI, latest cursor position | select loop, `read_track`, channel tasks | window, decode thread, server |
| Client decoder | `client/src/decoder/` | decoder, failures in a row, time of the last request | decode, scale, publish, fall back, ask for a keyframe | network thread, window |
| Protocol | `proto/` | none | encode and decode messages, rewrite session descriptions | both programs |
| Set-up and diagnosis | `server/src/{main,config,setup,doctor}.rs` | files, kernel modules, firewall rules, services | `setup` (23 steps), `doctor`, `run` | the VM's disk and running system |
| Other tools | `server/src/{png_out,metadata}.rs` | none | write a PNG; look the public address up | files, HTTP |

What is hard here, and what must be true:

* **Keyframe requests.** A flag set by three kinds of task and swapped away by the
  encoder thread, which may at that moment work for the previous client, be blocked
  on a full queue, or fail. A lost request is a black or broken window until the
  next periodic keyframe. `KeyframeRequestKept`, `KeyframeServed`, `KeyframeArrives`;
  on the client, where two throttles discard requests, `PictureArrives`, `SmearCleared`.
* **Dropped and skipped frames.** Unchanged frames are skipped by hash; frames are
  dropped when the encoder is busy. Together they must not leave an old picture on
  the screen. `SkippedFrameWasHandedOver`, `LatestScreenShown`.
* **Cached knowledge.** `current_bitrate` stands for the encoder's rate, changed in
  two calls under a ceiling; `pressed_keys` (three copies) for the device; a
  framebuffer id for the mapped memory; a reused buffer for a new frame; the target
  size read before a resize for the window. `BitrateBelieved`, `TargetWithinCeiling`,
  `HeldIsPressed`, `StaleOnlyByReuse`, `FrameIsPicture`, `PictureFitted`.
* **The display comes and goes.** Modes change between two ioctls, the display
  server restarts: the capture thread finds the picture again. `FramesResume`.
* **Arithmetic.** Rates are multiplied and cast in 32 bits, colours shifted in fixed
  point and cast to a byte, the picture's place is computed twice in two number
  systems, wheel movements are carried over in fractions, ports go round a range,
  messages are bytes. `TargetWithinCeiling`, `LimitedRange`, `PointerOnPicture`,
  `WheelConserved`, `PortsRotate`, `Understood`, `Framed`.
* **Session replacement.** Handlers and tasks of several sessions interleave on a
  two-thread runtime, checking `active_session` and acting later; an HTTP client may
  hang up and take its handler with it. `LiveIsRegistered`, `LiveClientServed`,
  `LateInputBounded`, `AddressKept`, `OneClient`, `TeardownSparesNewer`.
* **Input when the user is away.** `AwayReleases`, `NoKeyWhileUnreachable`.
* **Set-up that is interrupted and run again.** `CompletedRunProvisions`,
  `RebootedSetupIsHealthy`, `ConfigKept`, `UpgradeKeepsServing`, `SetupCompletes`.
* **Ends.** Threads come to rest, tasks end. `IdleWithoutClient`,
  `ClosedSessionEnds`.

The complete list, at its source lines, is `hazards` in `PROJECT.json`.

## The modules

| Module | Models | Instance | Proofs |
|---|---|---|---|
| `Pipeline` | both pipeline threads, the two channels, `Shared`, session queues | `MCPipeline` | `PipelineProofs` |
| `KeyframeService` | abstract: what the pipeline promises about keyframes; `Pipeline` implements it | `MCPipeline` | `PipelineProofs` |
| `Session` | `accept_offer`, `run_session`, `read_data_channel` | `MCSession` | `SessionProofs` |
| `Sdp` | the session descriptions, as far as the server changes them; used by `Session` | `MCSession` | `SessionProofs` |
| `FrameSource` | locating the display, the cached framebuffer mapping, the kernel's ids | itself | `FrameSourceProofs` |
| `Convert` | the conversion to I420, pixel by pixel | `MCCapture` | `CaptureProofs` |
| `Capture` | `FrameSource` and `Convert` composed: the frame at hand and its reuse | `MCCapture` | `CaptureProofs` |
| `Wire` | the messages of both data channels as bytes | `MCClientInput` | `WireProofs` |
| `View` | where the picture is in the window and the cursor in the picture | `MCClientInput` | `ClientInputProofs` |
| `ClientInput` | window events, redraws, UI channel, network thread, data channels, the decode thread's scaling, `UinputSink`, devices; uses `Wire` and `View` | `MCClientInput` | `ClientInputProofs` |
| `Receiver` | `read_track`, PLI throttling, decode thread and its fallback | itself | `ReceiverProofs` |
| `Setup` | `server setup`, the configuration file, reboots, `server doctor` | itself | `SetupProofs` |

**Pipeline.** One action is one operation another thread can see, with the local
work after it: the program counters `capPc` and `encPc` follow the two loops,
`CapStart` being the load of the flags, `CapFrame` the capture, hash and skip
test, `CapSwap` the swap of buffers, `CapSend` the `try_send`; `EncRecv`,
`EncSwap`, `EncCreate`, `EncRate`, `EncEncode`, `EncSink`, `EncSend`, `EncStore`
and `EncSpare` follow `encode_loop`. A picture is a record of its bytes (`pixels`,
which is what the hash sees: a collision is not modelled) and its dimensions
(`size`, 0 for a display without an encodable size); two pictures may differ in the
dimensions only. Buffers are counted, not named. The encoder is its `size`, the
`kbps` it remembers, and OpenH264's target `rate` and `ceiling`, which
`AfterOptions` changes call by call, in the order the code chooses; the
multiplications saturate, and the casts wrap, where the code's do (`Saturated`,
`Clamped`, `AsI32`), with `IntMax` for the largest rate an `i32` holds. `Sess...`
are the operations of a session on `Shared`, in program order; the sessions come one
after the other. What may fail is listed in `Faults`; `halfrate` is a `set_bitrate`
whose second call fails. `owed` and `handed` are history: the attached client waits
for a keyframe; the picture last handed over since a client came. Frame pacing and
statistics are left out. Keyframes the encoder makes by itself, periodic ones
included, are a nondeterministic outcome of `EncEncode`.

**KeyframeService** has two variables: who is served, and whether its request is
answered (`none`), waits behind one frame already on its way (`inFlight`), or is
`due`. The refinement mapping (`Listener`, `Request` in `Pipeline`) is the whole
contract of `force_keyframe`: at most the frame that was past the encoder thread's
look at the flag goes out before the keyframe does.

**Session.** An offer stands for its request, connection, session and channel.
`hpc` follows `accept_offer`, `tpc` `run_session`, `rpc` `read_data_channel`; `PcEvents` are
queued from webrtc callbacks (`PeerChanges`, `ClosePc`) to the session task.
`HCancel` drops a handler at each of its awaits, the connection it was building with
it. The answer is a description of numbered lines (`Sdp`) with a candidate for each
interface, and the public address written over them if the metadata service gave one,
now or earlier; a candidate that then repeats an earlier one is left out, and its
number with it. With `Overlapping` two offers may be handled at the same time, as the HTTP
server allows. `late` and `raced` are history: `late` counts the messages of a session
that are applied after another one became active (`HActivate`). It does not count those
applied between the release of the old client's keys (`HRelease`) and that moment:
nothing bounds them (number 17 of the disagreements below).

**FrameSource** and **Capture.** The program counter follows the capture thread through
`wait_for_display` ("card", "crtc", "plane"), `capture` (GETPLANE and the test
whether the id is the mapped one) and `map_framebuffer`; an error drops the source
and its mapping, as `capture_loop` does. The display server and the kernel are
external: they create, show and remove framebuffers between any two ioctls, and an
id is given out again, the lowest free one first, once its framebuffer is removed.
`scanned` (what the plane has shown since `capture` looked at it) and `reused` (the
id the thread relies on was given to another framebuffer) are history. `Capture`
adds what each buffer shows and the frame it is converted into: after a hand-over
the thread goes on with a new frame or with any earlier picture, perhaps of another
size, as it comes back from the encoder thread. `Convert` is the arithmetic of
`convert.rs`, cropping to even sizes included. `Pipeline` takes from these modules
that a capture gives the current screen or fails.

**ClientInput.** From the physical key to the VM's device and back to `{}`:
`physical` is the user's hand, `pressed_keys` the window's set, `sink_keys` the
server's, `held` the device, `stuck` (history) what stays down because its own
release failed. `ui` is the channel of `UiCommand`s; `control` carries encoded
messages and is reliable and ordered, `mouse` is a set from which encoded positions
arrive in any order or not at all. The other half is the picture: `inner` is the
window's size, `resized` the events about it still to come, `target_size` and
`latest` what the window and the decode thread share, `scaling` the size a picture is
being scaled to, `shown` what a redraw put on the screen. The two halves meet where
a cursor position is computed from the latest frame. `SessionEnds` is the server's
`release_input` at the end of a session, in one step; its steps, and what may come
between them, are in `Session`. Both wheel axes are alike, so there is one.
A behaviour has the kinds of window events of one of its `Scenarios`. The handler of
buttons does not look at the focus; that a window without it gets no press, though it may
get a release, is an assumption about the window system (`MouseInput`).

**Wire.** Each message is encoded as the code does, by tag and little-endian fields,
and decoded with the code's checks and errors. A byte has `Radix` values: 256 in the
code, any even number above 16 in the proofs, 18 in TLC's run, where key codes up to 193
need both of their bytes as they do with 256.

**Receiver.** `aus` is the bounded channel of access units, `kf` and `req` the
requests of `read_track` and of the decode thread. The two throttles are the flags
`pliRecent` and `reqRecent` with an action for the passing of time. FFmpeg is
external: a picture that refers to a missing one is an error, or, if the decoder
is not `strict`, may be concealed; a unit may also be accepted without a picture
(`DecodeNothing`), which `run` takes for success. Periodic keyframes are left out
(`keyframe_interval = 0`, "only on request"): the server answers PLI only.

**Setup.** `Order` is the sequence of steps of a run. `disk` survives a reboot,
`live` is the running system, `run` the process and how it ended. Every step may
fail, with the consequence the code gives it: the run ends (`RunFails`), or goes on
with a note (`StepFails`); what it was writing may be torn (`HalfDone`), since
`fs::write` truncates first, except the binary, which is renamed into place. Of a
configuration that is cut off three things may be left (`TruncatedConfigs`): one that
does not load, the defaults for what is missing, or, cut within a number, other ports. The
administrator may edit the configuration, copy a new binary and run `setup` again.
`Booted` is what systemd, udev, lightdm and Xorg, all external, make of the disk.
`Doctor` is what `server doctor` would report.

## The runs

Two worker threads, seconds to about four minutes each.

| Run | Checks | Bounds |
|---|---|---|
| `pipeline_keyframe` | `TypeOK`, `BuffersBounded`, `KeyframeRequestKept`, `BitrateBelieved`, `TargetWithinCeiling`, `SkippedFrameWasHandedOver`, and that the pipeline implements `KeyframeService` (`KeyframeServed`) | one picture, two sessions, bitrates 1 and 4 (more than `MaxFactor` apart), one failure out of create, encode, rate, halfrate, capture |
| `pipeline_live` | `KeyframeArrives`, `IdleWithoutClient` | one picture, two sessions, one failing writer |
| `pipeline_static` | `LatestScreenShown` | two display modes whose pictures have the same bytes, one session, one failure out of encode, skip, unforced, capture |
| `session_replace` | `TypeOK`, `LiveIsRegistered`, `LiveClientServed`, `LateInputBounded`, `PortsRotate`, `AddressKept`, `ClosedSessionEnds` | two offers in turn, two connection events and two messages in all, two interfaces, two ports |
| `session_overlap` | refutes `OneClient` | two overlapping offers |
| `session_teardown` | refutes `TeardownSparesNewer` | two offers in turn |
| `session_unreachable` | refutes `NoKeyWhileUnreachable` | one offer, one key |
| `framesource_modes` | `TypeOK`, `StaleOnlyByReuse`, `FrameIsPicture`, `LimitedRange`, `FramesResume` | two framebuffers at a time, four buffers, one of them in a format that cannot be mapped; pictures of 3x3, 1x1, 4x2 and 2x4 pixels |
| `framesource_reuse` | refutes `SettledFrameIsCurrent` | two framebuffers at a time, three buffers |
| `input_keys` | `TypeOK`, `HeldIsPressed`, `WheelConserved`, `Understood`, `Framed`, `PointerOnPicture`, `AwayReleases`, `PictureFitted` | four scenarios of three or four window events each, one device, scaling or drawing failure |
| `receiver_video` | `TypeOK`, `PictureArrives`, `SmearCleared` | queue of two, fallback after two failures, two faults |
| `setup_runs` | `TypeOK`, `CompletedRunProvisions`, `RebootedSetupIsHealthy`, `ConfigKept`, `UpgradeKeepsServing`, `SetupCompletes` | two names of the card, two port ranges, two binaries, one edit, two faults |

Why these bounds are enough to be interesting. The queue of a session holds one
frame instead of eight and the access unit queue two instead of 32: full and empty
are the cases the code tells apart, and small queues are full more often. Two
sessions are what replacement is about; the third client meets the same code as
the second, and the theorems below hold for any number. Two pictures are what
"changed" needs; with the same bytes they are also the case the hash does not see.
One failure at any point, followed by any interleaving, covers every error path once;
the theorems drop this bound too. `IntMax` 13 is above three times every bitrate
of the runs (see below for those above it) and, like the code's 2147483, no multiple of
three. In `session_replace` two messages leave one admitted and one still queued when
the client is replaced, two ports with two offers reach the end of the range, and two
interfaces give the duplicates that the rewrite removes. `HW_FAILURE_LIMIT` 2 instead
of 8 reaches the fallback with a good and with a failing software decoder.

Two framebuffers at a time are a page flip; four buffers in a row let an id be reused
while the mapped buffer is gone, is on the plane, or is being mapped. Their pictures
are cropped (3x3), without an encodable size (1x1), and of two modes with as many
pixels (4x2, 2x4). Black and white columns reach the ends of luma and are averaged in the
chroma; whole blocks of red, blue, yellow and cyan reach its four ends. The window has bars at the sides (9x4) or above and below (4x7), or is
minimised; the video has two aspects; the cursor moves to a corner and to the middle, and
`PointerOnPicture` looks at every point. The wheel turns by half a notch one way and by
one and a half the other. The `Scenarios` keep apart what shares no variable
but the focus and the failures: keys and buttons, the wheel, the picture, the cursor on it.
`setup_runs` needs two faults for a run that fails in two places, or is interrupted and
rebooted; two names are what the by-path link is for. A display without an encodable size
is in no run of `Pipeline`; the theorems of `PipelineProofs`, which hold for every set of
screens, cover it.

Deadlock is checked in the Pipeline, FrameSource and Capture runs: their loops never
stop. The others disable it, since there the system may end or just wait: no
further offer, the window closed, the decode thread gone, or a configuration file
that no longer loads.

### Fairness

Weak fairness of each thread and task, because the operating system and tokio
schedule what is runnable, and of the passing of time (`SecondElapses`,
`PliIntervalElapses`, `RequestIntervalElapses`). No fairness of users, screens,
clients, offers, or failures. Beyond that:

* `Pipeline`: a session's writer drains its queue or is gone; both are code of the
  server. `pipeline_live` relies on it for the blocked encoder thread.
* `Session`: `pc.close()` is followed by a `Closed` event, as webrtc documents.
* `FrameSource` and `Capture`: only the thread is fair, nothing is assumed of the display
  server. `FramesResume` therefore asks for something to see that stays there.
* `ClientInput`: the connection is made and a reliable channel delivers, until
  `NetFails`, which may strike at any time; the server notices a client that has
  gone (`ClosedSessionEnds`); a `Resized` event and a redraw that was asked for are
  delivered; and pictures keep coming (`DecodePicture`), which is the once-a-second
  frame of `capture_loop`.
* `Receiver`: the server goes on sending, at least once a second while a client is
  connected (`capture_loop` skips unchanged frames for no longer). `PictureArrives`
  and `SmearCleared` also need the number of losses to be finite. `PictureArrives`
  leaves out a decoder that for ever accepts units and gives no picture: with it the
  window does stay black (number 18 of the disagreements below).
* `Setup`: a process that runs goes on, udev makes the link of a card that is there, and
  the administrator runs `setup` again until a run completes, the one assumption about
  a person, without which `SetupCompletes` would say nothing.

## The proofs

The theorems drop the bounds of the runs:

* `PipelineProofs`: every set of screens, sessions and bitrates, every queue capacity,
  any number of failures;
* `SessionProofs`: any number of offers, connection events and messages, any keys, ports
  and interfaces;
* `ClientInputProofs`: any keys, buttons, windows, video sizes and wheel movements, any
  number of events and failures;
* `SetupProofs`: any port ranges and card names, any number of binaries, edits, faults
  and reboots;
* `FrameSourceProofs`: any number of framebuffers and buffers in any formats;
  `CaptureProofs`: pictures of any size and colours;
* `WireProofs`: every message and any even size of a byte above 16, so also 256;
* `ReceiverProofs`: any channel capacity, any limit of failures, any number of faults.

The assumptions on the constants are the named `ASSUME`s of the modules. Two are
hypotheses of theorems instead. `NoSilentLoss` is explained below. `~Overlapping` says
that an offer arrives while no other is handled; without it `session_overlap` refutes
`OneClient`, two handlers may draw ids and ports in different orders, and one that is
slow to look up the address may answer with it after a later one gave up.

| Theorem | Says |
|---|---|
| `PipelineTyped`, `TypeCorrect` | `Spec => []TypeOK`, and the locals each thread relies on are set: `encoder.as_mut().expect("encoder present")` never panics |
| `BuffersReused` | `Spec => []BuffersBounded`: four buffers, none ever thrown away |
| `SkipSound` | `Spec => SkippedFrameWasHandedOver` |
| `BitrateTracked` | `Spec => []BitrateBelieved` |
| `CeilingHolds` | `Spec => []TargetWithinCeiling`: wherever a change is interrupted, OpenH264's target stays within its ceiling, for rates whose triple is an `i32` |
| `KeyframeKept` | `NoSilentLoss` gives `Spec => []KeyframeRequestKept` |
| `KeyframeServiceImplemented` | `NoSilentLoss` gives `Spec => KeyframeServed`: the pipeline implements `KeyframeService` |
| `SessionTyped` | `Spec => []TypeOK` of `Session` |
| `LateInputIsBounded` | `Spec => []LateInputBounded`, with offers overlapping or not: at most one message of a session after another one became active |
| `PortsAlwaysRotate` | `~Overlapping` gives `Spec => []PortsRotate` |
| `LiveIsAlwaysRegistered`, `OneClientAtATime` | `~Overlapping` gives `Spec => []LiveIsRegistered` and `Spec => []OneClient` |
| `LiveClientIsServed` | `~Overlapping` gives `Spec => []LiveClientServed` |
| `AddressIsKept` | `~Overlapping` gives `Spec => []AddressKept` |
| `InputTyped` | `Spec => []TypeOK` of `ClientInput` |
| `ServerUnderstands`, `MessagesAreDelimited` | `Spec => []Understood` and `Spec => []Framed` |
| `PointerFollowsPicture` | `Spec => []PointerOnPicture`, for windows and videos of every size |
| `HeldMatchesWindow` | `Spec => []HeldIsPressed` |
| `WheelAddsUp` | `Spec => []WheelConserved` |
| `SetupInvariant`, `SetupTyped` | `Spec => []Inv` and `Spec => []TypeOK` of `Setup` |
| `CompletedRunsProvision`, `RebootedSetupPasses` | `Spec => []CompletedRunProvisions` and `Spec => []RebootedSetupIsHealthy` |
| `ConfigIsKept`, `ServingGoesOn` | `Spec => ConfigKept` and `Spec => UpgradeKeepsServing` |
| `ReceiverTyped` | `Spec => []TypeOK` of `Receiver`: the fallback comes before the limit |
| `FrameSourceTyped`, `FrameSourceTypes` | `Spec => []Inv`: types, and what each place in the capture thread relies on; with it `Spec => []TypeOK` |
| `CaptureSound` | `Spec => []StaleOnlyByReuse` |
| `ReuseSound` | `FrameSpec => []FrameIsPicture`: a reused buffer shows nothing of its earlier picture |
| `RangeSound` | `FrameSpec => []LimitedRange`: no colour leaves the limited range or wraps |
| `MessagesRoundTrip` | every message and position is decoded to what was encoded, and fits in `MAX_ENCODED_LEN` |
| `MessagesFramed` | no message, cut short or with one byte more, decodes |

The argument. `IInv` is `TypeOK` with the facts that tie program counters to locals
(`LocalsOK`: who sends has something to send, who encodes has an encoder); it is
inductive, proved per thread (`CaptureIInv`, `EncoderIInv`, `SessionIInv`), the
Boolean variables first and by themselves, because the provers treat them
differently. `BuffersBounded` follows from counting: a buffer is allocated only
when no spare one is left. `SkipSound` needs `HashInv`: the remembered hash is that
of the picture last handed over.

`BitrateBelieved` and `TargetWithinCeiling` are proved together (`RateInv`). What
makes them inductive is `Margin`: a change that failed half-way leaves the target
below the bitrate set last, and the ceiling at least `MaxFactor` times as high. That
`set_bitrate` tells rising from falling rightly is arithmetic on casts
(`Conversions`, `NotRising`, `RisesIfHigher`).

`KeyframeRequestKept` is not inductive. `KInv` adds that who waits is attached to
the sink (`OwedAttached`), that only the installed session is (`SinkOwner`), that
a forced encode gave a keyframe (`ForcedIsKeyframe`) and that an encoder is created
with a risk of failing only when there is none yet (`CreateOnlyFirst`). Without
`SinkOwner` a frame for the previous session could be taken for the answer; without
`CreateOnlyFirst` a failed re-creation loses the flag, which is what the code
really does (below). `NoSilentLoss` names the three things that would break the
theorem: OpenH264 returns no frame or no IDR although one was forced, or creation
fails on a display with two sizes. With `KInv` every step of the pipeline maps to a
step of `KeyframeService` or to a stutter (`CaptureServes`, `EncoderServes`,
`SessionServes`).

In `Session`, `Base` holds however offers overlap: ids are unique (`UniqueIds`), a
link, a task and a reader exist only for an offer that was answered (`Answered`), and
a message applied late was the last its reader had admitted (`LateOnce`). `OneOffer`
is for a server that handles one offer at a time (`OneHandler`); its conjuncts are
proved one by one. `Rotation` ties `next_port` to the port of every session by the
distance of their ids; `Registered` says that nothing is in `current` from the moment
a handler takes the old connection until it publishes its own. `Served` needs to
know which tasks may still write what the pipeline reads (`RaceKnown`) and that
a connection comes up before it is lost (`ConnectsFirst`): otherwise a session
could be counted as connected without having installed its sink. `Addressed` says of
each answer from which description it was made, and that the public address is
looked up when the id is the latest; what the rewrite makes of a description
is `RewrittenLines`. The `HandlerFrame`, `PeerFrame`, `TaskFrame` and `ReaderFrame`
lemmas say once what a group of actions leaves alone.

In `ClientInput`, what the window holds and what the device holds differ by what is on
its way. `Chain` says that the commands in the UI channel, after the messages in
flight, lead from what the sink has to what the window has (`Effect`, `Reaches`: a
history of states, one per message, instead of a recursion). It is preserved because an
event changes the window's end and appends the message for it, the network thread moves
one message from the queue to the channel, and the sink takes the first one; where
messages are lost `missed` is set. `DownAccounted` says the same of sink and device,
where `stuck` is the difference; `ChannelEnds` and `QuitIsLast` say that nothing
follows the end of the channel or of the window. `HeldIsPressed` and `WheelConserved`
are the chain with nothing on its way. `PointerOnPicture` is about rounding: the
integers of `blit` and the rounded fractions of `video_rect` put the picture in the
same place (`Quotient`, `RoundedBounds`), without a bound on the sizes.

In `Setup`, `Provided` says what each of the 23 steps leaves behind, and `StepsLast`
that it still stands when the run is past that step, has completed, and, what is on
disk, after the reboot. It is inductive with what a run relies on from its start
(`RunStands`), with what the files can contain (`FileValues`), with what an enabled
service needs to start (`Serving`) and with what a boot brings up (`UpAfterBoot`).

`StaleOnlyByReuse` rests on two facts about what the thread remembers between two
looks at the plane: the id of its mapping (`MappingValid`) and the id it is about to
map (`LookedAt`) stand for the same buffer as before or for none, unless the id was
reused. They are part of `Inv`, whose preservation is proved apart for the
environment (`KernelInv`) and for the thread (`ThreadInv`).

`ReuseSound` comes down to `ConvertIsPicture`: whatever frame of whatever size it is
given, the conversion writes every offset of the planes it returns (`Cell`,
`BlockOf`: each offset is one pixel, or one block of two by two, of the cropped
image). `ColourInRange` bounds the three weighted sums before they are shifted.

The codec's theorems need that two digits determine a number and are determined by
it (`TwoDigits`, `Bytes16`, `Halves32`, and `SignedWrapped` for two's complement),
then go message by message.

Only model-checked: the liveness properties (`KeyframeArrives`, `IdleWithoutClient`,
`LatestScreenShown`, `ClosedSessionEnds`, `PictureArrives`, `SmearCleared`,
`AwayReleases`, `PictureFitted`, `FramesResume`, `SetupCompletes`), since TLAPS does
not handle fairness. Every invariant and every action property of the passing runs is
proved.

## Disagreements between the code and what it says of itself

Each of the first four is a run that TLC refutes; `findings` in `PROJECT.json` has
the quoted lines.

1. `session_overlap`: two offers handled at once both find no previous connection;
   both live on ("Only one client at a time").
2. `session_teardown`: a teardown that passed its check goes on after a newer
   session became active, and takes its video away. The same window lets a session
   that has passed its check on connecting overwrite what a newer one stored;
   `LiveClientServed` therefore leaves out who took over in it (`raced`).
3. `session_unreachable`: a key already received is pressed after the disconnection
   released all keys, and stays down.
4. `framesource_reuse`: a framebuffer that gets the id of the one still mapped is
   taken for it; the old picture stays until the id changes again ("Returns the
   current scanout buffer contents").
5. `session.rs:437`: a reconnection after a short loss runs the initialisation of
   `Connected` again and sets the bitrate back to the configured one.
6. `session.rs:188`: a handler that is dropped while it closes the previous connection
   leaves that one open and unregistered: no later offer finds it
   (`BeingReplaced` counts it as on its way out).
7. `pipeline.rs:254`: a failing `encoder::create` swallows the keyframe request when
   the display changes its size and back (the case `NoSilentLoss` excludes).
8. `pipeline.rs:161`: the frame hash ignores the dimensions, so a mode change with
   the same bytes counts as unchanged for up to a second; `LatestScreenShown` holds
   because of the frame a second.
9. `pipeline.rs:195`: "the newest frame wins" is not so: when the slot is full the
   frame just captured is dropped and the older one goes first.
10. `encoder/openh264.rs:303`: above 715827 kbit/s the old ceiling, cast to `i32`, is
   negative, every change counts as a raise, and lowering the rate lowers the ceiling
   first although "the target never exceeds it" (the case `RatesFit` excludes; only
   the configuration file can ask for such a rate).
11. `input/uinput.rs:223`: after a failed write `release_all` has forgotten what it did
   not release, and the buttons behind a failed keyboard write: they stay down
   (`stuck`) until they are pressed and released again.
12. `client/src/net.rs:425`: a request that goes with a dropped frame may be discarded
   by the throttle; when the decoder conceals the gap nobody asks again.
   `SmearCleared` therefore speaks of decoders that report it.
13. `client/src/app.rs:221`: while the frame is larger than a window just made smaller,
   `blit` shows its middle but `video_rect` spreads the cursor over the whole window;
   the next picture puts it right (`Fits` in `PointerOnPicture`).
14. `setup.rs:190`: a configuration file torn within a line stops every later run at
   `Config::load`, before any step that could repair it, although "it can be re-run"
   (the second disjunct of `SetupCompletes`).
15. `setup.rs:194`: if udev has not made the by-path link yet, Xorg is configured with
   the kernel's name of the card, which another boot may give to another card; the
   next run repairs it (the premise of `RebootedSetupIsHealthy`).
16. `setup.rs:247`: `iptables -C` finds the rule anywhere in the chain: one that is
   behind a `REJECT` counts as present and is not moved to the top. The model has
   a set of rules and does not show this.
17. `session.rs:187`: `accept_offer` releases the replaced client's keys first, then closes
   its connection, looks the address up and gathers candidates, for seconds, and changes
   `active_session` last (:303). Until then the old reader admits what it still has, and
   a key it presses stays down for the new client. `LateInputBounded` speaks only of what
   comes after :303.
18. `client/src/decoder/mod.rs:98`: a decoder that accepts every unit and gives no picture
   resets `hw_failures` and asks for nothing: no fallback, and a black window. Nor does
   "the client asks for one every few seconds" (`README.md:209`) hold then: it asks when the
   track starts, after an error, and when the queue is full, never by the clock. The last
   disjunct of `PictureArrives` excludes this case.
19. `setup.rs:302`: an XML file of XFCE that a run tore exists, so no later run repairs it,
   although "every step checks or overwrites its own file" (`setup.rs:3`).
   `CompletedRunProvisions` asks of these files only that they exist.
20. `setup.rs:190`: a configuration file cut within a number (`udp_port_min = 5`) loads with
   other ports than the administrator or the run had; later runs follow it and leave it
   untouched.

## Not modelled

* The PNG writer with its conversion, the window's title and statistics: formats and
  text without consequences for the rest.
* The inside of FFmpeg and OpenH264, RTP packets and SRTP, ICE, HTTP and JSON, TOML:
  libraries; what the code makes of their outcomes is in the models.
* Pitch and offset of a framebuffer and the choice between several cards; the
  parallel loop of the conversion, whose threads write disjoint rows.
* `doctor`'s checks of the public address, of the signalling port and of the encoder;
  `is_ice_lite`, which is only logged; the creation of the uinput devices.
* `Config::validate`: what it guarantees are assumptions on constants.
* No memory model: the atomics of `Shared` are sequentially consistent here; the
  code loads and stores the bitrate, and loads `client_connected`, with `Relaxed`,
  and uses release and acquire for the keyframe flag and `active_session`.
* Where only the other half of a pair matters one step stands for several: the
  server's end of a session in `ClientInput`, the sessions' operations in `Pipeline`,
  where sessions come one after the other. The races between sessions are in `Session`.

## Plan

Done, in this order: `Pipeline` with the encoder's bitrate and ceiling, and its
proofs; `Session`; `Receiver`; `ClientInput`; `FrameSource` and its proofs; then
cancelled handlers and the answer's candidates in `Session` with `Sdp`; the
refinement of `KeyframeService` and its proof; the 32-bit arithmetic of the encoder's
rates; `Setup`; the codec `Wire` and its proofs; `View` and the picture's half of
`ClientInput`; `Convert` and `Capture` and their proofs; then the proofs of `Session`,
`ClientInput`, `Setup` and `Receiver`. Next:

1. The safety halves of the liveness properties: of `PictureArrives`, that a unit
   queued after a loss is marked and that a request the throttles discard leaves
   somebody who will ask again; of `ClosedSessionEnds`, that a closed connection has its
   event queued until its task has seen it; of `FramesResume`, that the thread never
   waits in a place it cannot leave.
2. Overlapping offers: the strongest statement about `LiveIsRegistered` that holds of
   them.
3. The order of positions and buttons (`client/src/net.rs:312`): a position waits for the
   mouse tick and travels on another channel than the button press that follows it.
   Nothing in the code orders the two, so there is no property to state; the hazard
   is listed.
