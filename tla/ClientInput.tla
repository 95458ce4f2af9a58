---------------------------- MODULE ClientInput ----------------------------
(***************************************************************************)
(* Input from the client's window to the VM's virtual devices: the event   *)
(* handlers of client/src/app.rs, the input path of the select loop in     *)
(* client/src/net.rs, the two data channels, read_data_channel of          *)
(* server/src/session.rs and UinputSink of server/src/input/uinput.rs.     *)
(*                                                                         *)
(* Keys and buttons travel over the ordered control channel, positions     *)
(* are coalesced and travel over the lossy, unordered mouse channel.       *)
(* The client and the server each keep the set of what is pressed; the     *)
(* device has a third one.  The end of a session on the server is module   *)
(* Session; here the client's side of it is its last messages.             *)
(*                                                                         *)
(* What travels are bytes, encoded and decoded as in module Wire.  Key     *)
(* codes and button codes are taken apart from each other, so that one set *)
(* holds what is pressed.                                                  *)
(*                                                                         *)
(* Definitions named Mut... are deliberate faults: each is a plausible bug *)
(* in the definition that follows it, which TLC must find when it replaces *)
(* that definition.  No specification uses them.                           *)
(***************************************************************************)
EXTENDS View

CONSTANTS
    Keys, Buttons,  \* protocol key codes and mouse buttons
    Unmapped,       \* keys for which to_evdev has no code
    Windows,        \* sizes of the window; a minimised one is <<0, 0>>
    StartWindow,    \* the size it is created with
    Sources,        \* sizes of the video, the VM's display modes
    StartMode,      \* the display's first mode
    Points,         \* points of the window the cursor moves to
    NoPosition,     \* the None of latest_mouse
    Deltas,         \* wheel movements, in fractions of a notch
    Notch,          \* fractions per notch
    WheelMax,       \* largest wheel message (1000 in the code)
    Version,        \* PROTOCOL_VERSION
    StartBitrate,   \* bitrate_kbps of the client's options, 0 for none
    Failures,       \* operations of the devices that may fail, see FailureKinds
    Scenarios,      \* bound: which kinds of window events one behaviour has, and how many
    MaxFailures     \* bound: failing device operations

FailureKinds == {"press", "release", "wheel", "move", "scale", "present"}
EventKinds == {"key", "button", "wheel", "focus", "cursor", "resize", "mode", "close", "failure"}

ASSUME InputsAssumption ==
    /\ Keys \subseteq KeyCodes /\ Buttons \subseteq ButtonCodes
    /\ Keys \cap Buttons = {} /\ Unmapped \subseteq Keys
ASSUME SizesAssumption ==
    /\ Windows \subseteq Nat \X Nat /\ StartWindow \in Windows
    /\ Sources \subseteq (Nat \ {0}) \X (Nat \ {0}) /\ StartMode \in Sources
    /\ Points \subseteq Nat \X Nat
ASSUME PositionsAssumption == NoPosition \notin MouseMoves
ASSUME GreetingAssumption == Version \in U16 /\ StartBitrate \in U32
ASSUME WheelAssumption == Notch \in Nat \ {0} /\ WheelMax \in 1 .. Word \div 2 - 1 /\ Deltas \subseteq Int
ASSUME FailuresAssumption == Failures \subseteq FailureKinds
ASSUME BoundsAssumption ==
    Scenarios \subseteq [kinds : SUBSET EventKinds, events : Nat] /\ MaxFailures \in Nat

VARIABLES
    \* the user: what is physically held down, how far the wheel was turned
    physical, turned,
    \* App: has focus, pressed_keys and pressed_buttons, wheel_acc, still running
    focused, pressed_keys, pressed_buttons, wheel_acc, app,
    \* the window: its size, Resized events to come, a redraw to come, what it shows
    inner, resized, redraw, shown,
    \* SharedView: target_size, the size of latest
    target_size, latest,
    \* decode thread: the size of the video, the size it is scaling a picture to
    source, scaling,
    \* the channel of UiCommands
    ui,
    \* network thread: running, latest_mouse, the control channel's task
    net, latest_mouse, channel,
    \* encoded messages in flight on the two data channels
    control, mouse,
    \* UinputSink: pressed_keys and pressed_buttons
    sink_keys, sink_buttons,
    \* the virtual devices: what is down, where the pointer is, wheel notches
    held, pointer, wheel,
    \* what is down because its release failed; a message was dropped or an
    \* operation failed; window events; failures
    stuck, missed, events, failures,
    \* the kinds of events of this behaviour, and their number
    scenario

userVars == <<physical, turned>>
appVars == <<focused, pressed_keys, pressed_buttons, wheel_acc, app>>
viewVars == <<inner, resized, redraw, shown, target_size, latest, source, scaling>>
netVars == <<net, latest_mouse, channel>>
devVars == <<sink_keys, sink_buttons, held, stuck, pointer, wheel>>
vars == <<userVars, appVars, viewVars, ui, netVars, control, mouse, devVars, missed, events,
          failures, scenario>>

\* The keys and buttons client/src/keymap.rs forwards.
Inputs == Keys \cup Buttons
Places == MouseMoves \cup {NoPosition}
Frames == {FitAspect(Target(w), s) : w \in Windows, s \in Sources} \cup {NoFrame}

\* The ControlMessages of this client.
Greeting ==
    <<HelloMessage(Version)>>
        \o (IF StartBitrate = 0 THEN <<>> ELSE <<BitrateMessage(StartBitrate)>>)
Messages ==
    {KeyMessage(k, p) : k \in Keys, p \in BOOLEAN}
    \cup {ButtonMessage(b, p) : b \in Buttons, p \in BOOLEAN}
    \cup {WheelMessage(0, v) : v \in -WheelMax .. WheelMax}
    \cup {ReleaseAll}

ControlBytes == {Encode(m) : m \in Messages \cup {Greeting[i] : i \in DOMAIN Greeting}}

\* UiCommand
Move(p) == [type |-> "mouse", position |-> p]
Quit == [type |-> "quit"]
IsCommand(c) == c \in Messages \cup {Quit} \/ (c.type = "mouse" /\ c.position \in MouseMoves)

TypeOK ==
    /\ physical \subseteq Inputs /\ turned \in Int
    /\ focused \in BOOLEAN /\ app \in BOOLEAN
    /\ pressed_keys \subseteq Keys /\ pressed_buttons \subseteq Buttons
    /\ wheel_acc \in -(Notch - 1) .. Notch - 1
    /\ inner \in Windows /\ resized \in Seq(Windows) /\ redraw \in BOOLEAN
    /\ shown \in [win : Windows, frame : Frames]
    /\ target_size \in {Target(w) : w \in Windows} /\ latest \in Frames
    /\ source \in Sources /\ scaling \in Frames
    /\ \A i \in DOMAIN ui : IsCommand(ui[i])
    /\ net \in BOOLEAN /\ latest_mouse \in Places
    /\ channel \in {"connecting", "open", "greeted", "closed"}
    /\ control \in Seq(ControlBytes) /\ \A b \in mouse : DecodeMouse(b) \in MouseMoves
    /\ sink_keys \subseteq Keys \ Unmapped /\ sink_buttons \subseteq Buttons
    /\ stuck \subseteq held /\ held \subseteq Inputs \ Unmapped /\ pointer \in Places /\ wheel \in Int
    /\ missed \in BOOLEAN
    /\ events \in 0 .. scenario.events /\ failures \in 0 .. MaxFailures
    /\ scenario \in Scenarios

Init ==
    /\ physical = {} /\ turned = 0
    /\ focused = TRUE /\ app = TRUE
    /\ pressed_keys = {} /\ pressed_buttons = {} /\ wheel_acc = 0
    /\ inner = StartWindow /\ target_size = Target(inner) /\ source = StartMode
    /\ resized = <<>> /\ redraw = FALSE /\ shown = [win |-> inner, frame |-> NoFrame]
    /\ latest = NoFrame /\ scaling = NoFrame
    /\ ui = <<>>
    /\ net = TRUE /\ latest_mouse = NoPosition /\ channel = "connecting"
    /\ control = <<>> /\ mouse = {}
    /\ sink_keys = {} /\ sink_buttons = {}
    /\ held = {} /\ stuck = {} /\ pointer = NoPosition /\ wheel = 0
    /\ missed = FALSE /\ events = 0 /\ failures = 0
    /\ scenario \in Scenarios

-----------------------------------------------------------------------------
(* The window: every event the system delivers to it *)

Event(kind) ==
    /\ app /\ kind \in scenario.kinds
    /\ events < scenario.events /\ events' = events + 1
afterApp == <<viewVars, netVars, control, mouse, devVars, failures, scenario>>

Toggle(S, i, pressed) == IF pressed THEN S \cup {i} ELSE S \ {i}

\* handle_key: without focus there are no events; the synthetic ones around a
\* change of focus, and auto-repeat, are ignored.
KeyboardInput(k, pressed) ==
    /\ Event("key")
    /\ pressed = (k \notin physical)
    /\ physical' = Toggle(physical, k, pressed)
    /\ IF focused
         THEN /\ pressed_keys' = Toggle(pressed_keys, k, pressed)
              /\ ui' = Append(ui, KeyMessage(k, pressed))
         ELSE UNCHANGED <<pressed_keys, ui>>
    /\ UNCHANGED <<turned, focused, pressed_buttons, wheel_acc, app, missed, afterApp>>

\* WindowEvent::MouseInput.  The handler does not look at the focus: without it
\* the release of a button may still be delivered, as the pointer is grabbed while
\* one is down.  That a press is not is assumed of the window system.
MouseInput(b, pressed) ==
    /\ Event("button")
    /\ pressed = (b \notin physical)
    /\ physical' = Toggle(physical, b, pressed)
    /\ \/ /\ focused \/ ~pressed
          /\ pressed_buttons' = Toggle(pressed_buttons, b, pressed)
          /\ ui' = Append(ui, ButtonMessage(b, pressed))
       \/ ~focused /\ UNCHANGED <<pressed_buttons, ui>>
    /\ UNCHANGED <<turned, focused, pressed_keys, wheel_acc, app, missed, afterApp>>

\* WindowEvent::CursorMoved, with or without focus
CursorMoved(point) ==
    /\ Event("cursor")
    /\ ui' = Append(ui, Move(PositionAt(inner, latest, point)))
    /\ UNCHANGED <<userVars, appVars, missed, afterApp>>

\* f32::trunc, to whole notches
Trunc(n) == IF n >= 0 THEN n \div Notch ELSE -((-n) \div Notch)

Clamp(v) == IF v > WheelMax THEN WheelMax ELSE IF v < -WheelMax THEN -WheelMax ELSE v

MutCarry(acc) == IF Trunc(acc) # 0 THEN 0 ELSE acc  \* forgets the rest

Carry(acc) == acc - Trunc(acc) * Notch

\* handle_wheel, one axis: whole notches are sent, the rest is carried over.
MouseWheel(d) ==
    /\ Event("wheel")
    /\ turned' = turned + d
    /\ LET acc == wheel_acc + d
           v == Trunc(acc)
       IN  /\ wheel_acc' = Carry(acc)
           /\ ui' = IF v # 0 THEN Append(ui, WheelMessage(0, Clamp(v))) ELSE ui
           /\ missed' = (missed \/ Clamp(v) # v)
    /\ UNCHANGED <<physical, focused, pressed_keys, pressed_buttons, app, afterApp>>

\* keeps quiet when the client's own books say that no key is down
MutRelease(more) ==
    /\ pressed_keys' = {} /\ pressed_buttons' = {}
    /\ ui' = ui \o (IF pressed_keys = {} THEN <<>> ELSE <<ReleaseAll>>) \o more

\* App::release_all, and the command that may follow it
Release(more) ==
    /\ pressed_keys' = {} /\ pressed_buttons' = {}
    /\ ui' = ui \o <<ReleaseAll>> \o more

\* WindowEvent::Focused
Focused(f) ==
    /\ Event("focus")
    /\ focused = ~f
    /\ focused' = f
    /\ IF f THEN UNCHANGED <<pressed_keys, pressed_buttons, ui>> ELSE Release(<<>>)
    /\ UNCHANGED <<userVars, wheel_acc, app, missed, afterApp>>

\* WindowEvent::CloseRequested, and UserEvent::Fatal from the decode thread:
\* there no Quit is sent, but the sender is dropped with App, which the network
\* thread takes for Quit.
CloseRequested ==
    /\ app /\ "close" \in scenario.kinds
    /\ app' = FALSE /\ focused' = FALSE
    /\ Release(<<Quit>>)
    /\ UNCHANGED <<userVars, wheel_acc, missed, events, afterApp>>

WindowNext ==
    \/ \E k \in Keys, pressed \in BOOLEAN : KeyboardInput(k, pressed)
    \/ \E b \in Buttons, pressed \in BOOLEAN : MouseInput(b, pressed)
    \/ \E p \in Points : CursorMoved(p)
    \/ \E d \in Deltas : MouseWheel(d)
    \/ \E f \in BOOLEAN : Focused(f)

-----------------------------------------------------------------------------
(* The picture: the window's size, the decode thread and the redraws *)

viewRest == <<userVars, appVars, ui, netVars, control, mouse, devVars, missed, scenario>>

Fails(op) == op \in Failures /\ failures < MaxFailures /\ failures' = failures + 1

\* The system gives the window another size (F11 makes the client ask for one);
\* inner_size has it before the Resized event is handled.
Resize(size) ==
    /\ Event("resize")
    /\ size # inner
    /\ inner' = size
    /\ resized' = Append(resized, size)
    /\ UNCHANGED <<redraw, shown, target_size, latest, source, scaling, failures, viewRest>>

\* WindowEvent::Resized
Resized ==
    /\ app /\ resized # <<>>
    /\ resized' = Tail(resized)
    /\ target_size' = Target(Head(resized))
    /\ redraw' = TRUE
    /\ UNCHANGED <<inner, shown, latest, source, scaling, events, failures, viewRest>>

\* The VM changes its display mode, and with it the size of the video.
SetMode(size) ==
    /\ Event("mode")
    /\ size # source
    /\ source' = size
    /\ UNCHANGED <<inner, resized, redraw, shown, target_size, latest, scaling, failures, viewRest>>

\* Behaviours about the keyboard or the wheel leave the video out.
AboutPicture == scenario.kinds \cap {"cursor", "resize", "mode"} # {}

MutDecodePicture ==  \* goes on scaling to the size of the first picture
    /\ AboutPicture /\ app /\ net /\ scaling = NoFrame
    /\ scaling' = IF latest = NoFrame THEN FitAspect(target_size, source) ELSE latest
    /\ UNCHANGED <<inner, resized, redraw, shown, target_size, latest, source, events, failures, viewRest>>

\* decoder::run: a picture is decoded and the size for it is read.  Pictures come
\* at least once a second while the connection is up.
DecodePicture ==
    /\ AboutPicture /\ app /\ net /\ scaling = NoFrame
    /\ scaling' = FitAspect(target_size, source)
    /\ UNCHANGED <<inner, resized, redraw, shown, target_size, latest, source, events, failures, viewRest>>

\* Scaler::scale, then publish and UserEvent::Frame, which requests a redraw.
Publish ==
    /\ scaling # NoFrame
    /\ scaling' = NoFrame
    /\ \/ latest' = scaling /\ redraw' = TRUE /\ UNCHANGED failures
       \/ Fails("scale") /\ UNCHANGED <<latest, redraw>>
    /\ UNCHANGED <<inner, resized, shown, target_size, source, events, viewRest>>

\* App::redraw: what fails is not repeated; a minimised window shows nothing.
Redraw ==
    /\ app /\ redraw
    /\ redraw' = FALSE
    /\ \/ inner # <<0, 0>> /\ shown' = [win |-> inner, frame |-> latest] /\ UNCHANGED failures
       \/ inner = <<0, 0>> /\ UNCHANGED <<shown, failures>>
       \/ inner # <<0, 0>> /\ Fails("present") /\ UNCHANGED shown
    /\ UNCHANGED <<inner, resized, target_size, latest, source, scaling, events, viewRest>>

ViewNext ==
    \/ \E size \in Windows : Resize(size)
    \/ \E size \in Sources : SetMode(size)
    \/ Resized \/ DecodePicture \/ Publish \/ Redraw

-----------------------------------------------------------------------------
(* The network thread *)

netRest == <<userVars, appVars, viewVars, devVars, events, failures, scenario>>

EncodeAll(ms) == [i \in DOMAIN ms |-> Encode(ms[i])]

\* The control channel's task: OnOpen, then Hello and the bitrate, if one is set.
ChannelOpens ==
    /\ net /\ channel = "connecting"
    /\ channel' = "open"
    /\ UNCHANGED <<ui, net, latest_mouse, control, mouse, missed, netRest>>

Greet ==
    /\ channel = "open"
    /\ channel' = "greeted"
    /\ control' = IF net THEN control \o EncodeAll(Greeting) ELSE control
    /\ UNCHANGED <<ui, net, latest_mouse, mouse, missed, netRest>>

MutSendControl(m) == control' = <<Encode(m)>> \o control /\ UNCHANGED missed  \* overtakes what is in flight

\* control.send: an error while the channel is not open yet, which is only logged.
SendControl(m) ==
    IF channel = "connecting"
      THEN missed' = TRUE /\ UNCHANGED control
      ELSE control' = Append(control, Encode(m)) /\ UNCHANGED missed

NetControl ==
    /\ net /\ ui # <<>> /\ Head(ui) \in Messages
    /\ ui' = Tail(ui)
    /\ SendControl(Head(ui))
    /\ UNCHANGED <<netVars, mouse, netRest>>

NetMouse ==
    /\ net /\ ui # <<>> /\ Head(ui).type = "mouse"
    /\ ui' = Tail(ui)
    /\ latest_mouse' = Head(ui).position
    /\ UNCHANGED <<net, channel, control, mouse, missed, netRest>>

\* mouse_tick: the latest position, if there is one, sent or refused.
MouseTick ==
    /\ net /\ latest_mouse # NoPosition
    /\ latest_mouse' = NoPosition
    /\ mouse' \in {mouse, mouse \cup {EncodeMouse(latest_mouse)}}
    /\ channel = "connecting" => mouse' = mouse
    /\ UNCHANGED <<ui, net, channel, control, missed, netRest>>

\* Quit: a last ReleaseAll, then close.
NetQuit ==
    /\ net /\ ui # <<>> /\ Head(ui) = Quit
    /\ ui' = Tail(ui)
    /\ net' = FALSE
    /\ SendControl(ReleaseAll)
    /\ UNCHANGED <<latest_mouse, channel, mouse, netRest>>

\* on_event: the connection fails or is closed by the server, and run returns an
\* error; what App still sends goes nowhere, until it handles the Fatal event.
NetFails ==
    /\ net /\ "failure" \in scenario.kinds
    /\ net' = FALSE
    /\ missed' = TRUE
    /\ UNCHANGED <<ui, latest_mouse, channel, control, mouse, netRest>>

NetNext == Greet \/ NetControl \/ NetMouse \/ NetQuit

-----------------------------------------------------------------------------
(* The server: read_data_channel and UinputSink *)

serverRest == <<userVars, appVars, viewVars, ui, netVars, events, scenario>>

MutMapped(i) == TRUE  \* hands on whatever comes

\* to_evdev, button_to_evdev
Mapped(i) == i \notin Unmapped

\* VirtualDevice::emit for one key or button: a release that fails leaves it down.
Emit(i, pressed) ==
    \/ /\ held' = Toggle(held, i, pressed)
       /\ stuck' = stuck \ {i}
       /\ UNCHANGED failures
    \/ /\ Fails(IF pressed THEN "press" ELSE "release")
       /\ stuck' = IF pressed THEN stuck ELSE stuck \cup (held \cap {i})
       /\ UNCHANGED held

\* UinputSink::key: the set is changed whether or not emit fails.
Key(i, pressed) ==
    IF ~Mapped(i)
      THEN UNCHANGED <<sink_keys, sink_buttons, held, stuck, failures>>
      ELSE /\ sink_keys' = Toggle(sink_keys, i, pressed)
           /\ Emit(i, pressed)
           /\ UNCHANGED sink_buttons

\* UinputSink::button
Button(i, pressed) ==
    /\ sink_buttons' = Toggle(sink_buttons, i, pressed)
    /\ Emit(i, pressed)
    /\ UNCHANGED sink_keys

\* UinputSink::release_all: the sets are drained, then the keys are released,
\* then the buttons.  What fails is not tried again: neither, when it is the keys.
SinkReleaseAll ==
    LET down == sink_keys \cup sink_buttons IN
    /\ sink_keys' = {} /\ sink_buttons' = {}
    /\ \E lost \in {{}, down, sink_buttons} :
          /\ held' = held \ (down \ lost)
          /\ stuck' = (stuck \ down) \cup (held \cap lost)
          /\ IF lost = {} THEN UNCHANGED failures ELSE Fails("release")

\* UinputSink::wheel
SinkWheel(v) ==
    \/ wheel' = wheel + v /\ UNCHANGED failures
    \/ Fails("wheel") /\ UNCHANGED wheel

\* read_data_channel and UinputSink::handle on a control message: one that does
\* not decode is only logged; Hello and SetBitrate are not for the devices.
HandleControl ==
    /\ control # <<>>
    /\ control' = Tail(control)
    /\ LET m == Decode(Head(control)) IN
          CASE m.type = "key" -> Key(m.code, m.pressed) /\ UNCHANGED wheel
            [] m.type = "button" -> Button(m.button, m.pressed) /\ UNCHANGED wheel
            [] m.type = "wheel" ->
                  SinkWheel(m.vertical) /\ UNCHANGED <<sink_keys, sink_buttons, held, stuck>>
            [] m.type = "release_all" -> SinkReleaseAll /\ UNCHANGED wheel
            [] m.type \in {"hello", "set_bitrate", "error"} ->
                  UNCHANGED <<sink_keys, sink_buttons, held, stuck, wheel, failures>>
    /\ missed' = (missed \/ failures' # failures)
    /\ UNCHANGED <<mouse, pointer, serverRest>>

\* Any position in flight may come next; UinputSink::move_abs may fail.
HandleMouse ==
    \E bytes \in mouse :
        /\ mouse' = mouse \ {bytes}
        /\ \/ pointer' = DecodeMouse(bytes) /\ UNCHANGED failures
           \/ Fails("move") /\ UNCHANGED pointer
        /\ UNCHANGED <<control, sink_keys, sink_buttons, held, stuck, wheel, missed, serverRest>>

\* The server notices that the client has gone: run_session ends with
\* release_input, and what is still in flight is lost.  (Module Session has the
\* steps of this and what may come in between.)
SessionEnds ==
    /\ ~net
    /\ channel # "closed"
    /\ channel' = "closed"
    /\ control' = <<>> /\ mouse' = {}
    /\ SinkReleaseAll
    /\ missed' = TRUE
    /\ UNCHANGED <<userVars, appVars, viewVars, ui, net, latest_mouse, pointer, wheel, events, scenario>>

-----------------------------------------------------------------------------
Next ==
    \/ WindowNext \/ ViewNext \/ CloseRequested
    \/ ChannelOpens \/ NetNext \/ NetFails \/ MouseTick
    \/ HandleControl \/ SessionEnds \/ HandleMouse

Spec == Init /\ [][Next]_vars

\* The three threads run and pictures keep coming, a connection is made, an
\* ordered reliable channel delivers and the server notices a client that has
\* gone; the user need not do anything.
Fairness ==
    /\ WF_vars(ChannelOpens) /\ WF_vars(NetNext)
    /\ WF_vars(Resized) /\ WF_vars(Redraw) /\ WF_vars(DecodePicture) /\ WF_vars(Publish)
    /\ WF_vars(HandleControl) /\ WF_vars(SessionEnds)

FairSpec == Spec /\ Fairness

-----------------------------------------------------------------------------
(* Properties *)

\* No key, button or wheel message is on its way.
Settled == control = <<>> /\ (net => \A i \in DOMAIN ui : ui[i].type = "mouse")

\* The three sets of pressed keys agree whenever nothing is on its way (and the
\* end of a connection has been noticed): the VM
\* holds down nothing that the client's window does not know of, whatever was
\* dropped before the channel opened or failed on the device, except a key whose
\* own release failed; and exactly what the window knows of if nothing was lost.
HeldIsPressed ==
    Settled /\ (~net => channel = "closed") =>
        /\ held \subseteq pressed_keys \cup pressed_buttons \cup stuck
        /\ ~missed => held = {i \in pressed_keys \cup pressed_buttons : Mapped(i)}

\* Turning the wheel back and forth in fractions of a notch loses nothing: what
\* arrived on the VM and what is carried over add up to what the user turned.
WheelConserved == Settled /\ ~missed => turned = wheel * Notch + wheel_acc

\* "Closing the window or losing focus releases every key and button on the VM":
\* also those of messages that were still on their way at that moment, when the
\* user is still holding them down, and when the connection is lost.  Only a key
\* whose release the device refused stays down.
AwayReleases == ~focused ~> focused \/ (Settled /\ held = stuck)

\* "Mouse positions are normalised over the video area": when the window shows
\* the latest picture and it fits, the position sent for the cursor is the one
\* of the pixel of the picture that blit drew there, on every point of it.
PointerOnPicture ==
    shown = [win |-> inner, frame |-> latest] /\ Fits(latest, inner) =>
        PointsAtPicture(inner, latest)

\* "Decoded frames arrive already scaled to the video area": once neither the
\* window nor the display changes its size any more, the window shows a picture
\* fitted to it, although the decode thread may have read the target size just
\* before a resize, a picture cannot be scaled, or a redraw fails.
PictureFitted ==
    <>[][UNCHANGED <<inner, source>>]_vars =>
        <>[](\/ ~app \/ ~net \/ inner = <<0, 0>> \/ ~AboutPicture
             \/ shown = [win |-> inner, frame |-> FitAspect(Target(inner), source)])

\* What the window queues for the network thread the server decodes to the same
\* message or position: wheel movements in both directions, key codes and
\* positions of more than one byte.
Understood ==
    \A i \in DOMAIN ui :
        /\ ui[i] \in Messages => RoundTrips(ui[i])
        /\ ui[i].type = "mouse" => MoveRoundTrips(ui[i].position)

\* None of them, cut short or with something behind it, is taken for another.
Framed == \A i \in DOMAIN ui : ui[i] \in Messages => IsFramed(ui[i])

=============================================================================
