------------------------------- MODULE Session -------------------------------
(***************************************************************************)
(* The session layer of vmdesk-server (server/src/session.rs, called by    *)
(* server/src/signalling.rs): accept_offer, which negotiates one peer      *)
(* connection per offer and replaces the previous client; run_session, the *)
(* task of a connection; and read_data_channel, the task that injects the  *)
(* client's control messages into the input device.                        *)
(*                                                                         *)
(* The tokio runtime has two worker threads, so the handlers and the tasks *)
(* interleave between any two operations on shared state: one action is    *)
(* one such operation (an atomic load or store, an access under a mutex,   *)
(* a call of the peer connection) with the local work that follows it.     *)
(*                                                                         *)
(* Definitions named Mut... are deliberate faults: each is a plausible bug  *)
(* in the definition that follows it, which TLC must find when it replaces  *)
(* that definition.  No specification uses them.                           *)
(*                                                                         *)
(* An offer stands for the request, its peer connection, its session and   *)
(* its data channel.  Shared.force_keyframe and the RTCP and writer tasks  *)
(* concern the pipeline only and are in Pipeline.tla.                      *)
(***************************************************************************)
EXTENDS Integers, SequencesExt, FiniteSets, Sdp

CONSTANTS
    NOffers,      \* bound: offers, numbered as they arrive
    Overlapping,  \* whether an offer may arrive while another is handled
    Keys,         \* keys and buttons
    Rates,        \* bitrates a client may ask for (after the clamp)
    ConfigRate,   \* config.video.bitrate_kbps
    MinPort, MaxPort,  \* config.network.udp_port_min, udp_port_max
    Interfaces,   \* the VM's private addresses, one per interface
    PublicIp,     \* the address the metadata service lists
    MaxEvents,    \* bound: connection state changes
    MaxMsgs,      \* bound: control messages
    None

ASSUME OffersAssumption == NOffers \in Nat /\ None \notin Nat
ASSUME OverlappingAssumption == Overlapping \in BOOLEAN
ASSUME PortsAssumption == MinPort \in Nat /\ MaxPort \in Nat /\ MinPort <= MaxPort
ASSUME RatesAssumption == None \notin Rates \cup {ConfigRate}

Addresses == {Interfaces[i] : i \in DOMAIN Interfaces}

ASSUME AddressesAssumption ==
    /\ Interfaces \in Seq(Addresses) \ {<<>>} /\ Unspecified \notin Addresses
    /\ PublicIp \notin Addresses \cup {Unspecified, None}
ASSUME BoundsAssumption == MaxEvents \in Nat /\ MaxMsgs \in Nat

Offers == 1 .. NOffers

Msgs ==
    [type : {"KeyDown", "KeyUp"}, key : Keys]
        \cup [type : {"SetBitrate"}, kbps : Rates]
        \cup [type : {"ReleaseAll"}]

VARIABLES
    \* Shared
    client_connected, sink, bitrate_kbps, active_session,
    \* SessionManager: counters, the registered connection, the cached address
    next_session, next_port, current, public_ip,
    \* accept_offer: program counter and locals
    hpc, previous, session_id, port, address, answer,
    \* the peer connection: open or closed, what the link does, queued events
    pc, link, events,
    \* run_session and the last connection state it handled
    tpc, seen,
    \* read_data_channel: program counter, the message at hand, queued messages
    rpc, held, inbox,
    \* the input device: what is down
    pressed,
    \* bounds
    nEvents, nMsgs,
    \* history: messages applied while another session was the active one; whether
    \* another session was about to change the pipeline when this one took over
    late, raced

sharedVars == <<client_connected, sink, bitrate_kbps, active_session>>
managerVars == <<next_session, next_port, current, public_ip>>
handlerVars == <<hpc, previous, session_id, port, address, answer>>
peerVars == <<pc, link, events>>
taskVars == <<tpc, seen>>
readerVars == <<rpc, held, inbox>>
boundVars == <<nEvents, nMsgs>>
vars == <<sharedVars, managerVars, handlerVars, peerVars, taskVars, readerVars, pressed,
          boundVars, late, raced>>

HandlerPcs == {"idle", "take", "disable", "clear", "release", "close", "id", "port", "ip",
               "negotiate", "publish", "activate", "spawn", "done", "failed"}
TaskPcs == {"none", "loop", "bitrate", "install", "enable", "teardown", "disable", "clear",
            "release", "unregister", "close", "ended"}
PcEvents == {"Connected", "Disconnected", "Failed", "Closed", "DataChannel"}

TypeOK ==
    /\ client_connected \in BOOLEAN
    /\ sink \in Offers \cup {None}
    /\ bitrate_kbps \in Rates \cup {ConfigRate}
    /\ active_session \in Nat
    /\ next_session \in Nat \ {0}
    /\ next_port \in MinPort .. MaxPort
    /\ current \in Offers \cup {None}
    /\ public_ip \in BOOLEAN
    /\ hpc \in [Offers -> HandlerPcs]
    /\ previous \in [Offers -> Offers \cup {None}]
    /\ session_id \in [Offers -> Nat]
    /\ port \in [Offers -> MinPort .. MaxPort \cup {None}]
    /\ address \in [Offers -> {None, PublicIp}]
    /\ DOMAIN answer = Offers
    /\ pc \in [Offers -> {"none", "open", "closed"}]
    /\ link \in [Offers -> {"new", "up", "lost", "down"}]
    /\ events \in [Offers -> Seq(PcEvents)]
    /\ tpc \in [Offers -> TaskPcs]
    /\ seen \in [Offers -> {"new", "Connected", "Disconnected"}]
    /\ rpc \in [Offers -> {"none", "announced", "poll", "apply", "closed"}]
    /\ held \in [Offers -> Msgs \cup {None}]
    /\ inbox \in [Offers -> Seq(Msgs)]
    /\ pressed \subseteq Keys
    /\ nEvents \in 0 .. MaxEvents
    /\ nMsgs \in 0 .. MaxMsgs
    /\ late \in [Offers -> Nat]
    /\ raced \in [Offers -> BOOLEAN]

\* SessionManager::new and Shared::new; no session yet.
Init ==
    /\ client_connected = FALSE
    /\ sink = None
    /\ bitrate_kbps = ConfigRate
    /\ active_session = 0
    /\ next_session = 1
    /\ next_port = MinPort
    /\ current = None
    /\ public_ip = FALSE
    /\ hpc = [o \in Offers |-> "idle"]
    /\ previous = [o \in Offers |-> None]
    /\ session_id = [o \in Offers |-> 0]
    /\ port = [o \in Offers |-> None]
    /\ address = [o \in Offers |-> None]
    /\ answer = [o \in Offers |-> None]
    /\ pc = [o \in Offers |-> "none"]
    /\ link = [o \in Offers |-> "new"]
    /\ events = [o \in Offers |-> <<>>]
    /\ tpc = [o \in Offers |-> "none"]
    /\ seen = [o \in Offers |-> "new"]
    /\ rpc = [o \in Offers |-> "none"]
    /\ held = [o \in Offers |-> None]
    /\ inbox = [o \in Offers |-> <<>>]
    /\ pressed = {}
    /\ nEvents = 0
    /\ nMsgs = 0
    /\ late = [o \in Offers |-> 0]
    /\ raced = [o \in Offers |-> FALSE]

\* The event handler of connection o queues e for the session's task.
Queue(o, e) == events' = [events EXCEPT ![o] = Append(@, e)]

\* pc.close() of connection o: closing twice does nothing.
ClosePc(o) ==
    IF pc[o] = "open"
      THEN /\ pc' = [pc EXCEPT ![o] = "closed"]
           /\ Queue(o, "Closed")
      ELSE UNCHANGED <<pc, events>>

-----------------------------------------------------------------------------
(* accept_offer *)

handlerRest == <<taskVars, readerVars, boundVars, late, link, raced>>

Goto(o, there) == hpc' = [hpc EXCEPT ![o] = there]

\* POST /offer arrives.  Without a video or an application section it is
\* answered with an error and changes nothing.
HOffer(o) ==
    /\ hpc[o] = "idle"
    /\ \A p \in 1 .. o - 1 : hpc[p] # "idle"
    /\ Overlapping \/ \A p \in Offers : hpc[p] \in {"idle", "done", "failed"}
    /\ \E sections \in SUBSET {"video", "application"} :
          LET offer == SetToSeq({Media(m) : m \in sections})
              valid == HasMedia(offer, "video") /\ HasMedia(offer, "application")
          IN  Goto(o, IF valid THEN "take" ELSE "failed")
    /\ UNCHANGED <<sharedVars, managerVars, previous, session_id, port, address, answer, pc, events, pressed>>
    /\ UNCHANGED handlerRest

\* self.current.lock().await.take()
HTake(o) ==
    /\ hpc[o] = "take"
    /\ previous' = [previous EXCEPT ![o] = current]
    /\ current' = None
    /\ Goto(o, IF current = None THEN "id" ELSE "disable")
    /\ UNCHANGED <<sharedVars, next_session, next_port, public_ip, session_id, port, address, answer>>
    /\ UNCHANGED <<pc, events, pressed, handlerRest>>

HDisable(o) ==
    /\ hpc[o] = "disable"
    /\ client_connected' = FALSE
    /\ Goto(o, "clear")
    /\ UNCHANGED <<sink, bitrate_kbps, active_session, managerVars>>
    /\ UNCHANGED <<previous, session_id, port, address, answer, pc, events, pressed, handlerRest>>

HClear(o) ==
    /\ hpc[o] = "clear"
    /\ sink' = None
    /\ Goto(o, "release")
    /\ UNCHANGED <<client_connected, bitrate_kbps, active_session, managerVars>>
    /\ UNCHANGED <<previous, session_id, port, address, answer, pc, events, pressed, handlerRest>>

\* release_input
HRelease(o) ==
    /\ hpc[o] = "release"
    /\ pressed' = {}
    /\ Goto(o, "close")
    /\ UNCHANGED <<sharedVars, managerVars, previous, session_id, port, address, answer, pc, events, handlerRest>>

\* old.close().await
HClose(o) ==
    /\ hpc[o] = "close"
    /\ ClosePc(previous[o])
    /\ Goto(o, "id")
    /\ UNCHANGED <<sharedVars, managerVars, previous, session_id, port, address, answer, pressed, handlerRest>>

\* allocate_session_id
HSessionId(o) ==
    /\ hpc[o] = "id"
    /\ session_id' = [session_id EXCEPT ![o] = next_session]
    /\ next_session' = next_session + 1
    /\ Goto(o, "port")
    /\ UNCHANGED <<sharedVars, next_port, current, public_ip, previous, port, address, answer>>
    /\ UNCHANGED <<pc, events, pressed, handlerRest>>

MutNextPortPastEnd(p) == IF p > MaxPort THEN MinPort ELSE p + 1
MutNextPortSame(p) == p  \* does not advance

\* The port to try after p: round robin over the configured range.
NextPort(p) == IF p >= MaxPort THEN MinPort ELSE p + 1

Clamp(p) == IF p < MinPort THEN MinPort ELSE IF p > MaxPort THEN MaxPort ELSE p

\* allocate_port
HPort(o) ==
    /\ hpc[o] = "port"
    /\ port' = [port EXCEPT ![o] = Clamp(next_port)]
    /\ next_port' = NextPort(Clamp(next_port))
    /\ Goto(o, "ip")
    /\ UNCHANGED <<sharedVars, next_session, current, public_ip, previous, session_id, address, answer>>
    /\ UNCHANGED <<pc, events, pressed, handlerRest>>

\* The metadata service lists an address, or there is no usable answer in time.
DetectPublicIp == BOOLEAN

MutHPublicIpUncached(o) ==  \* the address found is not remembered
    /\ hpc[o] = "ip"
    /\ \E a \in {None, PublicIp} : address' = [address EXCEPT ![o] = a]
    /\ Goto(o, "negotiate")
    /\ UNCHANGED <<sharedVars, managerVars, previous, session_id, port, answer>>
    /\ UNCHANGED <<pc, events, pressed, handlerRest>>

\* public_ip(): the cached address, or a metadata lookup that may fail and is
\* tried again for the next offer.
HPublicIp(o) ==
    /\ hpc[o] = "ip"
    /\ \E found \in DetectPublicIp : public_ip' = (public_ip \/ found)
    /\ address' = [address EXCEPT ![o] = IF public_ip' THEN PublicIp ELSE None]
    /\ Goto(o, "negotiate")
    /\ UNCHANGED <<sharedVars, next_session, next_port, current, previous, session_id, port, answer>>
    /\ UNCHANGED <<pc, events, pressed, handlerRest>>

\* What the peer connection describes after it gathered candidates, for five
\* seconds at most: those of the first n interfaces, all on the session's port.
\* (They are lines of the video section; here they are numbered last.)
LocalDescription(o, n) ==
    <<Media("video"), Connection(Interfaces[1]), Media("application"), Connection(Unspecified)>>
        \o [i \in 1 .. n |-> Candidate("host", "udp", Interfaces[i], port[o])]

\* Build the peer connection, set the descriptions, gather candidates, and put
\* the public address into the answer if it is known.
HNegotiate(o) ==
    /\ hpc[o] = "negotiate"
    /\ \A p \in Offers : pc[p] = "open" => port[p] # port[o]
    /\ \E n \in 0 .. Len(Interfaces) :
          LET local == LocalDescription(o, n) IN
          IF CandidateCount(local) = 0
            THEN /\ Goto(o, "failed")  \* pc.close().await; the offer is refused
                 /\ UNCHANGED <<pc, answer>>
            ELSE /\ pc' = [pc EXCEPT ![o] = "open"]
                 /\ answer' = [answer EXCEPT ![o] =
                        IF address[o] = None THEN local
                                             ELSE RewriteHostCandidates(local, address[o])]
                 /\ Goto(o, "publish")
    /\ UNCHANGED <<sharedVars, managerVars, previous, session_id, port, address, events, pressed, handlerRest>>

\* Negotiation fails (a port in use, any error): the connection is dropped,
\* unregistered.  The previous session is gone all the same.
HNegotiateFails(o) ==
    /\ hpc[o] = "negotiate"
    /\ Goto(o, "failed")
    /\ UNCHANGED <<sharedVars, managerVars, previous, session_id, port, address, answer, pc, events, pressed, handlerRest>>

\* The HTTP client hangs up and the handler is dropped where it awaits: the
\* connection it was building goes with it, and the previous one, if it was just
\* closing that, may stay open.
HCancel(o) ==
    /\ hpc[o] \in {"take", "close", "ip", "negotiate", "publish"}
    /\ Goto(o, "failed")
    /\ \/ hpc[o] # "publish" /\ UNCHANGED <<pc, events, answer>>
       \/ hpc[o] = "close" /\ ClosePc(previous[o]) /\ UNCHANGED answer
       \/ /\ hpc[o] = "publish"
          /\ ClosePc(o)
          /\ answer' = [answer EXCEPT ![o] = None]
    /\ UNCHANGED <<sharedVars, managerVars, previous, session_id, port, address, pressed, handlerRest>>

\* *self.current.lock().await = Some(pc)
HPublish(o) ==
    /\ hpc[o] = "publish"
    /\ current' = o
    /\ Goto(o, "activate")
    /\ UNCHANGED <<sharedVars, next_session, next_port, public_ip, previous, session_id, port, address, answer>>
    /\ UNCHANGED <<pc, events, pressed, handlerRest>>

\* active_session.store(session_id)
HActivate(o) ==
    /\ hpc[o] = "activate"
    /\ active_session' = session_id[o]
    /\ Goto(o, "spawn")
    /\ raced' = [raced EXCEPT ![o] = \E p \in Offers :
                    tpc[p] \in {"bitrate", "install", "enable", "disable", "clear"}]
    /\ UNCHANGED <<client_connected, sink, bitrate_kbps, managerVars>>
    /\ UNCHANGED <<previous, session_id, port, address, answer, pc, events, pressed>>
    /\ UNCHANGED <<taskVars, readerVars, boundVars, late, link>>

\* Spawn run_session, which replays what was queued meanwhile, and answer.
HSpawn(o) ==
    /\ hpc[o] = "spawn"
    /\ tpc' = [tpc EXCEPT ![o] = "loop"]
    /\ Goto(o, "done")
    /\ UNCHANGED <<sharedVars, managerVars, previous, session_id, port, address, answer, pc, events, pressed>>
    /\ UNCHANGED <<seen, readerVars, boundVars, late, link, raced>>

\* What a handler does once the request is there.
HContinue(o) ==
    \/ HTake(o) \/ HDisable(o) \/ HClear(o) \/ HRelease(o) \/ HClose(o)
    \/ HSessionId(o) \/ HPort(o) \/ HPublicIp(o) \/ HNegotiate(o) \/ HNegotiateFails(o)
    \/ HPublish(o) \/ HActivate(o) \/ HSpawn(o)

-----------------------------------------------------------------------------
(* The peer: what the network and the client do.  Nothing happens before the *)
(* answer was sent.                                                          *)

peerRest == <<sharedVars, managerVars, handlerVars, taskVars, pressed, late, raced>>

\* How a connection's state moves, and the event that reports it.
Transitions == {<<"new", "up", "Connected">>, <<"up", "lost", "Disconnected">>,
                <<"lost", "up", "Connected">>, <<"new", "down", "Failed">>,
                <<"lost", "down", "Failed">>, <<"up", "down", "Closed">>}

PeerChanges(o) ==
    /\ hpc[o] = "done"
    /\ pc[o] = "open"
    /\ nEvents < MaxEvents
    /\ \E t \in Transitions :
          /\ link[o] = t[1]
          /\ link' = [link EXCEPT ![o] = t[2]]
          /\ Queue(o, t[3])
    /\ nEvents' = nEvents + 1
    /\ UNCHANGED <<pc, nMsgs, readerVars, peerRest>>

\* The client's data channel arrives, after the connection came up.
PeerOpensChannel(o) ==
    /\ pc[o] = "open"
    /\ link[o] = "up"
    /\ rpc[o] = "none"
    /\ rpc' = [rpc EXCEPT ![o] = "announced"]
    /\ Queue(o, "DataChannel")
    /\ UNCHANGED <<pc, link, held, inbox, boundVars, peerRest>>

\* A control message arrives on the (reliable, ordered) channel.
PeerSends(o) ==
    /\ pc[o] = "open"
    /\ link[o] = "up"
    /\ rpc[o] # "none"
    /\ nMsgs < MaxMsgs
    /\ \E m \in Msgs : inbox' = [inbox EXCEPT ![o] = Append(@, m)]
    /\ nMsgs' = nMsgs + 1
    /\ UNCHANGED <<pc, link, events, rpc, held, nEvents, peerRest>>

-----------------------------------------------------------------------------
(* run_session *)

taskRest == <<handlerVars, next_session, next_port, public_ip, link, held, inbox,
              boundVars, late, raced>>

TGoto(o, there) == tpc' = [tpc EXCEPT ![o] = there]

\* Whether this session owns the pipeline and the input device.
IsActive(o) == active_session = session_id[o]

MutFinalStates == {"Failed"}  \* Closed does not end the session

\* RTCPeerConnectionState::Failed | RTCPeerConnectionState::Closed => break
FinalStates == {"Failed", "Closed"}

\* The next event of the loop, Connected only when this session is the active
\* one; a failed or closed connection leaves the loop.
TEvent(o) ==
    /\ tpc[o] = "loop"
    /\ events[o] # <<>>
    /\ events' = [events EXCEPT ![o] = Tail(@)]
    /\ LET e == Head(events[o]) IN
          \/ /\ e = "Connected"
             /\ TGoto(o, IF IsActive(o) THEN "bitrate" ELSE "teardown")
             /\ seen' = [seen EXCEPT ![o] = e]
             /\ UNCHANGED <<pressed, rpc>>
          \/ /\ e = "Disconnected"
             /\ pressed' = {}  \* release_input
             /\ seen' = [seen EXCEPT ![o] = e]
             /\ UNCHANGED <<tpc, rpc>>
          \/ /\ e \in FinalStates
             /\ TGoto(o, "teardown")
             /\ UNCHANGED <<seen, pressed, rpc>>
          \/ /\ e = "DataChannel"
             /\ rpc' = [rpc EXCEPT ![o] = "poll"]
             /\ UNCHANGED <<tpc, seen, pressed>>
    /\ UNCHANGED <<sharedVars, current, pc, taskRest>>

\* Connected: bitrate, sink, keyframe flag (not here), connected flag.
TBitrate(o) ==
    /\ tpc[o] = "bitrate"
    /\ bitrate_kbps' = ConfigRate
    /\ TGoto(o, "install")
    /\ UNCHANGED <<client_connected, sink, active_session, current, pc, events, seen, rpc, pressed, taskRest>>

TInstall(o) ==
    /\ tpc[o] = "install"
    /\ sink' = o
    /\ TGoto(o, "enable")
    /\ UNCHANGED <<client_connected, bitrate_kbps, active_session, current, pc, events, seen, rpc, pressed, taskRest>>

TEnable(o) ==
    /\ tpc[o] = "enable"
    /\ client_connected' = TRUE
    /\ TGoto(o, "loop")
    /\ UNCHANGED <<sink, bitrate_kbps, active_session, current, pc, events, seen, rpc, pressed, taskRest>>

MutTTeardownUnchecked(o) ==
    /\ tpc[o] = "teardown"
    /\ TGoto(o, "disable")
    /\ UNCHANGED <<sharedVars, current, pc, events, seen, rpc, pressed, taskRest>>

\* Teardown: only the active session gives back what it holds.
TTeardown(o) ==
    /\ tpc[o] = "teardown"
    /\ TGoto(o, IF IsActive(o) THEN "disable" ELSE "close")
    /\ UNCHANGED <<sharedVars, current, pc, events, seen, rpc, pressed, taskRest>>

TDisable(o) ==
    /\ tpc[o] = "disable"
    /\ client_connected' = FALSE
    /\ TGoto(o, "clear")
    /\ UNCHANGED <<sink, bitrate_kbps, active_session, current, pc, events, seen, rpc, pressed, taskRest>>

TClear(o) ==
    /\ tpc[o] = "clear"
    /\ sink' = None
    /\ TGoto(o, "release")
    /\ UNCHANGED <<client_connected, bitrate_kbps, active_session, current, pc, events, seen, rpc, pressed, taskRest>>

TRelease(o) ==
    /\ tpc[o] = "release"
    /\ pressed' = {}
    /\ TGoto(o, "unregister")
    /\ UNCHANGED <<sharedVars, current, pc, events, seen, rpc, taskRest>>

MutTUnregisterAny(o) ==  \* without Arc::ptr_eq
    /\ tpc[o] = "unregister"
    /\ current' = None
    /\ TGoto(o, "close")
    /\ UNCHANGED <<sharedVars, pc, events, seen, rpc, pressed, taskRest>>

\* Under the lock: forget the connection if it is still the registered one.
TUnregister(o) ==
    /\ tpc[o] = "unregister"
    /\ current' = IF current = o THEN None ELSE current
    /\ TGoto(o, "close")
    /\ UNCHANGED <<sharedVars, pc, events, seen, rpc, pressed, taskRest>>

\* pc.close().await, then the writer and the RTCP task are aborted.
TClose(o) ==
    /\ tpc[o] = "close"
    /\ ClosePc(o)
    /\ TGoto(o, "ended")
    /\ UNCHANGED <<sharedVars, current, seen, rpc, pressed, taskRest>>

TNext(o) ==
    \/ TEvent(o) \/ TBitrate(o) \/ TInstall(o) \/ TEnable(o) \/ TTeardown(o) \/ TDisable(o)
    \/ TClear(o) \/ TRelease(o) \/ TUnregister(o) \/ TClose(o)

-----------------------------------------------------------------------------
(* read_data_channel, for the control channel *)

readerRest == <<managerVars, handlerVars, peerVars, taskVars, boundVars, raced>>

MutAdmittedAlways(o) == TRUE

\* A message is taken up only while the session is the active one.
Admitted(o) == IsActive(o)

\* The next message: drop it, or decode it and go on to apply it.
RMessage(o) ==
    /\ rpc[o] = "poll"
    /\ inbox[o] # <<>>
    /\ inbox' = [inbox EXCEPT ![o] = Tail(@)]
    /\ IF Admitted(o)
         THEN /\ held' = [held EXCEPT ![o] = Head(inbox[o])]
              /\ rpc' = [rpc EXCEPT ![o] = "apply"]
         ELSE UNCHANGED <<held, rpc>>
    /\ UNCHANGED <<sharedVars, pressed, late, readerRest>>

\* Store the bitrate, or inject the event into the input device.
RApply(o) ==
    /\ rpc[o] = "apply"
    /\ LET m == held[o] IN
          \/ /\ m.type = "KeyDown"
             /\ pressed' = pressed \cup {m.key}
             /\ UNCHANGED bitrate_kbps
          \/ /\ m.type = "KeyUp"
             /\ pressed' = pressed \ {m.key}
             /\ UNCHANGED bitrate_kbps
          \/ /\ m.type = "ReleaseAll"
             /\ pressed' = {}
             /\ UNCHANGED bitrate_kbps
          \/ /\ m.type = "SetBitrate"
             /\ bitrate_kbps' = m.kbps
             /\ UNCHANGED pressed
    /\ late' = IF IsActive(o) THEN late ELSE [late EXCEPT ![o] = @ + 1]
    /\ held' = [held EXCEPT ![o] = None]
    /\ rpc' = [rpc EXCEPT ![o] = "poll"]
    /\ UNCHANGED <<client_connected, sink, active_session, inbox, readerRest>>

\* The connection is closed: the channel ends, queued messages may be lost.
RClose(o) ==
    /\ rpc[o] = "poll"
    /\ pc[o] = "closed"
    /\ rpc' = [rpc EXCEPT ![o] = "closed"]
    /\ inbox' = [inbox EXCEPT ![o] = <<>>]
    /\ UNCHANGED <<sharedVars, held, pressed, late, readerRest>>

RNext(o) == RMessage(o) \/ RApply(o) \/ RClose(o)

-----------------------------------------------------------------------------
Next ==
    \E o \in Offers :
        \/ HOffer(o) \/ HContinue(o) \/ HCancel(o)
        \/ PeerChanges(o) \/ PeerOpensChannel(o) \/ PeerSends(o)
        \/ TNext(o) \/ RNext(o)

Spec == Init /\ [][Next]_vars

\* Handlers and tasks are scheduled by the runtime; the clients and the network
\* owe nothing.
Fairness ==
    \A o \in Offers : WF_vars(HContinue(o)) /\ WF_vars(TNext(o)) /\ WF_vars(RNext(o))

FairSpec == Spec /\ Fairness

-----------------------------------------------------------------------------
(* Properties *)

Published(o) == hpc[o] \in {"activate", "spawn", "done"}

\* A handler has taken this connection out of `current` and is closing it, or
\* was dropped while it did.
BeingReplaced(o) ==
    \E h \in Offers :
        hpc[h] \in {"disable", "clear", "release", "close", "failed"} /\ previous[h] = o

\* A registered connection that nobody has closed or is closing.
Live(o) == Published(o) /\ pc[o] = "open" /\ tpc[o] # "close" /\ ~BeingReplaced(o)

\* "Only one client at a time": two connections are never live together.
OneClient == \A a, b \in Offers : Live(a) /\ Live(b) => a = b

\* A live connection is the one the next offer will find in `current` and
\* close, and its input is the one that is admitted: the teardown of an earlier
\* session, however late, takes neither from it.
LiveIsRegistered ==
    \A o \in Offers :
        Live(o) => current = o /\ (IsActive(o) \/ hpc[o] = "activate")

\* Once another session is active (HActivate), the input of an older one stops:
\* of all it has queued, at most the message its reader task had admitted just
\* before is still applied.  Nothing stops it earlier: what the reader takes up
\* after accept_offer released the old client's keys (HRelease) and before
\* HActivate is applied, and a key it presses stays down for the new client.
LateInputBounded == \A o \in Offers : late[o] <= 1

\* The UDP port of a session is not given to another one before every port of
\* the configured range was used: a replaced connection that still closes does
\* not make the next bind fail.
PortsRotate ==
    \A a, b \in Offers :
        port[a] # None /\ port[a] = port[b] /\ session_id[a] < session_id[b]
            => session_id[b] - session_id[a] > MaxPort - MinPort

Advertised(o) == {<<answer[o][i].address, answer[o][i].port>> : i \in HostCandidates(answer[o])}

\* Every answer has both sections and names the session's own port, and once one
\* carried the public address every later one carries that address only, in one
\* candidate however many interfaces the VM has, whether the metadata service
\* still answers or not.
AddressKept ==
    \A b \in Offers : answer[b] # None =>
        /\ \A m \in {"video", "application"} : HasMedia(answer[b], m)
        /\ Advertised(b) \in (SUBSET (Addresses \X {port[b]})) \cup {{<<PublicIp, port[b]>>}}
        /\ \A a \in Offers :
              /\ answer[a] # None
              /\ session_id[a] < session_id[b]
              /\ <<PublicIp, port[a]>> \in Advertised(a)
              => /\ Advertised(b) = {<<PublicIp, port[b]>>}
                 /\ CandidateCount(answer[b]) = 1

\* A live client that the server has seen connect is served: the encoder feeds
\* its connection and the pipeline runs for it.  Only a session that had passed
\* its own check of active_session before this one took over can undo that.
LiveClientServed ==
    \A o \in Offers :
        Live(o) /\ tpc[o] = "loop" /\ seen[o] # "new" /\ ~raced[o]
            => client_connected /\ sink = o

\* A connection that was closed, by its client or by a new offer, does not leave
\* tasks behind: its session task ends and its reader stops.
ClosedSessionEnds ==
    \A o \in Offers :
        pc[o] = "closed" ~> /\ tpc[o] = "ended" \/ hpc[o] = "failed"
                            /\ rpc[o] \notin {"poll", "apply"}

\* "Teardown (only if a newer session has not taken over already)": a teardown
\* clears the connected flag and the sink only while its session is active.
TeardownSparesNewer ==
    [][\A o \in Offers :
         tpc[o] \in {"disable", "clear"} /\ tpc'[o] # tpc[o] => IsActive(o)]_vars

\* "make sure no key stays pressed while the client is unreachable"
NoKeyWhileUnreachable ==
    \A o \in Offers : tpc[o] = "loop" /\ seen[o] = "Disconnected" => pressed = {}

=============================================================================
