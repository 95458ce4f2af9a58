--------------------------- MODULE SessionProofs ---------------------------
(***************************************************************************)
(* Machine-checked theorems about Session, for any number of offers,       *)
(* connection events and messages, any keys, rates, ports and interfaces.  *)
(***************************************************************************)
EXTENDS Session, FiniteSetTheorems, TLAPS

\* A step of the session layer is one of these four.
LEMMA Steps ==
    ASSUME [Next]_vars
    PROVE  \/ \E o \in Offers : HOffer(o) \/ HContinue(o) \/ HCancel(o)
           \/ \E o \in Offers : PeerChanges(o) \/ PeerOpensChannel(o) \/ PeerSends(o)
           \/ \E o \in Offers : TNext(o)
           \/ \E o \in Offers : RNext(o)
           \/ UNCHANGED vars
  BY DEF Next

(***************************************************************************)
(* Types.                                                                  *)
(***************************************************************************)
\* A reader that is about to apply a message has one.
HoldsMessage == \A o \in Offers : rpc[o] = "apply" => held[o] \in Msgs

Typed == TypeOK /\ HoldsMessage

LEMMA InitTyped == Init => Typed
<1> SUFFICES ASSUME Init PROVE Typed
  OBVIOUS
<1>1. /\ MinPort \in MinPort .. MaxPort
      /\ 0 \in 0 .. MaxEvents /\ 0 \in 0 .. MaxMsgs
  BY PortsAssumption, BoundsAssumption
<1>2. events \in [Offers -> Seq(PcEvents)] /\ inbox \in [Offers -> Seq(Msgs)]
  BY DEF Init
<1>3. /\ client_connected \in BOOLEAN /\ public_ip \in BOOLEAN
      /\ raced \in [Offers -> BOOLEAN]
  BY DEF Init
<1>4. TypeOK
  BY <1>1, <1>2, <1>3 DEF Init, TypeOK, HandlerPcs, TaskPcs
<1>5. HoldsMessage
  BY DEF Init, HoldsMessage
<1> QED
  BY <1>4, <1>5 DEF Typed

\* Queues stay queues.
LEMMA QueueType ==
    ASSUME NEW o, NEW e \in PcEvents, events \in [Offers -> Seq(PcEvents)], Queue(o, e)
    PROVE  events' \in [Offers -> Seq(PcEvents)]
<1>1. ASSUME o \in Offers PROVE Append(events[o], e) \in Seq(PcEvents)
  BY <1>1
<1> QED
  BY <1>1 DEF Queue

LEMMA CloseType ==
    ASSUME NEW o, TypeOK, ClosePc(o)
    PROVE  events' \in [Offers -> Seq(PcEvents)] /\ pc' \in [Offers -> {"none", "open", "closed"}]
<1>1. CASE pc[o] = "open"
  BY <1>1, QueueType, "Closed" \in PcEvents DEF ClosePc, TypeOK, PcEvents
<1>2. CASE pc[o] # "open"
  BY <1>2 DEF ClosePc, TypeOK
<1> QED
  BY <1>1, <1>2

LEMMA PortTypes ==
    ASSUME NEW p \in MinPort .. MaxPort
    PROVE  Clamp(p) = p /\ NextPort(p) \in MinPort .. MaxPort
  BY PortsAssumption DEF Clamp, NextPort

LEMMA HandlerType == ASSUME NEW o \in Offers, TypeOK, HOffer(o) \/ HContinue(o) \/ HCancel(o) PROVE TypeOK'
<1> USE PortsAssumption, OffersAssumption
    DEF TypeOK, Goto, HandlerPcs, TaskPcs, PcEvents, sharedVars, managerVars, peerVars, taskVars, readerVars, boundVars, handlerRest
<1>1. CASE HOffer(o)
  BY <1>1 DEF HOffer
<1>2. CASE HTake(o)
  BY <1>2 DEF HTake
<1>3. CASE HDisable(o)
  BY <1>3 DEF HDisable
<1>4. CASE HClear(o)
  BY <1>4 DEF HClear
<1>5. CASE HRelease(o)
  BY <1>5 DEF HRelease
<1>6. CASE HClose(o)
  BY <1>6, CloseType DEF HClose
<1>7. CASE HSessionId(o)
  <2>1. next_session' \in Nat \ {0} /\ session_id' \in [Offers -> Nat]
    BY <1>7 DEF HSessionId
  <2>2. hpc' \in [Offers -> HandlerPcs]
    BY <1>7 DEF HSessionId
  <2> QED
    BY <1>7, <2>1, <2>2 DEF HSessionId
<1>8. CASE HPort(o)
  BY <1>8, PortTypes DEF HPort
<1>9. CASE HPublicIp(o)
  BY <1>9 DEF HPublicIp
<1>10. CASE HNegotiate(o)
  BY <1>10 DEF HNegotiate
<1>11. CASE HNegotiateFails(o)
  BY <1>11 DEF HNegotiateFails
<1>12. CASE HCancel(o)
  BY <1>12, CloseType DEF HCancel
<1>13. CASE HPublish(o)
  BY <1>13 DEF HPublish
<1>14. CASE HActivate(o)
  BY <1>14 DEF HActivate
<1>15. CASE HSpawn(o)
  BY <1>15 DEF HSpawn
<1> QED
  BY <1>1, <1>2, <1>3, <1>4, <1>5, <1>6, <1>7, <1>8, <1>9, <1>10, <1>11, <1>12, <1>13, <1>14, <1>15 DEF HContinue

LEMMA PeerType ==
    ASSUME NEW o \in Offers, TypeOK, PeerChanges(o) \/ PeerOpensChannel(o) \/ PeerSends(o) PROVE TypeOK'
<1> USE PortsAssumption, OffersAssumption, BoundsAssumption
    DEF TypeOK, Queue, HandlerPcs, TaskPcs, PcEvents, sharedVars, managerVars, handlerVars, taskVars, readerVars, boundVars, peerRest
<1>1. CASE PeerChanges(o)
  <2>1. PICK t \in Transitions : link' = [link EXCEPT ![o] = t[2]] /\ Queue(o, t[3])
    BY <1>1 DEF PeerChanges
  <2>2. t[2] \in {"up", "lost", "down"} /\ t[3] \in PcEvents
    BY DEF Transitions
  <2>3. events' \in [Offers -> Seq(PcEvents)]
    BY <2>1, <2>2, QueueType
  <2>4. link' \in [Offers -> {"new", "up", "lost", "down"}]
    BY <2>1, <2>2
  <2>5. nEvents' \in 0 .. MaxEvents
    BY <1>1 DEF PeerChanges
  <2> QED
    BY <1>1, <2>3, <2>4, <2>5 DEF PeerChanges
<1>2. CASE PeerOpensChannel(o)
  <2>1. events' \in [Offers -> Seq(PcEvents)]
    BY <1>2, QueueType DEF PeerOpensChannel
  <2> QED
    BY <1>2, <2>1 DEF PeerOpensChannel
<1>3. CASE PeerSends(o)
  <2>1. PICK m \in Msgs : inbox' = [inbox EXCEPT ![o] = Append(@, m)]
    BY <1>3 DEF PeerSends
  <2>2. Append(inbox[o], m) \in Seq(Msgs)
    OBVIOUS
  <2>3. inbox' \in [Offers -> Seq(Msgs)]
    BY <2>1, <2>2
  <2> QED
    BY <1>3, <2>3 DEF PeerSends
<1> QED
  BY <1>1, <1>2, <1>3

LEMMA TaskType == ASSUME NEW o \in Offers, TypeOK, TNext(o) PROVE TypeOK'
<1> USE PortsAssumption, OffersAssumption
    DEF TypeOK, TGoto, HandlerPcs, TaskPcs, PcEvents, sharedVars, managerVars, handlerVars, boundVars, taskRest
<1>1. CASE TEvent(o)
  <2>1. Tail(events[o]) \in Seq(PcEvents) /\ Head(events[o]) \in PcEvents
    BY <1>1 DEF TEvent
  <2>2. events' \in [Offers -> Seq(PcEvents)]
    BY <1>1, <2>1 DEF TEvent
  <2>3. tpc' \in [Offers -> TaskPcs]
    <3>1. tpc' = tpc \/ \E t \in {"bitrate", "teardown"} : tpc' = [tpc EXCEPT ![o] = t]
      BY <1>1 DEF TEvent
    <3> QED
      BY <3>1
  <2>4. seen' \in [Offers -> {"new", "Connected", "Disconnected"}]
    <3>1. seen' = seen \/ \E e \in {"Connected", "Disconnected"} : seen' = [seen EXCEPT ![o] = e]
      BY <1>1 DEF TEvent
    <3> QED
      BY <3>1
  <2>5. rpc' \in [Offers -> {"none", "announced", "poll", "apply", "closed"}]
    <3>1. rpc' = rpc \/ rpc' = [rpc EXCEPT ![o] = "poll"]
      BY <1>1 DEF TEvent
    <3> QED
      BY <3>1
  <2>6. pressed' \subseteq Keys
    BY <1>1 DEF TEvent
  <2> QED
    BY <1>1, <2>2, <2>3, <2>4, <2>5, <2>6 DEF TEvent
<1>2. CASE TBitrate(o)
  BY <1>2 DEF TBitrate
<1>3. CASE TInstall(o)
  BY <1>3 DEF TInstall
<1>4. CASE TEnable(o)
  BY <1>4 DEF TEnable
<1>5. CASE TTeardown(o)
  BY <1>5 DEF TTeardown
<1>6. CASE TDisable(o)
  BY <1>6 DEF TDisable
<1>7. CASE TClear(o)
  BY <1>7 DEF TClear
<1>8. CASE TRelease(o)
  BY <1>8 DEF TRelease
<1>9. CASE TUnregister(o)
  BY <1>9 DEF TUnregister
<1>10. CASE TClose(o)
  BY <1>10, CloseType DEF TClose
<1> QED
  BY <1>1, <1>2, <1>3, <1>4, <1>5, <1>6, <1>7, <1>8, <1>9, <1>10 DEF TNext

LEMMA ReaderType == ASSUME NEW o \in Offers, TypeOK, HoldsMessage, RNext(o) PROVE TypeOK'
<1> USE PortsAssumption, OffersAssumption
    DEF TypeOK, HandlerPcs, TaskPcs, PcEvents, sharedVars, managerVars, handlerVars, peerVars, taskVars, boundVars, readerRest
<1>1. CASE RMessage(o)
  <2>1. Tail(inbox[o]) \in Seq(Msgs) /\ Head(inbox[o]) \in Msgs
    BY <1>1 DEF RMessage
  <2>2. inbox' \in [Offers -> Seq(Msgs)]
    BY <1>1, <2>1 DEF RMessage
  <2>3. /\ held' = held \/ \E m \in Msgs : held' = [held EXCEPT ![o] = m]
        /\ rpc' = rpc \/ rpc' = [rpc EXCEPT ![o] = "apply"]
    BY <1>1, <2>1 DEF RMessage
  <2>4. held' \in [Offers -> Msgs \cup {None}]
    <3>1. CASE held' = held
      BY <3>1
    <3>2. ASSUME NEW m \in Msgs, held' = [held EXCEPT ![o] = m] PROVE held' \in [Offers -> Msgs \cup {None}]
      BY <3>2
    <3> QED
      BY <2>3, <3>1, <3>2
  <2>5. rpc' \in [Offers -> {"none", "announced", "poll", "apply", "closed"}]
    BY <2>3
  <2> QED
    BY <1>1, <2>2, <2>4, <2>5 DEF RMessage
<1>2. CASE RApply(o)
  <2>1. held[o] \in Msgs
    BY <1>2 DEF RApply, HoldsMessage
  <2>2. /\ bitrate_kbps' \in Rates \cup {ConfigRate}
        /\ pressed' \subseteq Keys
    BY <1>2, <2>1 DEF RApply, Msgs
  <2>3. late' \in [Offers -> Nat]
    BY <1>2 DEF RApply
  <2> QED
    BY <1>2, <2>2, <2>3 DEF RApply
<1>3. CASE RClose(o)
  <2>1. <<>> \in Seq(Msgs)
    OBVIOUS
  <2>2. /\ inbox' \in [Offers -> Seq(Msgs)]
        /\ rpc' \in [Offers -> {"none", "announced", "poll", "apply", "closed"}]
    BY <1>3, <2>1 DEF RClose
  <2> QED
    BY <1>3, <2>2 DEF RClose
<1> QED
  BY <1>1, <1>2, <1>3 DEF RNext

\* Only RMessage puts a message in hand, and a reader keeps it until it applies it.
LEMMA HeldMessage == ASSUME Typed, [Next]_vars PROVE HoldsMessage'
<1> USE DEF Typed, HoldsMessage
<1>1. ASSUME NEW o \in Offers, HOffer(o) \/ HContinue(o) \/ HCancel(o) PROVE UNCHANGED <<rpc, held>>
  BY <1>1 DEF HOffer, HContinue, HCancel, HTake, HDisable, HClear, HRelease, HClose, HSessionId, HPort,
       HPublicIp, HNegotiate, HNegotiateFails, HPublish, HActivate, HSpawn, handlerRest, readerVars
<1>2. ASSUME NEW o \in Offers, PeerChanges(o) \/ PeerOpensChannel(o) \/ PeerSends(o) PROVE HoldsMessage'
  BY <1>2 DEF PeerChanges, PeerOpensChannel, PeerSends, readerVars, TypeOK
<1>3. ASSUME NEW o \in Offers, TNext(o)
      PROVE  UNCHANGED held /\ (rpc' = rpc \/ rpc' = [rpc EXCEPT ![o] = "poll"])
  BY <1>3 DEF TNext, TEvent, TBitrate, TInstall, TEnable, TTeardown, TDisable, TClear, TRelease, TUnregister,
       TClose, taskRest
<1>4. ASSUME NEW o \in Offers, RNext(o) PROVE HoldsMessage'
  <2>1. CASE RMessage(o)
    <3>1. Head(inbox[o]) \in Msgs
      BY <2>1 DEF RMessage, TypeOK
    <3> QED
      BY <2>1, <3>1 DEF RMessage, TypeOK
  <2>2. CASE RApply(o)
    BY <2>2 DEF RApply, TypeOK
  <2>3. CASE RClose(o)
    BY <2>3 DEF RClose, TypeOK
  <2> QED
    BY <1>4, <2>1, <2>2, <2>3 DEF RNext
<1>5. CASE UNCHANGED vars
  BY <1>5 DEF vars, readerVars
<1>6. (\E o \in Offers : TNext(o)) => HoldsMessage'
  BY <1>3 DEF TypeOK
<1> QED
  BY <1>1, <1>2, <1>4, <1>5, <1>6, Steps

LEMMA TypedStep == ASSUME Typed, [Next]_vars PROVE Typed'
<1>1. CASE UNCHANGED vars
  BY <1>1 DEF Typed, TypeOK, HoldsMessage, vars, sharedVars, managerVars, handlerVars, peerVars, taskVars, readerVars, boundVars
<1>2. TypeOK'
  BY <1>1, HandlerType, PeerType, TaskType, ReaderType, Steps DEF Typed
<1> QED
  BY <1>2, HeldMessage DEF Typed

LEMMA AlwaysTyped == Spec => []Typed
  BY InitTyped, TypedStep, PTL DEF Spec

\* The state of the session layer keeps its type: ports stay in the configured
\* range, queues hold connection events and control messages, bounds are kept.
THEOREM SessionTyped == Spec => []TypeOK
  BY AlwaysTyped, PTL DEF Typed

(***************************************************************************)
(* What every run keeps, offers overlapping or not: session ids are unique,*)
(* and a connection, its task and its reader exist only once the handler   *)
(* got that far.                                                           *)
(***************************************************************************)
Identified(o) ==
    hpc[o] \in {"port", "ip", "negotiate", "publish", "activate", "spawn", "done"}

UniqueIds ==
    /\ \A a \in Offers : session_id[a] < next_session
    /\ \A a \in Offers : Identified(a) => session_id[a] # 0
    /\ \A a, b \in Offers : session_id[a] = session_id[b] /\ session_id[a] # 0 => a = b

\* Only the connection of an answered offer has a link, events seen, a task or
\* a reader.
Answered ==
    \A o \in Offers :
        link[o] # "new" \/ seen[o] # "new" \/ tpc[o] # "none" \/ rpc[o] # "none" => hpc[o] = "done"

\* A message applied late was the last one that was admitted.
LateOnce ==
    \A o \in Offers :
        \/ late[o] = 0
        \/ late[o] = 1 /\ rpc[o] # "apply" /\ hpc[o] = "done" /\ ~IsActive(o)

Base == Typed /\ UniqueIds /\ Answered /\ LateOnce

\* The ways of a handler's program counter.
Moves ==
    {<<"idle", "take">>, <<"idle", "failed">>, <<"take", "id">>, <<"take", "disable">>,
     <<"disable", "clear">>, <<"clear", "release">>, <<"release", "close">>, <<"close", "id">>,
     <<"id", "port">>, <<"port", "ip">>, <<"ip", "negotiate">>, <<"negotiate", "publish">>,
     <<"publish", "activate">>, <<"activate", "spawn">>, <<"spawn", "done">>}
    \cup ({"take", "close", "ip", "negotiate", "publish"} \X {"failed"})

LEMMA HandlerMoves ==
    ASSUME NEW o \in Offers, hpc \in [Offers -> HandlerPcs], HOffer(o) \/ HContinue(o) \/ HCancel(o)
    PROVE  \E there \in HandlerPcs : <<hpc[o], there>> \in Moves /\ hpc' = [hpc EXCEPT ![o] = there]
<1> USE DEF Goto, HandlerPcs, Moves
<1>1. CASE HOffer(o)
  BY <1>1 DEF HOffer
<1>2. CASE HTake(o)
  BY <1>2 DEF HTake
<1>3. CASE HDisable(o)
  BY <1>3 DEF HDisable
<1>4. CASE HClear(o)
  BY <1>4 DEF HClear
<1>5. CASE HRelease(o)
  BY <1>5 DEF HRelease
<1>6. CASE HClose(o)
  BY <1>6 DEF HClose
<1>7. CASE HSessionId(o)
  BY <1>7 DEF HSessionId
<1>8. CASE HPort(o)
  BY <1>8 DEF HPort
<1>9. CASE HPublicIp(o)
  BY <1>9 DEF HPublicIp
<1>10. CASE HNegotiate(o)
  BY <1>10 DEF HNegotiate
<1>11. CASE HNegotiateFails(o)
  BY <1>11 DEF HNegotiateFails
<1>12. CASE HCancel(o)
  BY <1>12 DEF HCancel
<1>13. CASE HPublish(o)
  BY <1>13 DEF HPublish
<1>14. CASE HActivate(o)
  BY <1>14 DEF HActivate
<1>15. CASE HSpawn(o)
  BY <1>15 DEF HSpawn
<1> QED
  BY <1>1, <1>2, <1>3, <1>4, <1>5, <1>6, <1>7, <1>8, <1>9, <1>10, <1>11, <1>12, <1>13, <1>14, <1>15 DEF HContinue

\* What the steps of each group leave alone.
LEMMA HandlerFrame ==
    ASSUME NEW o \in Offers, HOffer(o) \/ HContinue(o) \/ HCancel(o)
    PROVE  /\ UNCHANGED <<seen, rpc, late, link>>
           /\ hpc[o] # "done" /\ \E there \in HandlerPcs : hpc' = [hpc EXCEPT ![o] = there]
           /\ UNCHANGED tpc \/ HSpawn(o)
           /\ UNCHANGED active_session \/ HActivate(o)
           /\ UNCHANGED <<session_id, next_session>> \/ HSessionId(o)
           /\ UNCHANGED <<port, next_port>> \/ HPort(o)
           /\ UNCHANGED current \/ HTake(o) \/ HPublish(o)
           /\ UNCHANGED client_connected \/ HDisable(o)
           /\ UNCHANGED sink \/ HClear(o)
           /\ UNCHANGED raced \/ HActivate(o)
           /\ UNCHANGED previous \/ HTake(o)
  BY DEF HOffer, HContinue, HCancel, HTake, HDisable, HClear, HRelease, HClose, HSessionId, HPort, HPublicIp,
       HNegotiate, HNegotiateFails, HPublish, HActivate, HSpawn, Goto, HandlerPcs,
       sharedVars, managerVars, taskVars, readerVars, handlerRest

LEMMA PeerFrame ==
    ASSUME NEW o \in Offers, PeerChanges(o) \/ PeerOpensChannel(o) \/ PeerSends(o)
    PROVE  /\ UNCHANGED <<sharedVars, managerVars, handlerVars, taskVars, pressed, late, raced, pc>>
           /\ UNCHANGED rpc \/ PeerOpensChannel(o)
           /\ UNCHANGED link \/ PeerChanges(o)
  BY DEF PeerChanges, PeerOpensChannel, PeerSends, peerRest, readerVars

LEMMA TaskFrame ==
    ASSUME NEW o \in Offers, TNext(o)
    PROVE  /\ UNCHANGED <<handlerVars, next_session, next_port, public_ip, active_session, link, held, late, raced>>
           /\ tpc[o] # "none" /\ (UNCHANGED tpc \/ \E there \in TaskPcs \ {"none"} : tpc' = [tpc EXCEPT ![o] = there])
           /\ UNCHANGED <<seen, rpc>> \/ TEvent(o)
           /\ UNCHANGED current \/ TUnregister(o)
  BY DEF TNext, TEvent, TBitrate, TInstall, TEnable, TTeardown, TDisable, TClear, TRelease, TUnregister, TClose,
       TGoto, TaskPcs, taskRest, sharedVars

LEMMA ReaderFrame ==
    ASSUME NEW o \in Offers, RNext(o)
    PROVE  /\ UNCHANGED <<managerVars, handlerVars, peerVars, taskVars, raced,
                          client_connected, sink, active_session>>
           /\ rpc[o] # "none" /\ (UNCHANGED rpc \/ \E there \in {"poll", "apply", "closed"} : rpc' = [rpc EXCEPT ![o] = there])
           /\ UNCHANGED late \/ RApply(o)
  BY DEF RNext, RMessage, RApply, RClose, readerRest, sharedVars

LEMMA UniqueIdsStep == ASSUME Typed, UniqueIds, [Next]_vars PROVE UniqueIds'
<1> USE DEF UniqueIds, Identified
<1>1. ASSUME NEW o \in Offers, HOffer(o) \/ HContinue(o) \/ HCancel(o) PROVE UniqueIds'
  <2>0. session_id \in [Offers -> Nat] /\ next_session \in Nat /\ next_session # 0 /\ hpc \in [Offers -> HandlerPcs]
    BY DEF Typed, TypeOK
  <2>1. CASE HSessionId(o)
    BY <2>0, <2>1 DEF HSessionId, Goto
  <2>2. CASE UNCHANGED <<session_id, next_session>>
    <3>1. Identified(o)' => Identified(o)
      <4>1. ~HSessionId(o)
        BY <2>0, <2>2 DEF HSessionId
      <4>2. hpc'[o] = "port" => hpc[o] = "id" /\ HSessionId(o)
        BY <1>1, <2>0 DEF HOffer, HContinue, HCancel, HTake, HDisable, HClear, HRelease, HClose, HSessionId,
             HPort, HPublicIp, HNegotiate, HNegotiateFails, HPublish, HActivate, HSpawn, Goto
      <4> QED
        BY <1>1, <2>0, <4>1, <4>2, HandlerMoves DEF Moves
    <3> QED
      BY <1>1, <2>0, <2>2, <3>1, HandlerFrame
  <2> QED
    BY <1>1, <2>1, <2>2, HandlerFrame
<1>2. UNCHANGED <<session_id, next_session, hpc>> => UniqueIds'
  OBVIOUS
<1> QED
  BY <1>1, <1>2, PeerFrame, TaskFrame, ReaderFrame, Steps DEF handlerVars, managerVars, vars

LEMMA AnsweredStep == ASSUME Typed, Answered, [Next]_vars PROVE Answered'
<1> USE DEF Answered
<1>0. /\ hpc \in [Offers -> HandlerPcs] /\ tpc \in [Offers -> TaskPcs] /\ DOMAIN rpc = Offers
      /\ DOMAIN seen = Offers /\ DOMAIN link = Offers
  BY DEF Typed, TypeOK
<1>1. ASSUME NEW o \in Offers, HOffer(o) \/ HContinue(o) \/ HCancel(o) PROVE Answered'
  <2>1. CASE HSpawn(o)
    BY <1>0, <1>1, <2>1, HandlerFrame DEF HSpawn, Goto
  <2>2. CASE UNCHANGED tpc
    BY <1>0, <1>1, <2>2, HandlerFrame
  <2> QED
    BY <1>1, <2>1, <2>2, HandlerFrame
<1>2. ASSUME NEW o \in Offers, PeerChanges(o) \/ PeerOpensChannel(o) \/ PeerSends(o) PROVE Answered'
  <2>1. UNCHANGED rpc \/ rpc' = [rpc EXCEPT ![o] = "announced"]
    BY <1>2, PeerFrame DEF PeerOpensChannel
  <2>2. hpc[o] = "done" /\ UNCHANGED <<hpc, tpc, seen>>
    BY <1>2, PeerFrame DEF PeerChanges, PeerOpensChannel, PeerSends, handlerVars, taskVars
  <2>3. \A p \in Offers : p # o => link'[p] = link[p]
    BY <1>0, <1>2, PeerFrame DEF PeerChanges
  <2> QED
    BY <1>0, <2>1, <2>2, <2>3
<1>3. ASSUME NEW o \in Offers, TNext(o) PROVE Answered'
  <2>1. \A p \in Offers : p # o => seen'[p] = seen[p] /\ rpc'[p] = rpc[p]
    BY <1>0, <1>3, TaskFrame DEF TEvent
  <2> QED
    BY <1>0, <1>3, <2>1, TaskFrame DEF handlerVars
<1>4. ASSUME NEW o \in Offers, RNext(o) PROVE Answered'
  BY <1>0, <1>4, ReaderFrame DEF handlerVars, peerVars, taskVars
<1>5. CASE UNCHANGED vars
  BY <1>5 DEF vars, handlerVars, peerVars, taskVars, readerVars
<1> QED
  BY <1>1, <1>2, <1>3, <1>4, <1>5, Steps

LEMMA LateOnceStep == ASSUME Typed, UniqueIds, Answered, LateOnce, [Next]_vars PROVE LateOnce'
<1> USE DEF LateOnce, IsActive
<1>0. /\ hpc \in [Offers -> HandlerPcs] /\ rpc \in [Offers -> {"none", "announced", "poll", "apply", "closed"}]
      /\ session_id \in [Offers -> Nat] /\ late \in [Offers -> Nat]
  BY DEF Typed, TypeOK
<1>1. ASSUME NEW o \in Offers, HOffer(o) \/ HContinue(o) \/ HCancel(o) PROVE LateOnce'
  <2>1. CASE HActivate(o)
    BY <1>0, <1>1, <2>1, HandlerFrame DEF HActivate, Goto, UniqueIds, Identified
  <2>2. CASE HSessionId(o)
    BY <1>0, <1>1, <2>2, HandlerFrame DEF HSessionId, sharedVars
  <2>3. CASE UNCHANGED <<active_session, session_id>>
    BY <1>0, <1>1, <2>3, HandlerFrame
  <2> QED
    BY <1>1, <2>1, <2>2, <2>3, HandlerFrame
<1>2. ASSUME NEW o \in Offers, PeerChanges(o) \/ PeerOpensChannel(o) \/ PeerSends(o) PROVE LateOnce'
  BY <1>0, <1>2, PeerFrame DEF PeerOpensChannel, handlerVars, sharedVars
<1>3. ASSUME NEW o \in Offers, TNext(o) PROVE LateOnce'
  <2>1. \A p \in Offers : rpc'[p] = "apply" => rpc[p] = "apply"
    BY <1>0, <1>3, TaskFrame DEF TEvent
  <2> QED
    BY <1>3, <2>1, TaskFrame DEF handlerVars
<1>4. ASSUME NEW o \in Offers, RNext(o) PROVE LateOnce'
  <2>1. CASE RMessage(o)
    BY <1>0, <1>4, <2>1, ReaderFrame DEF RMessage, Admitted, handlerVars
  <2>2. CASE RApply(o)
    <3>1. late[o] = 0 /\ hpc[o] = "done" /\ UNCHANGED <<hpc, active_session, session_id>>
      BY <1>0, <1>4, <2>2, ReaderFrame DEF RApply, Answered, handlerVars
    <3>2. rpc' = [rpc EXCEPT ![o] = "poll"] /\ late' = IF IsActive(o) THEN late ELSE [late EXCEPT ![o] = @ + 1]
      BY <2>2 DEF RApply
    <3> QED
      BY <1>0, <3>1, <3>2
  <2>3. CASE RClose(o)
    BY <1>0, <1>4, <2>3, ReaderFrame DEF RClose, handlerVars
  <2> QED
    BY <1>4, <2>1, <2>2, <2>3 DEF RNext
<1>5. CASE UNCHANGED vars
  BY <1>5 DEF vars, handlerVars, sharedVars, readerVars
<1> QED
  BY <1>1, <1>2, <1>3, <1>4, <1>5, Steps

LEMMA AlwaysBase == Spec => []Base
<1>1. Init => Base
  BY InitTyped DEF Init, Base, UniqueIds, Identified, Answered, LateOnce
<1>2. Base /\ [Next]_vars => Base'
  BY TypedStep, UniqueIdsStep, AnsweredStep, LateOnceStep DEF Base
<1> QED
  BY <1>1, <1>2, PTL DEF Spec

\* Once another session is active at most one more control message of an older one
\* is applied, the one its reader had admitted before, however the handlers, tasks
\* and readers interleave and whether or not offers overlap.
THEOREM LateInputIsBounded == Spec => []LateInputBounded
<1>1. Base => LateInputBounded
  BY DEF Base, LateOnce, LateInputBounded
<1> QED
  BY <1>1, AlwaysBase, PTL

(***************************************************************************)
(* One offer at a time.                                                    *)
(***************************************************************************)
Handling(o) == hpc[o] \notin {"idle", "done", "failed"}

OneHandler == \A a, b \in Offers : Handling(a) /\ Handling(b) => a = b

\* The id of the session that is given a port next.
Upcoming == IF \E h \in Offers : hpc[h] = "port" THEN next_session - 1 ELSE next_session

Ports == MaxPort - MinPort + 1

\* After d further sessions the rotation is d ports further on.
Rotation ==
    /\ \A h \in Offers : hpc[h] = "port" => session_id[h] = next_session - 1
    /\ \A a \in Offers : hpc[a] \in {"idle", "take", "disable", "clear", "release", "close", "id", "port"}
                            => port[a] = None
    /\ \A a \in Offers : port[a] # None =>
          LET d == Upcoming - session_id[a] IN
          /\ d > 0
          /\ d <= Ports => next_port \in {port[a] + d, port[a] + d - Ports}

\* While an offer is handled nothing is registered, until its own connection is.
Registered ==
    \A h \in Offers :
        /\ hpc[h] \in {"disable", "clear", "release", "close", "id", "port", "ip", "negotiate", "publish"}
              => current = None
        /\ hpc[h] \in {"activate", "spawn"} => current = h

\* Where a session task is that changes the pipeline without looking again at
\* which session is active.
Changing(o) == tpc[o] \in {"bitrate", "install", "enable", "disable", "clear"}

RaceKnown ==
    \A o, p \in Offers :
        hpc[o] \in {"spawn", "done"} /\ IsActive(o) /\ ~raced[o] /\ Changing(p) => p = o

\* The task has handled, or will have handled before its event number i, that
\* the connection came up.
CameUp(o, i) == seen[o] # "new" \/ \E j \in 1 .. i - 1 : events[o][j] = "Connected"

ConnectsFirst ==
    \A o \in Offers :
        /\ \A i \in 1 .. Len(events[o]) : events[o][i] = "Disconnected" => CameUp(o, i)
        /\ link[o] \in {"up", "lost"} => CameUp(o, Len(events[o]) + 1)

Served ==
    \A o \in Offers : Live(o) /\ ~raced[o] =>
        /\ tpc[o] = "loop" /\ seen[o] # "new" => client_connected /\ sink = o
        /\ tpc[o] = "enable" => sink = o

LEMMA OneHandlerStep ==
    ASSUME ~Overlapping, Typed, OneHandler, [Next]_vars PROVE OneHandler'
<1> USE DEF OneHandler, Handling
<1>0. hpc \in [Offers -> HandlerPcs]
  BY DEF Typed, TypeOK
<1>1. ASSUME NEW o \in Offers, HOffer(o) \/ HContinue(o) \/ HCancel(o) PROVE OneHandler'
  <2>1. CASE HOffer(o)
    BY <1>0, <1>1, <2>1, HandlerMoves DEF HOffer
  <2>2. CASE HContinue(o) \/ HCancel(o)
    <3>1. hpc[o] # "idle"
      BY <2>2 DEF HContinue, HCancel, HTake, HDisable, HClear, HRelease, HClose, HSessionId, HPort, HPublicIp,
           HNegotiate, HNegotiateFails, HPublish, HActivate, HSpawn
    <3>2. Handling(o)
      BY <1>0, <1>1, <3>1, HandlerMoves DEF Moves
    <3> QED
      BY <1>0, <1>1, <3>2, HandlerMoves
  <2> QED
    BY <1>1, <2>1, <2>2
<1>2. UNCHANGED hpc => OneHandler'
  OBVIOUS
<1> QED
  BY <1>1, <1>2, PeerFrame, TaskFrame, ReaderFrame, Steps DEF handlerVars, vars

(***************************************************************************)
(* The rotation of ports.                                                  *)
(***************************************************************************)
LEMMA PortArithmetic ==
    ASSUME NEW p \in MinPort .. MaxPort, NEW q \in MinPort .. MaxPort, NEW d \in Int, d > 0,
           d <= Ports => q \in {p + d, p + d - Ports}
    PROVE  /\ d + 1 <= Ports => NextPort(q) \in {p + (d + 1), p + (d + 1) - Ports}
           /\ p = q => d > MaxPort - MinPort
  BY PortsAssumption DEF Ports, NextPort

\* The port just given is one step behind.
LEMMA PortAfter ==
    ASSUME NEW p \in MinPort .. MaxPort PROVE NextPort(p) \in {p + 1, p + 1 - Ports}
  BY PortsAssumption DEF Ports, NextPort

LEMMA NonePort == None \notin MinPort .. MaxPort
  BY PortsAssumption, OffersAssumption

LEMMA RotationStep ==
    ASSUME ~Overlapping, Typed, UniqueIds, OneHandler, Rotation, PortsRotate, [Next]_vars
    PROVE  Rotation' /\ PortsRotate'
<1>0. /\ hpc \in [Offers -> HandlerPcs] /\ session_id \in [Offers -> Nat] /\ next_session \in Nat \ {0}
      /\ port \in [Offers -> MinPort .. MaxPort \cup {None}] /\ next_port \in MinPort .. MaxPort
  BY DEF Typed, TypeOK
<1>1. ASSUME NEW o \in Offers, HOffer(o) \/ HContinue(o) \/ HCancel(o) PROVE Rotation' /\ PortsRotate'
  <2>1. CASE HSessionId(o)
    <3>1. /\ hpc[o] = "id" /\ hpc' = [hpc EXCEPT ![o] = "port"]
          /\ session_id' = [session_id EXCEPT ![o] = next_session] /\ next_session' = next_session + 1
          /\ UNCHANGED <<port, next_port>>
      BY <2>1 DEF HSessionId, Goto
    <3>2. \A h \in Offers : h # o => hpc[h] # "port"
      BY <3>1 DEF OneHandler, Handling
    <3>3. Upcoming = next_session /\ Upcoming' = next_session
      BY <1>0, <3>1, <3>2 DEF Upcoming
    <3>4. port[o] = None
      BY <3>1 DEF Rotation
    <3>5. Rotation'
      BY <1>0, <3>1, <3>2, <3>3, <3>4 DEF Rotation
    <3>6. PortsRotate'
      BY <1>0, <3>1, <3>4 DEF PortsRotate
    <3> QED
      BY <3>5, <3>6
  <2>2. CASE HPort(o)
    <3>1. /\ hpc[o] = "port" /\ hpc' = [hpc EXCEPT ![o] = "ip"]
          /\ port' = [port EXCEPT ![o] = next_port] /\ next_port' = NextPort(next_port)
          /\ UNCHANGED <<session_id, next_session>>
      BY <1>0, <2>2, PortTypes DEF HPort, Goto
    <3>2. \A h \in Offers : h # o => hpc[h] # "port"
      BY <3>1 DEF OneHandler, Handling
    <3>3. session_id[o] = next_session - 1 /\ Upcoming = next_session - 1 /\ Upcoming' = next_session
      BY <1>0, <3>1, <3>2 DEF Upcoming, Rotation
    <3>4. \A a \in Offers : port[a] # None => a # o /\ session_id[a] < session_id[o]
      BY <1>0, <3>1, <3>3 DEF Rotation
    <3>5. ASSUME NEW a \in Offers, port[a] # None
          PROVE  LET d == Upcoming - session_id[a] IN
                 /\ d > 0
                 /\ d + 1 <= Ports => next_port' \in {port[a] + (d + 1), port[a] + (d + 1) - Ports}
                 /\ port[a] = next_port => d > MaxPort - MinPort
      <4> DEFINE d == Upcoming - session_id[a]
      <4>1. d \in Int /\ d > 0 /\ (d <= Ports => next_port \in {port[a] + d, port[a] + d - Ports})
        BY <1>0, <3>3, <3>5 DEF Rotation
      <4>2. port[a] \in MinPort .. MaxPort
        BY <1>0, <3>5
      <4> HIDE DEF d
      <4>3. /\ d + 1 <= Ports => NextPort(next_port) \in {port[a] + (d + 1), port[a] + (d + 1) - Ports}
            /\ port[a] = next_port => d > MaxPort - MinPort
        BY <1>0, <4>1, <4>2, PortArithmetic
      <4> QED
        BY <3>1, <4>1, <4>3 DEF d
    <3>6. next_port' \in {next_port + 1, next_port + 1 - Ports}
      BY <1>0, <3>1, PortAfter
    <3>7. Rotation'
      <4>1. \A a \in Offers : port'[a] # None =>
               LET d == Upcoming' - session_id[a] IN
               d > 0 /\ (d <= Ports => next_port' \in {port'[a] + d, port'[a] + d - Ports})
        <5>1. ASSUME NEW a \in Offers, a # o, port[a] # None
              PROVE  LET d == Upcoming' - session_id[a] IN
                     d > 0 /\ (d <= Ports => next_port' \in {port[a] + d, port[a] + d - Ports})
          <6>1. Upcoming' - session_id[a] = (Upcoming - session_id[a]) + 1
            BY <1>0, <3>3
          <6>2. Upcoming - session_id[a] \in Int
            BY <1>0, <3>3
          <6> QED
            BY <3>5, <5>1, <6>1, <6>2
        <5>2. Upcoming' - session_id[o] = 1
          BY <1>0, <3>3
        <5> QED
          BY <1>0, <3>1, <3>6, <5>1, <5>2
      <4> QED
        BY <1>0, <3>1, <3>2, <4>1 DEF Rotation
    <3>8. PortsRotate'
      <4>1. \A a \in Offers : port[a] # None /\ port[a] = next_port => session_id[o] - session_id[a] > MaxPort - MinPort
        BY <3>3, <3>5
      <4> QED
        BY <1>0, <3>1, <3>4, <4>1 DEF PortsRotate
    <3> QED
      BY <3>7, <3>8
  <2>3. CASE UNCHANGED <<session_id, next_session, port, next_port>> /\ ~HPort(o) /\ ~HSessionId(o)
    <3>1. \A h \in Offers : hpc'[h] = "port" <=> hpc[h] = "port"
      <4>1. hpc[o] # "port" /\ hpc'[o] # "port"
        BY <1>1, <1>0, <2>3 DEF HOffer, HContinue, HCancel, HTake, HDisable, HClear, HRelease, HClose, HPublicIp,
             HNegotiate, HNegotiateFails, HPublish, HActivate, HSpawn, Goto
      <4> QED
        BY <1>0, <1>1, <4>1, HandlerMoves
    <3>2. Upcoming' = Upcoming
      BY <2>3, <3>1 DEF Upcoming
    <3>3. ASSUME NEW a \in Offers,
                 hpc'[a] \in {"idle", "take", "disable", "clear", "release", "close", "id", "port"}
          PROVE  hpc[a] \in {"idle", "take", "disable", "clear", "release", "close", "id", "port"}
      BY <1>0, <1>1, <3>3, HandlerMoves DEF Moves
    <3> QED
      BY <2>3, <3>1, <3>2, <3>3 DEF Rotation, PortsRotate
  <2> QED
    BY <1>1, <2>1, <2>2, <2>3, HandlerFrame DEF HPort, HSessionId
<1>2. UNCHANGED <<hpc, session_id, next_session, port, next_port>> => Rotation' /\ PortsRotate'
  BY DEF Rotation, PortsRotate, Upcoming
<1> QED
  BY <1>1, <1>2, PeerFrame, TaskFrame, ReaderFrame, Steps DEF handlerVars, managerVars, vars

(***************************************************************************)
(* The registered connection.                                              *)
(***************************************************************************)
LEMMA RegisteredStep ==
    ASSUME ~Overlapping, Typed, Answered, OneHandler, Registered, [Next]_vars PROVE Registered'
<1> USE DEF Registered
<1>0. hpc \in [Offers -> HandlerPcs]
  BY DEF Typed, TypeOK
<1>1. ASSUME NEW o \in Offers, HOffer(o) \/ HContinue(o) \/ HCancel(o) PROVE Registered'
  <2>1. CASE HTake(o)
    BY <1>0, <2>1 DEF HTake, Goto, OneHandler, Handling
  <2>2. CASE HPublish(o)
    BY <1>0, <2>2 DEF HPublish, Goto, OneHandler, Handling
  <2>3. CASE UNCHANGED current /\ ~HTake(o) /\ ~HPublish(o)
    <3>1. /\ hpc[o] # "take" \/ hpc'[o] = "failed"
          /\ hpc[o] # "publish" \/ hpc'[o] = "failed"
      BY <1>0, <1>1, <2>3 DEF HOffer, HContinue, HCancel, HDisable, HClear, HRelease, HClose, HSessionId, HPort,
           HPublicIp, HNegotiate, HNegotiateFails, HActivate, HSpawn, Goto
    <3> QED
      BY <1>0, <1>1, <2>3, <3>1, HandlerMoves DEF Moves
  <2> QED
    BY <1>1, <2>1, <2>2, <2>3, HandlerFrame DEF HTake, HPublish
<1>2. ASSUME NEW o \in Offers, TNext(o) PROVE Registered'
  <2>1. hpc[o] = "done" /\ UNCHANGED hpc
    BY <1>2, TaskFrame DEF Answered, handlerVars
  <2>2. current' = current \/ (current = o /\ current' = None)
    BY <1>2, TaskFrame DEF TUnregister
  <2> QED
    BY <2>1, <2>2
<1>3. UNCHANGED <<hpc, current>> => Registered'
  OBVIOUS
<1> QED
  BY <1>1, <1>2, <1>3, PeerFrame, ReaderFrame, Steps DEF handlerVars, managerVars, vars

\* Closing a connection leaves it closed, or as it was if it was not open.
LEMMA Closed ==
    ASSUME NEW o, TypeOK, ClosePc(o)
    PROVE  \A p \in Offers : pc'[p] = "open" => pc[p] = "open" /\ p # o
  BY DEF ClosePc, TypeOK

\* A step of a handler makes a connection live only by registering it.
LEMMA LiveOnlyByPublish ==
    ASSUME Typed, Answered, NEW o \in Offers, HOffer(o) \/ HContinue(o) \/ HCancel(o), NEW p \in Offers, Live(p)'
    PROVE  Live(p) \/ (HPublish(o) /\ p = o)
<1>0. /\ hpc \in [Offers -> HandlerPcs] /\ previous \in [Offers -> Offers \cup {None}]
      /\ pc \in [Offers -> {"none", "open", "closed"}] /\ tpc \in [Offers -> TaskPcs]
  BY DEF Typed, TypeOK
<1>1. Published(p)' => Published(p) \/ (HPublish(o) /\ p = o)
  <2>1. hpc[o] = "publish" /\ hpc'[o] = "activate" => HPublish(o)
    BY <1>0 DEF HOffer, HContinue, HCancel, HTake, HDisable, HClear, HRelease, HClose, HSessionId, HPort,
         HPublicIp, HNegotiate, HNegotiateFails, HActivate, HSpawn, Goto
  <2> QED
    BY <1>0, <2>1, HandlerMoves DEF Moves, Published
<1>2. pc'[p] = "open" /\ Published(p)' => pc[p] = "open"
  <2>1. CASE HClose(o)
    BY <2>1, Closed DEF HClose, Typed
  <2>2. CASE HNegotiate(o)
    BY <1>0, <2>2 DEF HNegotiate, Goto, Published
  <2>3. CASE HCancel(o)
    BY <2>3, Closed DEF HCancel, Typed
  <2>4. CASE UNCHANGED pc
    BY <2>4
  <2> QED
    BY <2>1, <2>2, <2>3, <2>4 DEF HOffer, HContinue, HTake, HDisable, HClear, HRelease, HSessionId, HPort,
         HPublicIp, HNegotiateFails, HPublish, HActivate, HSpawn, peerVars
<1>3. tpc'[p] # "close" => tpc[p] # "close"
  <2>1. CASE HSpawn(o)
    BY <1>0, <2>1, HandlerFrame DEF HSpawn, Answered
  <2> QED
    BY <2>1, HandlerFrame
<1>4. BeingReplaced(p) => BeingReplaced(p)' \/ pc'[p] # "open"
  <2> SUFFICES ASSUME NEW h \in Offers, previous[h] = p,
                      hpc[h] \in {"disable", "clear", "release", "close", "failed"}
               PROVE  BeingReplaced(p)' \/ pc'[p] # "open"
    BY DEF BeingReplaced
  <2>1. CASE h # o
    <3>1. previous'[h] = previous[h] /\ hpc'[h] = hpc[h]
      BY <1>0, <2>1, HandlerMoves, HandlerFrame DEF HTake
    <3> QED
      BY <3>1 DEF BeingReplaced
  <2>2. CASE h = o /\ HClose(o)
    BY <2>2, Closed DEF HClose, Typed
  <2>3. CASE h = o /\ ~HClose(o)
    <3>1. hpc'[o] # "id"
      BY <1>0, <2>3 DEF HOffer, HContinue, HCancel, HTake, HDisable, HClear, HRelease, HSessionId, HPort,
           HPublicIp, HNegotiate, HNegotiateFails, HPublish, HActivate, HSpawn, Goto
    <3>2. hpc'[o] \in {"disable", "clear", "release", "close", "failed"}
      BY <1>0, <2>3, <3>1, HandlerMoves DEF Moves
    <3>3. previous'[o] = p
      BY <2>3, HandlerFrame DEF HTake
    <3> QED
      BY <3>2, <3>3 DEF BeingReplaced
  <2> QED
    BY <2>1, <2>2, <2>3
<1> QED
  BY <1>1, <1>2, <1>3, <1>4 DEF Live

\* No other step makes a connection live, and its own teardown ends that.
LEMMA LiveInTask ==
    ASSUME Typed, NEW o \in Offers, TNext(o), NEW p \in Offers, Live(p)'
    PROVE  Live(p) /\ ~(p = o /\ TUnregister(o))
<1>0. tpc \in [Offers -> TaskPcs] /\ pc \in [Offers -> {"none", "open", "closed"}]
  BY DEF Typed, TypeOK
<1>1. UNCHANGED <<hpc, previous>>
  BY TaskFrame DEF handlerVars
<1>2. Published(p) /\ ~BeingReplaced(p)
  BY <1>1 DEF Live, Published, BeingReplaced
<1>3. CASE TClose(o)
  BY <1>0, <1>2, <1>3, Closed DEF TClose, TGoto, Live, Typed
<1>4. CASE UNCHANGED pc /\ ~TClose(o)
  <2>1. tpc[o] # "close"
    BY <1>4 DEF TNext, TEvent, TBitrate, TInstall, TEnable, TTeardown, TDisable, TClear, TRelease, TUnregister
  <2> QED
    BY <1>0, <1>2, <1>4, <2>1, TaskFrame DEF Live, TUnregister, TGoto
<1> QED
  BY <1>3, <1>4 DEF TNext, TEvent, TBitrate, TInstall, TEnable, TTeardown, TDisable, TClear, TRelease,
       TUnregister, TClose

LEMMA LiveUnchanged ==
    ASSUME NEW p \in Offers, UNCHANGED <<hpc, previous, pc, tpc>>, Live(p)' PROVE Live(p)
  BY DEF Live, Published, BeingReplaced

LEMMA LiveIsRegisteredStep ==
    ASSUME ~Overlapping, Typed, UniqueIds, Answered, OneHandler, Registered, LiveIsRegistered, [Next]_vars
    PROVE  LiveIsRegistered'
<1>0. /\ hpc \in [Offers -> HandlerPcs] /\ session_id \in [Offers -> Nat]
      /\ previous \in [Offers -> Offers \cup {None}] /\ pc \in [Offers -> {"none", "open", "closed"}]
  BY DEF Typed, TypeOK
<1>1. None \notin Offers
  BY OffersAssumption DEF Offers
<1>2. ASSUME NEW o \in Offers, HOffer(o) \/ HContinue(o) \/ HCancel(o), NEW p \in Offers, Live(p)'
      PROVE  current' = p /\ (IsActive(p)' \/ hpc'[p] = "activate")
  <2>1. CASE HPublish(o) /\ p = o
    BY <1>0, <2>1 DEF HPublish, Goto
  <2>2. CASE Live(p) /\ ~(HPublish(o) /\ p = o)
    <3>1. current = p /\ (IsActive(p) \/ hpc[p] = "activate")
      BY <2>2 DEF LiveIsRegistered
    <3>2. CASE HTake(o)
      <4>1. hpc'[o] = "disable" /\ previous'[o] = p
        BY <1>0, <1>1, <3>1, <3>2 DEF HTake, Goto
      <4> QED
        BY <1>2, <4>1 DEF Live, BeingReplaced
    <3>3. CASE HPublish(o)
      BY <1>1, <3>1, <3>3 DEF HPublish, Registered
    <3>4. CASE HActivate(o)
      <4>1. p = o
        BY <3>1, <3>4 DEF HActivate, Registered
      <4> QED
        BY <3>1, <3>4, <4>1 DEF HActivate, IsActive, managerVars
    <3>5. CASE HSessionId(o)
      BY <1>1, <3>1, <3>5 DEF HSessionId, Registered
    <3>6. CASE UNCHANGED <<current, active_session, session_id>> /\ ~HActivate(o)
      <4>1. hpc[p] = "activate" => hpc'[p] = "activate"
        <5>1. hpc[o] # "activate"
          BY <1>0, <1>2, <3>6 DEF HOffer, HContinue, HCancel, HTake, HDisable, HClear, HRelease, HClose, HSessionId,
               HPort, HPublicIp, HNegotiate, HNegotiateFails, HPublish, HActivate, HSpawn
        <5> QED
          BY <1>0, <1>2, <5>1, HandlerMoves
      <4> QED
        BY <3>1, <3>6, <4>1 DEF IsActive
    <3> QED
      BY <1>2, <3>2, <3>3, <3>4, <3>5, <3>6, HandlerFrame
  <2> QED
    BY <1>2, <2>1, <2>2, LiveOnlyByPublish
<1>3. ASSUME NEW o \in Offers, TNext(o), NEW p \in Offers, Live(p)'
      PROVE  current' = p /\ (IsActive(p)' \/ hpc'[p] = "activate")
  <2>1. Live(p) /\ ~(p = o /\ TUnregister(o))
    BY <1>3, LiveInTask
  <2>2. current = p /\ (IsActive(p) \/ hpc[p] = "activate")
    BY <2>1 DEF LiveIsRegistered
  <2>3. current' = current
    BY <1>3, <2>1, <2>2, TaskFrame DEF TUnregister
  <2> QED
    BY <1>3, <2>2, <2>3, TaskFrame DEF IsActive, handlerVars
<1>4. UNCHANGED <<sharedVars, managerVars, handlerVars, pc, tpc>> => LiveIsRegistered'
  BY LiveUnchanged DEF LiveIsRegistered, sharedVars, managerVars, handlerVars, IsActive
<1>5. (\E o \in Offers : RNext(o)) => LiveIsRegistered'
  BY ReaderFrame, LiveUnchanged DEF LiveIsRegistered, managerVars, handlerVars, peerVars, taskVars, IsActive
<1> QED
  BY <1>2, <1>3, <1>4, <1>5, PeerFrame, Steps DEF LiveIsRegistered, taskVars, peerVars, vars

(***************************************************************************)
(* The client that is served.                                              *)
(***************************************************************************)
\* Two active sessions are one.
LEMMA ActiveOnce ==
    ASSUME Typed, UniqueIds, NEW a \in Offers, NEW b \in Offers, Identified(a), IsActive(a), IsActive(b)
    PROVE  a = b
  BY DEF UniqueIds, IsActive

LEMMA EntersChanging ==
    ASSUME Typed, NEW o \in Offers, TNext(o)
    PROVE  /\ Changing(o)' => Changing(o) \/ IsActive(o)
           /\ \A p \in Offers : p # o => tpc'[p] = tpc[p] /\ seen'[p] = seen[p]
           /\ UNCHANGED <<client_connected, sink>> \/ Changing(o)
<1> USE DEF Changing, TGoto
<1>0. DOMAIN tpc = Offers /\ DOMAIN seen = Offers
  BY DEF Typed, TypeOK
<1>1. CASE TEvent(o)
  BY <1>0, <1>1 DEF TEvent, sharedVars
<1>2. CASE TTeardown(o)
  BY <1>0, <1>2 DEF TTeardown, sharedVars
<1>3. CASE TBitrate(o) \/ TInstall(o) \/ TEnable(o)
  BY <1>0, <1>3 DEF TBitrate, TInstall, TEnable
<1>4. CASE TDisable(o) \/ TClear(o) \/ TRelease(o)
  BY <1>0, <1>4 DEF TDisable, TClear, TRelease, sharedVars
<1>5. CASE TUnregister(o) \/ TClose(o)
  BY <1>0, <1>5 DEF TUnregister, TClose, sharedVars
<1> QED
  BY <1>1, <1>2, <1>3, <1>4, <1>5 DEF TNext

LEMMA RaceKnownStep ==
    ASSUME Typed, UniqueIds, Answered, RaceKnown, [Next]_vars PROVE RaceKnown'
<1> USE DEF RaceKnown
<1>0. /\ hpc \in [Offers -> HandlerPcs] /\ session_id \in [Offers -> Nat] /\ tpc \in [Offers -> TaskPcs]
      /\ raced \in [Offers -> BOOLEAN]
  BY DEF Typed, TypeOK
<1>1. ASSUME NEW o \in Offers, HOffer(o) \/ HContinue(o) \/ HCancel(o),
             NEW a \in Offers, NEW p \in Offers,
             hpc'[a] \in {"spawn", "done"}, IsActive(a)', ~raced'[a], Changing(p)'
      PROVE  p = a
  <2>1. CASE HActivate(o)
    <3>1. /\ UNCHANGED <<tpc, session_id>> /\ active_session' = session_id[o] /\ hpc[o] = "activate"
          /\ raced' = [raced EXCEPT ![o] = \E q \in Offers :
                          tpc[q] \in {"bitrate", "install", "enable", "disable", "clear"}]
          /\ hpc' = [hpc EXCEPT ![o] = "spawn"]
      BY <2>1 DEF HActivate, Goto, taskVars
    <3>2. a = o
      BY <1>0, <1>1, <3>1 DEF UniqueIds, Identified, IsActive
    <3> QED
      BY <1>0, <1>1, <3>1, <3>2 DEF Changing
  <2>2. CASE HSpawn(o)
    <3>1. /\ UNCHANGED <<session_id, active_session, raced>> /\ hpc[o] = "spawn"
          /\ tpc' = [tpc EXCEPT ![o] = "loop"] /\ hpc' = [hpc EXCEPT ![o] = "done"]
      BY <2>2 DEF HSpawn, Goto, sharedVars
    <3> QED
      BY <1>0, <1>1, <3>1 DEF Changing, IsActive
  <2>3. CASE HSessionId(o)
    <3>1. /\ UNCHANGED <<active_session, raced, tpc>> /\ hpc' = [hpc EXCEPT ![o] = "port"]
          /\ session_id' = [session_id EXCEPT ![o] = next_session]
      BY <2>3 DEF HSessionId, Goto, sharedVars, taskVars, handlerRest
    <3> QED
      BY <1>0, <1>1, <3>1 DEF Changing, IsActive
  <2>4. CASE UNCHANGED <<tpc, active_session, session_id, raced>> /\ ~HActivate(o) /\ ~HSpawn(o)
    <3>1. hpc'[o] \notin {"spawn", "done"}
      BY <1>0, <1>1, <2>4 DEF HOffer, HContinue, HCancel, HTake, HDisable, HClear, HRelease, HClose, HSessionId,
           HPort, HPublicIp, HNegotiate, HNegotiateFails, HPublish, Goto
    <3> QED
      BY <1>0, <1>1, <2>4, <3>1, HandlerMoves DEF Changing, IsActive
  <2> QED
    BY <1>1, <2>1, <2>2, <2>3, <2>4, HandlerFrame DEF HActivate, HSpawn, taskVars, sharedVars, handlerRest
<1>2. ASSUME NEW o \in Offers, TNext(o) PROVE RaceKnown'
  <2>1. UNCHANGED <<hpc, active_session, session_id, raced>>
    BY <1>2, TaskFrame DEF handlerVars
  <2>2. Identified(o)
    BY <1>2, TaskFrame DEF Answered, Identified
  <2>3. ASSUME NEW a \in Offers, hpc[a] \in {"spawn", "done"}, IsActive(a), ~raced[a], Changing(o)'
        PROVE  o = a
    BY <1>2, <2>2, <2>3, EntersChanging, ActiveOnce
  <2> QED
    BY <1>2, <2>1, <2>3, EntersChanging DEF IsActive, Changing
<1>3. UNCHANGED <<hpc, active_session, session_id, raced, tpc>> => RaceKnown'
  BY DEF IsActive, Changing
<1> QED
  BY <1>1, <1>2, <1>3, PeerFrame, ReaderFrame, Steps DEF sharedVars, handlerVars, taskVars, vars

LEMMA EventQueued ==
    ASSUME ConnectsFirst, events \in [Offers -> Seq(PcEvents)], NEW o \in Offers, NEW e \in PcEvents, Queue(o, e),
           UNCHANGED seen, \A p \in Offers : p # o => link'[p] = link[p],
           e = "Disconnected" => link[o] \in {"up", "lost"},
           link'[o] \in {"up", "lost"} => link[o] \in {"up", "lost"} \/ e = "Connected"
    PROVE  ConnectsFirst'
<1>0. PICK n \in Nat : n = Len(events[o])
  OBVIOUS
<1>1. /\ Len(events'[o]) = n + 1 /\ events'[o][n + 1] = e
      /\ \A i \in 1 .. n : events'[o][i] = events[o][i]
      /\ \A p \in Offers : p # o => events'[p] = events[p]
  BY <1>0 DEF Queue
<1>2. \A i \in 1 .. n + 1 : CameUp(o, i) => CameUp(o, i)'
  BY <1>1 DEF CameUp
<1>3. ASSUME NEW i \in 1 .. n + 1, events'[o][i] = "Disconnected" PROVE CameUp(o, i)'
  <2>1. CASE i = n + 1
    BY <1>0, <1>1, <1>2, <1>3, <2>1 DEF ConnectsFirst
  <2>2. CASE i \in 1 .. n
    BY <1>0, <1>1, <1>2, <1>3, <2>2 DEF ConnectsFirst
  <2> QED
    BY <1>1, <2>1, <2>2
<1>4. ASSUME link'[o] \in {"up", "lost"} PROVE CameUp(o, n + 2)'
  <2>1. CASE e = "Connected"
    BY <1>1, <2>1 DEF CameUp
  <2>2. CASE link[o] \in {"up", "lost"}
    <3>1. CameUp(o, n + 1)'
      BY <1>0, <1>1, <1>2, <2>2 DEF ConnectsFirst
    <3> QED
      BY <1>1, <3>1 DEF CameUp
  <2> QED
    BY <1>4, <2>1, <2>2
<1>5. ASSUME NEW p \in Offers, p # o
      PROVE  /\ \A i \in 1 .. Len(events'[p]) : events'[p][i] = "Disconnected" => CameUp(p, i)'
             /\ link'[p] \in {"up", "lost"} => CameUp(p, Len(events[p]) + 1)'
  <2>1. events'[p] = events[p] /\ link'[p] = link[p]
    BY <1>1, <1>5
  <2> QED
    BY <2>1 DEF ConnectsFirst, CameUp
<1>6. link'[o] \in {"up", "lost"} => CameUp(o, Len(events[o]) + 1)'
  BY <1>1, <1>4 DEF CameUp
<1> QED
  BY <1>1, <1>3, <1>5, <1>6 DEF ConnectsFirst

LEMMA CloseQueued ==
    ASSUME ConnectsFirst, Typed, NEW o \in Offers \cup {None}, pc[o] = "open" => o \in Offers, ClosePc(o),
           UNCHANGED <<seen, link>>
    PROVE  ConnectsFirst'
<1>1. CASE pc[o] = "open"
  BY <1>1, EventQueued DEF ClosePc, Typed, TypeOK, PcEvents
<1>2. CASE pc[o] # "open"
  BY <1>2 DEF ClosePc, ConnectsFirst, CameUp
<1> QED
  BY <1>1, <1>2

LEMMA ConnectsFirstStep == ASSUME Typed, ConnectsFirst, [Next]_vars PROVE ConnectsFirst'
<1>0. /\ events \in [Offers -> Seq(PcEvents)] /\ link \in [Offers -> {"new", "up", "lost", "down"}]
      /\ previous \in [Offers -> Offers \cup {None}] /\ pc \in [Offers -> {"none", "open", "closed"}]
      /\ seen \in [Offers -> {"new", "Connected", "Disconnected"}]
  BY DEF Typed, TypeOK
<1>1. UNCHANGED <<events, seen, link>> => ConnectsFirst'
  BY DEF ConnectsFirst, CameUp
<1>2. ASSUME NEW o \in Offers, ClosePc(o), UNCHANGED <<seen, link>> PROVE ConnectsFirst'
  BY <1>2, CloseQueued
<1>3. ASSUME NEW o \in Offers, HOffer(o) \/ HContinue(o) \/ HCancel(o) PROVE ConnectsFirst'
  <2>1. ASSUME ClosePc(previous[o]), UNCHANGED <<seen, link>>, hpc[o] = "close" PROVE ConnectsFirst'
    <3>1. CASE previous[o] \in Offers
      BY <1>2, <2>1, <3>1
    <3>2. CASE previous[o] = None
      <4>1. UNCHANGED events \/ \E e \in PcEvents : events' = [events EXCEPT ![None] = Append(@, e)]
        BY <2>1, <3>2 DEF ClosePc, Queue, PcEvents
      <4>2. None \notin Offers
        BY OffersAssumption DEF Offers
      <4>3. UNCHANGED events
        BY <1>0, <4>1, <4>2
      <4> QED
        BY <1>1, <2>1, <4>3
    <3> QED
      BY <1>0, <3>1, <3>2
  <2>2. CASE HClose(o)
    BY <1>3, <2>1, <2>2, HandlerFrame DEF HClose
  <2>3. CASE HCancel(o)
    BY <1>1, <1>2, <1>3, <2>1, <2>3, HandlerFrame DEF HCancel
  <2>4. CASE UNCHANGED events
    BY <1>1, <1>3, <2>4, HandlerFrame
  <2> QED
    BY <1>3, <2>2, <2>3, <2>4 DEF HOffer, HContinue, HTake, HDisable, HClear, HRelease, HSessionId, HPort,
         HPublicIp, HNegotiate, HNegotiateFails, HPublish, HActivate, HSpawn
<1>4. ASSUME NEW o \in Offers, PeerChanges(o) \/ PeerOpensChannel(o) \/ PeerSends(o) PROVE ConnectsFirst'
  <2>0. UNCHANGED seen
    BY <1>4, PeerFrame DEF taskVars
  <2>1. CASE PeerChanges(o)
    <3>1. PICK t \in Transitions : link[o] = t[1] /\ link' = [link EXCEPT ![o] = t[2]] /\ Queue(o, t[3])
      BY <2>1 DEF PeerChanges
    <3>2. /\ t[3] \in PcEvents
          /\ t[3] = "Disconnected" => t[1] = "up"
          /\ t[2] \in {"up", "lost"} => t[1] = "up" \/ t[3] = "Connected"
      BY DEF Transitions, PcEvents
    <3>3. link'[o] = t[2] /\ \A p \in Offers : p # o => link'[p] = link[p]
      BY <1>0, <3>1
    <3> QED
      BY <1>0, <2>0, <3>1, <3>2, <3>3, EventQueued
  <2>2. CASE PeerOpensChannel(o)
    BY <1>0, <2>0, <2>2, EventQueued DEF PeerOpensChannel, PcEvents
  <2>3. CASE PeerSends(o)
    BY <1>1, <2>0, <2>3 DEF PeerSends
  <2> QED
    BY <1>4, <2>1, <2>2, <2>3
<1>5. ASSUME NEW o \in Offers, TNext(o) PROVE ConnectsFirst'
  <2>1. CASE TEvent(o)
    <3>0. PICK n \in Nat : n = Len(events[o]) /\ n > 0
      BY <1>0, <2>1 DEF TEvent
    <3>1. /\ events[o][1] = "Connected" => seen'[o] # "new"
          /\ seen[o] # "new" => seen'[o] # "new"
          /\ \A p \in Offers : p # o => events'[p] = events[p] /\ seen'[p] = seen[p]
          /\ link' = link
      <4>1. Head(events[o]) = events[o][1]
        BY <1>0, <2>1 DEF TEvent
      <4>2. \/ seen' = [seen EXCEPT ![o] = "Connected"]
            \/ seen' = [seen EXCEPT ![o] = "Disconnected"]
            \/ UNCHANGED seen /\ events[o][1] # "Connected"
        BY <2>1, <4>1 DEF TEvent, FinalStates
      <4>3. events' = [events EXCEPT ![o] = Tail(@)] /\ link' = link
        BY <2>1 DEF TEvent, taskRest
      <4> QED
        BY <1>0, <4>2, <4>3
    <3>2. Len(events'[o]) = n - 1 /\ \A i \in 1 .. n - 1 : events'[o][i] = events[o][i + 1]
      BY <1>0, <2>1, <3>0 DEF TEvent
    <3>3. ASSUME NEW i \in 1 .. n, CameUp(o, i + 1) PROVE CameUp(o, i)'
      <4>1. CASE seen[o] # "new"
        BY <3>1, <4>1 DEF CameUp
      <4>2. CASE \E j \in 1 .. i : events[o][j] = "Connected"
        <5>1. PICK j \in 1 .. i : events[o][j] = "Connected"
          BY <4>2
        <5>2. CASE j = 1
          BY <3>1, <5>1, <5>2 DEF CameUp
        <5>3. CASE j # 1
          <6>1. j - 1 \in 1 .. i - 1 /\ j - 1 \in 1 .. n - 1 /\ (j - 1) + 1 = j
            BY <5>3
          <6>2. events'[o][j - 1] = "Connected"
            BY <3>2, <5>1, <6>1
          <6> QED
            BY <6>1, <6>2 DEF CameUp
        <5> QED
          BY <5>2, <5>3
      <4> QED
        BY <3>3, <4>1, <4>2 DEF CameUp
    <3>4. ASSUME NEW i \in 1 .. n - 1, events'[o][i] = "Disconnected" PROVE CameUp(o, i)'
      <4>1. i + 1 \in 1 .. n /\ i \in 1 .. n
        BY <3>0
      <4> QED
        BY <3>0, <3>2, <3>3, <3>4, <4>1 DEF ConnectsFirst
    <3>5. ASSUME link[o] \in {"up", "lost"} PROVE CameUp(o, Len(events[o]) + 1)'
      <4>1. CameUp(o, n + 1) /\ n \in 1 .. n
        BY <3>0, <3>5 DEF ConnectsFirst
      <4>2. CameUp(o, n)'
        BY <3>3, <4>1
      <4> QED
        BY <3>0, <3>2, <4>2 DEF CameUp
    <3>6. ASSUME NEW p \in Offers, p # o
          PROVE  /\ \A i \in 1 .. Len(events'[p]) : events'[p][i] = "Disconnected" => CameUp(p, i)'
                 /\ link'[p] \in {"up", "lost"} => CameUp(p, Len(events[p]) + 1)'
      <4>1. events'[p] = events[p] /\ seen'[p] = seen[p] /\ link'[p] = link[p]
        BY <3>1, <3>6
      <4> QED
        BY <4>1 DEF ConnectsFirst, CameUp
    <3> QED
      BY <3>1, <3>2, <3>4, <3>5, <3>6 DEF ConnectsFirst
  <2>2. CASE TClose(o)
    BY <1>2, <2>2 DEF TClose, taskRest
  <2>3. CASE UNCHANGED <<events, seen>>
    BY <1>1, <1>5, <2>3, TaskFrame
  <2> QED
    BY <1>5, <2>1, <2>2, <2>3 DEF TNext, TBitrate, TInstall, TEnable, TTeardown, TDisable, TClear, TRelease, TUnregister
<1> QED
  BY <1>1, <1>3, <1>4, <1>5, ReaderFrame, Steps DEF peerVars, taskVars, vars

LEMMA ServedStep ==
    ASSUME ~Overlapping, Typed, UniqueIds, Answered, OneHandler, Registered, LiveIsRegistered, RaceKnown,
           ConnectsFirst, Served, [Next]_vars
    PROVE  Served'
<1>0. /\ hpc \in [Offers -> HandlerPcs] /\ tpc \in [Offers -> TaskPcs] /\ raced \in [Offers -> BOOLEAN]
      /\ seen \in [Offers -> {"new", "Connected", "Disconnected"}] /\ events \in [Offers -> Seq(PcEvents)]
      /\ None \notin Offers
  BY OffersAssumption DEF Typed, TypeOK, Offers
<1>1. ASSUME NEW o \in Offers, HOffer(o) \/ HContinue(o) \/ HCancel(o),
             NEW p \in Offers, Live(p)', ~raced'[p], tpc'[p] \in {"loop", "enable"},
             tpc'[p] = "loop" => seen'[p] # "new"
      PROVE  sink' = p /\ (tpc'[p] = "loop" => client_connected')
  <2>1. tpc'[p] = tpc[p] /\ seen'[p] = seen[p]
    BY <1>0, <1>1, HandlerFrame DEF HSpawn, Answered
  <2>2. hpc[p] = "done" /\ p # o
    BY <1>0, <1>1, <2>1, HandlerFrame DEF Answered
  <2>3. raced'[p] = raced[p]
    BY <1>0, <1>1, <2>2, HandlerFrame DEF HActivate
  <2>4. Live(p)
    BY <1>1, <2>2, LiveOnlyByPublish
  <2>5. current = p
    BY <2>4 DEF LiveIsRegistered
  <2>6. UNCHANGED <<client_connected, sink>>
    BY <1>0, <1>1, <2>5, HandlerFrame DEF HDisable, HClear, Registered
  <2> QED
    BY <1>1, <2>1, <2>3, <2>4, <2>6 DEF Served
<1>2. ASSUME NEW o \in Offers, TNext(o),
             NEW p \in Offers, Live(p)', ~raced'[p], tpc'[p] \in {"loop", "enable"},
             tpc'[p] = "loop" => seen'[p] # "new"
      PROVE  sink' = p /\ (tpc'[p] = "loop" => client_connected')
  <2>1. Live(p) /\ ~raced[p]
    BY <1>2, LiveInTask, TaskFrame
  <2>2. CASE p # o
    <3>1. tpc'[p] = tpc[p] /\ seen'[p] = seen[p]
      BY <1>2, <2>2, EntersChanging
    <3>2. hpc[p] = "done" /\ IsActive(p)
      BY <1>2, <2>1, <3>1 DEF Answered, LiveIsRegistered
    <3>3. ~Changing(o)
      BY <2>1, <2>2, <3>2 DEF RaceKnown
    <3> QED
      BY <1>2, <2>1, <3>1, <3>3, EntersChanging DEF Served
  <2>3. CASE p = o /\ TEvent(o)
    <3>1. tpc[o] = "loop" /\ seen[o] # "new"
      <4>1. CASE Head(events[o]) = "Disconnected"
        <5>1. 1 \in 1 .. Len(events[o]) /\ events[o][1] = "Disconnected"
          BY <1>0, <2>3, <4>1 DEF TEvent
        <5>2. CameUp(o, 1)
          BY <5>1 DEF ConnectsFirst
        <5> QED
          BY <2>3, <5>2 DEF CameUp, TEvent
      <4>2. CASE Head(events[o]) # "Disconnected"
        BY <1>0, <1>2, <2>3, <4>2 DEF TEvent, TGoto
      <4> QED
        BY <4>1, <4>2
    <3>2. UNCHANGED <<client_connected, sink>>
      BY <2>3 DEF TEvent, sharedVars
    <3> QED
      BY <2>1, <2>3, <3>1, <3>2 DEF Served
  <2>4. CASE p = o /\ (TInstall(o) \/ TEnable(o))
    BY <1>0, <1>2, <2>1, <2>4 DEF TInstall, TEnable, TGoto, Served
  <2>5. CASE p = o /\ (TBitrate(o) \/ TTeardown(o) \/ TDisable(o))
    BY <1>0, <1>2, <2>5 DEF TBitrate, TTeardown, TDisable, TGoto
  <2>6. CASE p = o /\ (TClear(o) \/ TRelease(o) \/ TUnregister(o) \/ TClose(o))
    BY <1>0, <1>2, <2>6 DEF TClear, TRelease, TUnregister, TClose, TGoto
  <2> QED
    BY <1>2, <2>2, <2>3, <2>4, <2>5, <2>6 DEF TNext
<1>3. UNCHANGED <<hpc, previous, pc, tpc, seen, raced, client_connected, sink>> => Served'
  BY LiveUnchanged DEF Served
<1> QED
  BY <1>1, <1>2, <1>3, PeerFrame, ReaderFrame, Steps DEF Served, sharedVars, handlerVars, peerVars, taskVars, vars

(***************************************************************************)
(* The address in the answers.                                             *)
(***************************************************************************)
\* The answer of offer b when the first n interfaces had a candidate in time.
AnswerOf(b, n) ==
    IF address[b] = None THEN LocalDescription(b, n)
                         ELSE RewriteHostCandidates(LocalDescription(b, n), address[b])

\* The address is looked up when the id is the latest, and an answer is made
\* from what was found; the public address, once found, stays known.
AddressFound(h) ==
    /\ hpc[h] \in {"port", "ip"} => session_id[h] = next_session - 1
    /\ hpc[h] \in {"idle", "take", "disable", "clear", "release", "close", "id", "port", "ip"}
          => address[h] = None
    /\ address[h] = PublicIp => public_ip
    /\ hpc[h] = "negotiate" /\ public_ip => address[h] = PublicIp

AnswerMade(b) ==
    /\ hpc[b] \in {"publish", "activate", "spawn", "done"}
    /\ \E n \in 1 .. Len(Interfaces) : answer[b] = AnswerOf(b, n)
    /\ \A a \in Offers :
          address[a] = PublicIp /\ session_id[a] < session_id[b] => address[b] = PublicIp

Addressed ==
    /\ \A h \in Offers : AddressFound(h)
    /\ \A b \in Offers : answer[b] # None => AnswerMade(b)

\* What the rewrite looks at in a candidate of ours.
LEMMA CandidateLine ==
    ASSUME NEW a, NEW p
    PROVE  LET line == Candidate("host", "udp", a, p) IN
           IsHost(line) /\ line.kind = "candidate" /\ Key(line) = <<"udp", p>>
  BY DEF Candidate, IsHost, Key

\* The lines of a local description.
LEMMA LocalLines ==
    ASSUME NEW o, NEW n \in 0 .. Len(Interfaces)
    PROVE  LET sdp == LocalDescription(o, n) IN
           /\ DOMAIN sdp = 1 .. 4 + n
           /\ sdp[1] = Media("video") /\ sdp[2] = Connection(Interfaces[1])
           /\ sdp[3] = Media("application") /\ sdp[4] = Connection(Unspecified)
           /\ \A i \in 1 .. n : sdp[4 + i] = Candidate("host", "udp", Interfaces[i], port[o])
<1> DEFINE head == <<Media("video"), Connection(Interfaces[1]), Media("application"), Connection(Unspecified)>>
           tail == [i \in 1 .. n |-> Candidate("host", "udp", Interfaces[i], port[o])]
<1>1. n \in Nat
  BY AddressesAssumption
<1>2. tail \in Seq({tail[i] : i \in 1 .. n}) /\ Len(tail) = n
  BY <1>1
<1>3. head \in Seq({head[i] : i \in 1 .. 4}) /\ Len(head) = 4
  OBVIOUS
<1>4. /\ DOMAIN (head \o tail) = 1 .. 4 + n
      /\ \A i \in 1 .. 4 : (head \o tail)[i] = head[i]
      /\ \A i \in 1 .. n : (head \o tail)[4 + i] = tail[i]
  BY <1>1, <1>2, <1>3
<1> QED
  BY <1>1, <1>4 DEF LocalDescription

\* All of its candidates are host candidates, on the session's port.
LEMMA LocalCandidates ==
    ASSUME NEW o, NEW n \in 0 .. Len(Interfaces)
    PROVE  LET sdp == LocalDescription(o, n) IN
           /\ HostCandidates(sdp) = 5 .. 4 + n
           /\ {i \in DOMAIN sdp : sdp[i].kind = "candidate"} = 5 .. 4 + n
           /\ \A i \in 5 .. 4 + n : sdp[i] = Candidate("host", "udp", Interfaces[i - 4], port[o])
<1> DEFINE sdp == LocalDescription(o, n)
<1>1. n \in Nat
  BY AddressesAssumption
<1>2. ASSUME NEW i \in 5 .. 4 + n PROVE sdp[i] = Candidate("host", "udp", Interfaces[i - 4], port[o])
  <2>1. i - 4 \in 1 .. n /\ 4 + (i - 4) = i
    BY <1>1
  <2> QED
    BY <2>1, LocalLines
<1>3. ASSUME NEW i \in 5 .. 4 + n PROVE IsHost(sdp[i]) /\ sdp[i].kind = "candidate"
  BY <1>2, CandidateLine
<1>4. \A i \in 1 .. 4 : sdp[i].kind # "candidate"
  <2>1. sdp[1].kind = "m" /\ sdp[2].kind = "c" /\ sdp[3].kind = "m" /\ sdp[4].kind = "c"
    BY LocalLines DEF Media, Connection
  <2> QED
    BY <2>1
<1>5. DOMAIN sdp = 1 .. 4 + n
  BY LocalLines
<1> HIDE DEF sdp
<1>6. \A i \in 1 .. 4 + n : i \in 1 .. 4 \/ i \in 5 .. 4 + n
  BY <1>1
<1>7. 5 .. 4 + n \subseteq 1 .. 4 + n
  BY <1>1
<1>8. HostCandidates(sdp) = 5 .. 4 + n /\ {i \in DOMAIN sdp : sdp[i].kind = "candidate"} = 5 .. 4 + n
  BY <1>3, <1>4, <1>5, <1>6, <1>7 DEF HostCandidates, IsHost
<1> QED
  BY <1>2, <1>8 DEF sdp

\* The rewrite keeps the four other lines and the first candidate.
LEMMA RewrittenLines ==
    ASSUME NEW o, NEW n \in 1 .. Len(Interfaces)
    PROVE  LET sdp == RewriteHostCandidates(LocalDescription(o, n), PublicIp) IN
           /\ DOMAIN sdp = 1 .. 5
           /\ sdp[1] = Media("video") /\ sdp[3] = Media("application")
           /\ HostCandidates(sdp) = {5}
           /\ {i \in DOMAIN sdp : sdp[i].kind = "candidate"} = {5}
           /\ sdp[5].address = PublicIp /\ sdp[5].port = port[o]
<1> DEFINE local == LocalDescription(o, n)
           sdp == RewriteHostCandidates(local, PublicIp)
<1>1. n \in Nat /\ n > 0 /\ n \in 0 .. Len(Interfaces)
  BY AddressesAssumption
<1>2. /\ DOMAIN local = 1 .. 4 + n /\ HostCandidates(local) = 5 .. 4 + n
      /\ \A i \in 5 .. 4 + n : local[i] = Candidate("host", "udp", Interfaces[i - 4], port[o])
  BY <1>1, LocalLines, LocalCandidates
<1>3. local[1] = Media("video") /\ local[2] = Connection(Interfaces[1])
      /\ local[3] = Media("application") /\ local[4] = Connection(Unspecified)
  BY <1>1, LocalLines
<1> HIDE DEF local
<1>4. ASSUME NEW i \in 5 .. 4 + n PROVE Key(local[i]) = <<"udp", port[o]>>
  BY <1>2, CandidateLine
<1>5. ASSUME NEW i \in 1 .. 4 + n PROVE Repeated(local, i) <=> i > 5
  <2>1. 5 \in 5 .. 4 + n
    BY <1>1
  <2>2. CASE i > 5
    <3>1. i \in 5 .. 4 + n /\ 5 < i
      BY <1>1, <2>2
    <3> QED
      BY <1>2, <1>4, <2>1, <2>2, <3>1 DEF Repeated
  <2>3. CASE i <= 5
    <3>1. \A j \in 5 .. 4 + n : ~(j < i)
      BY <1>1, <2>3
    <3>2. ~(i > 5)
      BY <2>3
    <3> QED
      BY <1>2, <3>1, <3>2 DEF Repeated
  <2>4. i > 5 \/ i <= 5
    BY <1>1
  <2> QED
    BY <2>2, <2>3, <2>4
<1>6. DOMAIN sdp = 1 .. 5 /\ \A i \in 1 .. 5 : sdp[i] = WithAddress(local[i], PublicIp)
  <2>1. DOMAIN sdp = {i \in 1 .. 4 + n : ~(i > 5)}
    BY <1>2, <1>5 DEF RewriteHostCandidates
  <2>2. {i \in 1 .. 4 + n : ~(i > 5)} = 1 .. 5
    BY <1>1
  <2>3. \A i \in DOMAIN sdp : sdp[i] = WithAddress(local[i], PublicIp)
    BY DEF RewriteHostCandidates
  <2> HIDE DEF sdp
  <2> QED
    BY <2>1, <2>2, <2>3
<1> HIDE DEF sdp
<1>7. sdp[1] = Media("video") /\ sdp[3] = Media("application")
  BY <1>3, <1>6 DEF WithAddress, IsHost, Media
<1>8. sdp[2].kind = "c" /\ sdp[4].kind = "c"
  BY <1>3, <1>6 DEF WithAddress, IsHost, Connection
<1>9. local[5] = Candidate("host", "udp", Interfaces[1], port[o])
  <2>1. 5 \in 5 .. 4 + n /\ 5 - 4 = 1
    BY <1>1
  <2> QED
    BY <1>2, <2>1
<1>10. IsHost(sdp[5]) /\ sdp[5].address = PublicIp /\ sdp[5].port = port[o]
  BY <1>6, <1>9 DEF WithAddress, IsHost, Candidate
<1>11. sdp[1].kind = "m" /\ sdp[3].kind = "m"
  BY <1>7 DEF Media
<1>12. \A i \in 1 .. 5 : sdp[i].kind = "candidate" <=> i = 5
  <2>1. \A i \in 1 .. 5 : i \in {1, 2, 3, 4, 5}
    OBVIOUS
  <2> QED
    BY <1>8, <1>10, <1>11, <2>1 DEF IsHost
<1>13. HostCandidates(sdp) = {5} /\ {i \in DOMAIN sdp : sdp[i].kind = "candidate"} = {5}
  BY <1>6, <1>10, <1>12 DEF HostCandidates, IsHost
<1> QED
  BY <1>6, <1>7, <1>10, <1>13 DEF local, sdp

\* Every local description has a candidate, or the offer is refused.
LEMMA NoCandidate == ASSUME NEW o PROVE CandidateCount(LocalDescription(o, 0)) = 0
<1>1. 0 \in 0 .. Len(Interfaces)
  BY AddressesAssumption
<1>2. 5 .. 4 + 0 = {}
  OBVIOUS
<1> QED
  BY <1>1, <1>2, LocalCandidates, FS_EmptySet DEF CandidateCount

\* What the handler does to the ids, addresses and answers.
LEMMA AddressFrame ==
    ASSUME NEW o \in Offers, Typed, HOffer(o) \/ HContinue(o) \/ HCancel(o)
    PROVE  /\ UNCHANGED <<session_id, next_session>> \/ HSessionId(o)
           /\ UNCHANGED <<public_ip, address>> \/ HPublicIp(o)
           /\ UNCHANGED answer \/ HNegotiate(o) \/ answer' = [answer EXCEPT ![o] = None]
           /\ UNCHANGED port \/ HPort(o)
  BY DEF HOffer, HContinue, HCancel, HTake, HDisable, HClear, HRelease, HClose, HSessionId, HPort, HPublicIp,
       HNegotiate, HNegotiateFails, HPublish, HActivate, HSpawn, Goto, handlerRest, managerVars

LEMMA AnswerKept ==
    ASSUME NEW b, NEW n, address'[b] = address[b], port'[b] = port[b]
    PROVE  AnswerOf(b, n)' = AnswerOf(b, n)
  BY DEF AnswerOf, LocalDescription

\* The address is looked up once per offer, while no other offer is handled.
LEMMA AddressFoundStep ==
    ASSUME Typed, OneHandler, Addressed, [Next]_vars PROVE \A h \in Offers : AddressFound(h)'
<1> USE DEF Addressed, AddressFound
<1>0. /\ hpc \in [Offers -> HandlerPcs] /\ session_id \in [Offers -> Nat] /\ next_session \in Nat
      /\ public_ip \in BOOLEAN /\ address \in [Offers -> {None, PublicIp}] /\ None # PublicIp
  BY AddressesAssumption DEF Typed, TypeOK
<1>1. ASSUME NEW o \in Offers, HOffer(o) \/ HContinue(o) \/ HCancel(o), NEW h \in Offers PROVE AddressFound(h)'
  <2>0. PICK there \in HandlerPcs : <<hpc[o], there>> \in Moves /\ hpc' = [hpc EXCEPT ![o] = there]
    BY <1>0, <1>1, HandlerMoves
  <2>1. Handling(h) /\ Handling(o) => h = o
    BY DEF OneHandler
  <2>2. CASE HSessionId(o)
    <3>1. hpc[o] = "id" /\ hpc'[o] = "port" /\ next_session' = next_session + 1
          /\ session_id' = [session_id EXCEPT ![o] = next_session] /\ UNCHANGED <<public_ip, address>>
      BY <1>0, <2>2 DEF HSessionId, Goto
    <3>2. CASE h = o
      BY <1>0, <3>1, <3>2
    <3>3. CASE h # o
      <4>1. hpc'[h] = hpc[h] /\ ~Handling(h)
        BY <1>0, <2>0, <2>1, <3>1, <3>3 DEF Handling
      <4> QED
        BY <1>0, <3>1, <3>3, <4>1 DEF Handling
    <3> QED
      BY <3>2, <3>3
  <2>3. CASE HPublicIp(o)
    <3>1. /\ hpc[o] = "ip" /\ hpc'[o] = "negotiate" /\ (public_ip => public_ip') /\ UNCHANGED <<session_id, next_session>>
          /\ address' = [address EXCEPT ![o] = IF public_ip' THEN PublicIp ELSE None]
      BY <1>0, <2>3 DEF HPublicIp, Goto
    <3>2. CASE h = o
      BY <1>0, <3>1, <3>2
    <3>3. CASE h # o
      <4>1. hpc'[h] = hpc[h] /\ ~Handling(h)
        BY <1>0, <2>0, <2>1, <3>1, <3>3 DEF Handling
      <4> QED
        BY <1>0, <3>1, <3>3, <4>1 DEF Handling
    <3> QED
      BY <3>2, <3>3
  <2>4. CASE UNCHANGED <<session_id, next_session, public_ip, address>> /\ ~HPublicIp(o)
    <3>1. hpc[o] # "id" \/ hpc'[o] # "port"
      <4>1. ~HSessionId(o)
        BY <1>0, <2>4 DEF HSessionId
      <4>2. hpc[o] = "id" => HSessionId(o)
        BY <1>1 DEF HOffer, HContinue, HCancel, HTake, HDisable, HClear, HRelease, HClose, HSessionId, HPort,
             HPublicIp, HNegotiate, HNegotiateFails, HPublish, HActivate, HSpawn
      <4> QED
        BY <4>1, <4>2
    <3>2. hpc[o] # "ip" \/ hpc'[o] # "negotiate"
      BY <1>0, <1>1, <2>4 DEF HOffer, HContinue, HCancel, HTake, HDisable, HClear, HRelease, HClose, HSessionId, HPort,
           HPublicIp, HNegotiate, HNegotiateFails, HPublish, HActivate, HSpawn, Goto
    <3>3. CASE h # o
      BY <1>0, <2>0, <2>4, <3>3
    <3>4. CASE h = o
      BY <1>0, <2>0, <2>4, <3>1, <3>2, <3>4 DEF Moves
    <3> QED
      BY <3>3, <3>4
  <2> QED
    BY <1>1, <2>2, <2>3, <2>4, AddressFrame
<1>2. UNCHANGED <<hpc, session_id, next_session, public_ip, address>> => \A h \in Offers : AddressFound(h)'
  BY <1>0
<1> QED
  BY <1>1, <1>2, PeerFrame, TaskFrame, ReaderFrame, Steps DEF handlerVars, managerVars, vars

\* An answer stays as it was made, and no later one lacks a public address that
\* an earlier one had.
LEMMA AnswerMadeStep ==
    ASSUME Typed, UniqueIds, OneHandler, Addressed, [Next]_vars
    PROVE  \A b \in Offers : answer'[b] # None => AnswerMade(b)'
<1> USE DEF Addressed, AnswerMade
<1>0. /\ hpc \in [Offers -> HandlerPcs] /\ session_id \in [Offers -> Nat] /\ next_session \in Nat
      /\ address \in [Offers -> {None, PublicIp}] /\ None # PublicIp
      /\ DOMAIN answer = Offers /\ DOMAIN port = Offers
  BY AddressesAssumption DEF Typed, TypeOK
<1>1. ASSUME NEW o \in Offers, HOffer(o) \/ HContinue(o) \/ HCancel(o), NEW b \in Offers, answer'[b] # None
      PROVE  AnswerMade(b)'
  <2>0. PICK there \in HandlerPcs : <<hpc[o], there>> \in Moves /\ hpc' = [hpc EXCEPT ![o] = there]
    BY <1>0, <1>1, HandlerMoves
  <2>1. hpc[o] \in {"id", "port", "ip", "negotiate"} => answer[o] = None
    BY DEF Addressed
  <2>2. CASE HNegotiate(o)
    <3>1. /\ hpc[o] = "negotiate" /\ UNCHANGED <<session_id, address, port, public_ip>>
          /\ \/ UNCHANGED answer /\ hpc'[o] = "failed"
             \/ /\ hpc'[o] = "publish"
                /\ \E n \in 1 .. Len(Interfaces) : answer' = [answer EXCEPT ![o] = AnswerOf(o, n)]
      <4>1. PICK n \in 0 .. Len(Interfaces) :
                LET local == LocalDescription(o, n) IN
                IF CandidateCount(local) = 0
                  THEN Goto(o, "failed") /\ UNCHANGED <<pc, answer>>
                  ELSE /\ pc' = [pc EXCEPT ![o] = "open"]
                       /\ answer' = [answer EXCEPT ![o] = AnswerOf(o, n)]
                       /\ Goto(o, "publish")
        BY <2>2 DEF HNegotiate, AnswerOf
      <4>2. n = 0 \/ n \in 1 .. Len(Interfaces)
        BY AddressesAssumption
      <4>3. CASE CandidateCount(LocalDescription(o, n)) = 0
        BY <1>0, <2>2, <4>1, <4>3 DEF HNegotiate, Goto, managerVars
      <4>4. CASE CandidateCount(LocalDescription(o, n)) # 0
        <5>1. n \in 1 .. Len(Interfaces)
          BY <4>2, <4>4, NoCandidate
        <5> QED
          BY <1>0, <2>2, <4>1, <4>4, <5>1 DEF HNegotiate, Goto, managerVars
      <4> QED
        BY <4>3, <4>4
    <3>2. CASE b = o
      <4>1. hpc'[o] = "publish" /\ \E n \in 1 .. Len(Interfaces) : answer'[o] = AnswerOf(o, n)
        BY <1>0, <1>1, <2>1, <3>1, <3>2
      <4>2. \E n \in 1 .. Len(Interfaces) : answer'[o] = AnswerOf(o, n)'
        BY <3>1, <4>1, AnswerKept
      <4>3. \A a \in Offers : address[a] = PublicIp => address[o] = PublicIp
        BY <3>1 DEF AddressFound
      <4> QED
        BY <3>1, <3>2, <4>1, <4>2, <4>3
    <3>3. CASE b # o
      <4>1. answer'[b] = answer[b] /\ hpc'[b] = hpc[b]
        BY <1>0, <2>0, <3>1, <3>3
      <4>2. \E n \in 1 .. Len(Interfaces) : answer'[b] = AnswerOf(b, n)'
        BY <1>1, <3>1, <4>1, AnswerKept
      <4> QED
        BY <1>1, <3>1, <4>1, <4>2
    <3> QED
      BY <3>2, <3>3
  <2>3. CASE (UNCHANGED answer \/ answer' = [answer EXCEPT ![o] = None]) /\ ~HNegotiate(o)
    <3>1. answer'[b] = answer[b] /\ AnswerMade(b)
      BY <1>0, <1>1, <2>3
    <3>2. hpc'[b] \in {"publish", "activate", "spawn", "done"}
      <4>1. CASE b = o
        <5>1. there # "failed"
          <6>1. hpc[o] = "publish" /\ hpc'[o] = "failed" => answer'[o] = None
            BY <1>0, <1>1 DEF HOffer, HContinue, HCancel, HTake, HDisable, HClear, HRelease, HClose, HSessionId,
                 HPort, HPublicIp, HNegotiate, HNegotiateFails, HPublish, HActivate, HSpawn, Goto
          <6> QED
            BY <1>0, <1>1, <2>0, <3>1, <4>1, <6>1 DEF Moves
        <5> QED
          BY <1>0, <2>0, <3>1, <4>1, <5>1 DEF Moves
      <4>2. CASE b # o
        BY <1>0, <2>0, <3>1, <4>2
      <4> QED
        BY <4>1, <4>2
    <3>3. address'[b] = address[b] /\ port'[b] = port[b] /\ session_id'[b] = session_id[b]
      <4>1. HSessionId(o) \/ HPort(o) \/ HPublicIp(o) => b # o
        BY <3>1 DEF HSessionId, HPort, HPublicIp
      <4>2. UNCHANGED session_id \/ session_id' = [session_id EXCEPT ![o] = next_session]
        BY <1>1, AddressFrame DEF HSessionId
      <4>3. UNCHANGED address \/ \E x : address' = [address EXCEPT ![o] = x]
        BY <1>1, AddressFrame DEF HPublicIp
      <4>4. UNCHANGED port \/ \E x : port' = [port EXCEPT ![o] = x]
        BY <1>1, AddressFrame DEF HPort
      <4> QED
        BY <1>0, <1>1, <4>1, <4>2, <4>3, <4>4, AddressFrame
    <3>4. \E n \in 1 .. Len(Interfaces) : answer'[b] = AnswerOf(b, n)'
      BY <3>1, <3>3, AnswerKept
    <3>5. ASSUME NEW a \in Offers, address'[a] = PublicIp, session_id'[a] < session_id'[b]
          PROVE  address'[b] = PublicIp
      <4>1. CASE UNCHANGED <<session_id, address>>
        BY <3>1, <3>3, <3>5, <4>1
      <4>2. CASE HSessionId(o)
        <5>1. hpc[o] = "id" /\ session_id' = [session_id EXCEPT ![o] = next_session] /\ UNCHANGED address
          BY <4>2 DEF HSessionId
        <5>2. a # o
          BY <1>0, <3>5, <5>1 DEF AddressFound
        <5> QED
          BY <1>0, <3>1, <3>3, <3>5, <5>1, <5>2
      <4>3. CASE HPublicIp(o)
        <5>1. /\ hpc[o] = "ip" /\ UNCHANGED session_id
              /\ address' = [address EXCEPT ![o] = IF public_ip' THEN PublicIp ELSE None]
          BY <4>3 DEF HPublicIp
        <5>2. session_id[o] = next_session - 1
          BY <5>1 DEF AddressFound
        <5>3. session_id[b] \in Nat /\ session_id[b] < next_session
          BY <1>0 DEF UniqueIds
        <5>4. a # o
          <6>1. ~(next_session - 1 < session_id[b])
            BY <1>0, <5>3
          <6> QED
            BY <3>3, <3>5, <5>1, <5>2, <6>1
        <5> QED
          BY <1>0, <3>1, <3>3, <3>5, <5>1, <5>4
      <4> QED
        BY <1>1, <4>1, <4>2, <4>3, AddressFrame
    <3> QED
      BY <3>2, <3>4, <3>5
  <2> QED
    BY <1>1, <2>2, <2>3, AddressFrame
<1>2. ASSUME UNCHANGED handlerVars, NEW b \in Offers, answer'[b] # None PROVE AnswerMade(b)'
  <2>1. UNCHANGED <<hpc, session_id, address, port, answer>>
    BY <1>2 DEF handlerVars
  <2>2. \E n \in 1 .. Len(Interfaces) : answer'[b] = AnswerOf(b, n)'
    BY <1>2, <2>1, AnswerKept
  <2> QED
    BY <1>2, <2>1, <2>2
<1> QED
  BY <1>1, <1>2, PeerFrame, TaskFrame, ReaderFrame, Steps DEF vars

\* What an answer advertises.
LEMMA AnswerLines ==
    ASSUME NEW b \in Offers, NEW n \in 1 .. Len(Interfaces), address[b] \in {None, PublicIp}, answer[b] = AnswerOf(b, n)
    PROVE  /\ \A m \in {"video", "application"} : HasMedia(answer[b], m)
           /\ address[b] = None => Advertised(b) \subseteq Addresses \X {port[b]}
           /\ address[b] = PublicIp =>
                 Advertised(b) = {<<PublicIp, port[b]>>} /\ CandidateCount(answer[b]) = 1
<1>0. None # PublicIp /\ n \in 0 .. Len(Interfaces) /\ n \in Nat /\ n > 0
  BY AddressesAssumption
<1>1. CASE address[b] = None
  <2>1. answer[b] = LocalDescription(b, n)
    BY <1>1 DEF AnswerOf
  <2>2. /\ DOMAIN answer[b] = 1 .. 4 + n /\ HostCandidates(answer[b]) = 5 .. 4 + n
        /\ answer[b][1] = Media("video") /\ answer[b][3] = Media("application")
        /\ \A i \in 5 .. 4 + n : answer[b][i] = Candidate("host", "udp", Interfaces[i - 4], port[b])
    BY <1>0, <2>1, LocalLines, LocalCandidates
  <2>3. \A m \in {"video", "application"} : HasMedia(answer[b], m)
    <3>1. 1 \in 1 .. 4 + n /\ 3 \in 1 .. 4 + n
      BY <1>0
    <3> QED
      BY <2>2, <3>1 DEF HasMedia
  <2>4. ASSUME NEW i \in HostCandidates(answer[b])
        PROVE  <<answer[b][i].address, answer[b][i].port>> \in Addresses \X {port[b]}
    <3>0. i \in 5 .. 4 + n
      BY <2>2
    <3>1. i - 4 \in 1 .. Len(Interfaces)
      <4>1. Len(Interfaces) \in Nat /\ n <= Len(Interfaces)
        BY AddressesAssumption
      <4> QED
        BY <1>0, <3>0, <4>1
    <3>2. Interfaces[i - 4] \in Addresses
      BY <3>1, AddressesAssumption DEF Addresses
    <3>3. answer[b][i].address = Interfaces[i - 4] /\ answer[b][i].port = port[b]
      <4>1. answer[b][i] = Candidate("host", "udp", Interfaces[i - 4], port[b])
        BY <2>2, <3>0
      <4> QED
        BY <4>1 DEF Candidate
    <3> QED
      BY <3>2, <3>3
  <2>5. Advertised(b) \subseteq Addresses \X {port[b]}
    BY <2>4 DEF Advertised
  <2> QED
    BY <1>0, <1>1, <2>3, <2>5
<1>2. CASE address[b] = PublicIp
  <2>1. answer[b] = RewriteHostCandidates(LocalDescription(b, n), PublicIp)
    BY <1>0, <1>2 DEF AnswerOf
  <2>2. /\ DOMAIN answer[b] = 1 .. 5 /\ HostCandidates(answer[b]) = {5}
        /\ answer[b][1] = Media("video") /\ answer[b][3] = Media("application")
        /\ {i \in DOMAIN answer[b] : answer[b][i].kind = "candidate"} = {5}
        /\ answer[b][5].address = PublicIp /\ answer[b][5].port = port[b]
    BY <2>1, RewrittenLines
  <2>3. \A m \in {"video", "application"} : HasMedia(answer[b], m)
    BY <2>2, 1 \in 1 .. 5, 3 \in 1 .. 5 DEF HasMedia
  <2>4. Advertised(b) = {<<PublicIp, port[b]>>}
    BY <2>2 DEF Advertised
  <2>5. CandidateCount(answer[b]) = 1
    BY <2>2, FS_Singleton DEF CandidateCount
  <2> QED
    BY <1>0, <1>2, <2>3, <2>4, <2>5
<1> QED
  BY <1>1, <1>2

LEMMA AddressedKeeps == ASSUME Typed, Addressed PROVE AddressKept
<1>0. /\ None # PublicIp /\ PublicIp \notin Addresses
      /\ \A b \in Offers : address[b] \in {None, PublicIp}
  BY AddressesAssumption DEF Typed, TypeOK
<1> SUFFICES ASSUME NEW b \in Offers, answer[b] # None
             PROVE  /\ \A m \in {"video", "application"} : HasMedia(answer[b], m)
                    /\ Advertised(b) \in (SUBSET (Addresses \X {port[b]})) \cup {{<<PublicIp, port[b]>>}}
                    /\ \A a \in Offers :
                          /\ answer[a] # None
                          /\ session_id[a] < session_id[b]
                          /\ <<PublicIp, port[a]>> \in Advertised(a)
                          => /\ Advertised(b) = {<<PublicIp, port[b]>>}
                             /\ CandidateCount(answer[b]) = 1
  BY DEF AddressKept
<1>1. ASSUME NEW c \in Offers, answer[c] # None
      PROVE  /\ \A m \in {"video", "application"} : HasMedia(answer[c], m)
             /\ address[c] = None => Advertised(c) \subseteq Addresses \X {port[c]}
             /\ address[c] = PublicIp => Advertised(c) = {<<PublicIp, port[c]>>} /\ CandidateCount(answer[c]) = 1
  <2>1. PICK n \in 1 .. Len(Interfaces) : answer[c] = AnswerOf(c, n)
    BY <1>1 DEF Addressed, AnswerMade
  <2>2. address[c] \in {None, PublicIp}
    BY <1>0
  <2> QED
    BY <2>1, <2>2, AnswerLines
<1>2. \A m \in {"video", "application"} : HasMedia(answer[b], m)
  BY <1>1
<1>3. Advertised(b) \in (SUBSET (Addresses \X {port[b]})) \cup {{<<PublicIp, port[b]>>}}
  <2>1. CASE address[b] = None
    BY <1>1, <2>1
  <2>2. CASE address[b] = PublicIp
    <3>1. Advertised(b) = {<<PublicIp, port[b]>>}
      BY <1>1, <2>2
    <3> QED
      BY <3>1
  <2> QED
    BY <1>0, <2>1, <2>2
<1>4. ASSUME NEW a \in Offers, answer[a] # None, session_id[a] < session_id[b], <<PublicIp, port[a]>> \in Advertised(a)
      PROVE  Advertised(b) = {<<PublicIp, port[b]>>} /\ CandidateCount(answer[b]) = 1
  <2>1. <<PublicIp, port[a]>> \notin Addresses \X {port[a]}
    BY <1>0
  <2>2. address[a] = PublicIp
    BY <1>0, <1>1, <1>4, <2>1
  <2>3. address[b] = PublicIp
    BY <1>4, <2>2 DEF Addressed, AnswerMade
  <2> QED
    BY <1>1, <2>3
<1> QED
  BY <1>2, <1>3, <1>4

LEMMA InitAddressed == Init => Addressed
  BY OffersAssumption, AddressesAssumption DEF Init, Addressed, AddressFound

(***************************************************************************)
(* The theorems, for a server that handles one offer at a time.            *)
(***************************************************************************)
OneOffer ==
    /\ OneHandler /\ Rotation /\ PortsRotate
    /\ Registered /\ LiveIsRegistered
    /\ RaceKnown /\ ConnectsFirst /\ Served /\ Addressed

LEMMA InitOneOffer == Init => OneOffer
<1> SUFFICES ASSUME Init PROVE OneOffer
  OBVIOUS
<1>1. OneHandler /\ Rotation /\ PortsRotate
  BY DEF Init, OneHandler, Handling, Rotation, PortsRotate
<1>2. Registered /\ LiveIsRegistered /\ Served
  BY DEF Init, Registered, LiveIsRegistered, Served, Live, Published
<1>3. RaceKnown /\ ConnectsFirst
  BY DEF Init, RaceKnown, ConnectsFirst
<1> QED
  BY <1>1, <1>2, <1>3, InitAddressed DEF OneOffer

LEMMA AlwaysOneOffer == ASSUME ~Overlapping PROVE Spec => [](Base /\ OneOffer)
<1>1. Base /\ OneOffer /\ [Next]_vars => OneOffer'
  BY OneHandlerStep, RotationStep, RegisteredStep, LiveIsRegisteredStep, RaceKnownStep, ConnectsFirstStep, ServedStep,
     AddressFoundStep, AnswerMadeStep DEF Base, OneOffer, Addressed
<1> QED
  BY <1>1, InitOneOffer, AlwaysBase, PTL DEF Spec

\* Ports rotate: a session's port is given to another one only after the whole
\* configured range was, so a connection still closing keeps none from binding.
THEOREM PortsAlwaysRotate == ASSUME ~Overlapping PROVE Spec => []PortsRotate
  BY AlwaysOneOffer, PTL DEF OneOffer

\* A live connection is the registered one, and its session the active one, so
\* the next offer finds and closes it and no late teardown of an earlier session
\* takes it down.
THEOREM LiveIsAlwaysRegistered == ASSUME ~Overlapping PROVE Spec => []LiveIsRegistered
  BY AlwaysOneOffer, PTL DEF OneOffer

\* "Only one client at a time" holds when offers do not overlap.
THEOREM OneClientAtATime == ASSUME ~Overlapping PROVE Spec => []OneClient
<1>1. OneOffer => OneClient
  BY DEF OneOffer, LiveIsRegistered, OneClient
<1> QED
  BY <1>1, AlwaysOneOffer, PTL

\* A live client the server saw connect is fed by the encoder, whatever earlier
\* sessions still tear down, unless one of them was past its check by then.
THEOREM LiveClientIsServed == ASSUME ~Overlapping PROVE Spec => []LiveClientServed
<1>1. OneOffer => LiveClientServed
  BY DEF OneOffer, Served, LiveClientServed
<1> QED
  BY <1>1, AlwaysOneOffer, PTL

\* Every answer names the session's own port; once one carried the public address
\* the later ones carry that only, whether the metadata service answers or not.
THEOREM AddressIsKept == ASSUME ~Overlapping PROVE Spec => []AddressKept
<1>1. Base /\ OneOffer => AddressKept
  BY AddressedKeeps DEF Base, OneOffer
<1> QED
  BY <1>1, AlwaysOneOffer, PTL

=============================================================================
