------------------------------ MODULE Receiver ------------------------------
(***************************************************************************)
(* The video path of vmdesk-client: read_track and the select loop of      *)
(* client/src/net.rs, which ask the server for keyframes, and the decode   *)
(* thread of client/src/decoder/mod.rs with its fallback from hardware to  *)
(* software decoding (client/src/decoder/ffmpeg.rs).                       *)
(*                                                                         *)
(* Access units wait for the decode thread in a bounded channel.  Both     *)
(* ends notice damage: read_track when the channel is full, the decoder    *)
(* when it cannot decode.  Each asks for a keyframe through a channel to   *)
(* the select loop, which sends a PLI at most every 250 ms and discards    *)
(* what comes earlier; the decode thread discards its own requests for     *)
(* 200 ms.                                                                 *)
(*                                                                         *)
(* The server, the network and FFmpeg are external and modelled as far as  *)
(* this code sees them.                                                    *)
(*                                                                         *)
(* Definitions named Mut... are deliberate faults: each is a plausible bug  *)
(* in the definition that follows it, which TLC must find when it replaces  *)
(* that definition.  No specification uses them.                           *)
(***************************************************************************)
EXTENDS Integers, Sequences

CONSTANTS
    AuCap,       \* capacity of the access unit channel (32 in the code)
    HwLimit,     \* HW_FAILURE_LIMIT (8 in the code)
    MaxPending,  \* bound: keyframe requests waiting in one channel
    MaxFaults    \* bound: losses, full channels and decoder failures

ASSUME CapacityAssumption == AuCap \in Nat \ {0} /\ HwLimit \in Nat \ {0}
ASSUME BoundsAssumption == MaxPending \in Nat \ {0} /\ MaxFaults \in Nat

VARIABLES
    \* the server: Shared.force_keyframe
    force_keyframe,
    \* read_track; an access unit was lost since the last one queued
    reader, lost,
    \* the channels: access units, requests of read_track and of the decoder
    aus, kf, req,
    \* the select loop: state.video is known; less than PLI_INTERVAL since last_pli
    video, pliRecent,
    \* decode thread: program counter, the unit at hand, the decoder, failures
    \* in a row, less than 200 ms since last_request
    dpc, au, decoder, hw_failures, reqRecent,
    \* SharedView.latest
    latest,
    \* bound on faults
    faults

netVars == <<reader, lost, kf, video, pliRecent>>
decVars == <<dpc, au, decoder, hw_failures, reqRecent, latest>>
vars == <<force_keyframe, netVars, aus, req, decVars, faults>>

\* An access unit: a keyframe or not, and whether others before it are missing.
Units == [key : BOOLEAN, gap : BOOLEAN]
NoUnit == [key |-> FALSE, gap |-> FALSE]

\* A decoder: which one (a hardware decoder may turn out not to work at all),
\* whether it reports every missing reference or may conceal it, whether it has
\* produced a picture, and the state of its reference picture.
Kinds == {"hw", "badhw", "sw", "broken"}
Decoders == [kind : Kinds, strict : BOOLEAN, pictures : BOOLEAN,
             ref : {"none", "clean", "damaged"}]

\* FfmpegDecoder::new, and BrokenDecoder
NewDecoders(kinds) ==
    {d \in Decoders : d.kind \in kinds /\ ~d.pictures /\ d.ref = "none"}

IsHardware(d) == d.kind \in {"hw", "badhw"}

TypeOK ==
    /\ force_keyframe \in BOOLEAN
    /\ reader \in {"none", "run", "ended"} /\ lost \in BOOLEAN
    /\ aus \in Seq(Units) /\ Len(aus) <= AuCap
    /\ kf \in 0 .. MaxPending /\ req \in 0 .. MaxPending
    /\ video \in BOOLEAN /\ pliRecent \in BOOLEAN
    /\ dpc \in {"recv", "decode", "gone"}
    /\ au \in Units
    /\ decoder \in Decoders
    /\ hw_failures \in 0 .. HwLimit - 1
    /\ reqRecent \in BOOLEAN
    /\ latest \in {"black", "clean", "smeared"}
    /\ faults \in 0 .. MaxFaults

\* The hardware decoder if there is one, else software; without either the
\* decode thread reports a fatal error and returns.
Init ==
    /\ force_keyframe = TRUE
    /\ reader = "none" /\ lost = FALSE
    /\ aus = <<>> /\ kf = 0 /\ req = 0
    /\ video = FALSE /\ pliRecent = FALSE
    /\ decoder \in NewDecoders(Kinds)
    /\ dpc = IF decoder.kind = "broken" THEN "gone" ELSE "recv"
    /\ au = NoUnit
    /\ hw_failures = 0 /\ reqRecent = FALSE
    /\ latest = "black"
    /\ faults = 0

Fault == faults < MaxFaults /\ faults' = faults + 1

-----------------------------------------------------------------------------
(* The select loop *)

\* send_pli: the PLI reaches the server, or is lost.
SendPli ==
    /\ pliRecent' = TRUE
    /\ \/ force_keyframe' = TRUE /\ UNCHANGED faults
       \/ Fault /\ UNCHANGED force_keyframe

\* PcEvent::Track: start read_track and ask for a keyframe right away; without
\* an SSRC there is nothing to address a PLI to, now and later.
OnTrack ==
    /\ reader = "none"
    /\ reader' = "run"
    /\ \/ video' = TRUE /\ SendPli
       \/ Fault /\ UNCHANGED <<video, pliRecent, force_keyframe>>
    /\ UNCHANGED <<lost, aus, kf, req, decVars>>

\* A request from either channel: without a track, or too early, it is discarded.
AnswerRequest ==
    IF video /\ ~pliRecent THEN SendPli ELSE UNCHANGED <<pliRecent, force_keyframe, faults>>

OnDecoderRequest ==
    /\ req > 0
    /\ req' = req - 1
    /\ AnswerRequest
    /\ UNCHANGED <<reader, lost, aus, kf, video, decVars>>

OnKeyframeRequest ==
    /\ kf > 0
    /\ kf' = kf - 1
    /\ AnswerRequest
    /\ UNCHANGED <<reader, lost, aus, req, video, decVars>>

\* last_pli.elapsed() reaches PLI_INTERVAL.
PliIntervalElapses ==
    /\ pliRecent
    /\ pliRecent' = FALSE
    /\ UNCHANGED <<force_keyframe, reader, lost, aus, kf, req, video, decVars, faults>>

NetNext == OnTrack \/ OnDecoderRequest \/ OnKeyframeRequest

-----------------------------------------------------------------------------
(* The stream, and read_track *)

\* The server's next access unit is lost on the way: the sample builder gives
\* up on it and goes on with the next complete one.
UnitLost ==
    /\ reader = "run"
    /\ Fault
    /\ force_keyframe' = FALSE
    /\ lost' = TRUE
    /\ UNCHANGED <<reader, aus, kf, req, video, pliRecent, decVars>>

\* It arrives and is queued for the decode thread; when the channel is full it
\* is dropped and a keyframe is requested; when the decode thread is gone,
\* read_track returns.
UnitArrives ==
    /\ reader = "run"
    /\ force_keyframe' = FALSE
    /\ \/ /\ dpc # "gone"
          /\ Len(aus) < AuCap
          /\ aus' = Append(aus, [key |-> force_keyframe, gap |-> lost])
          /\ lost' = FALSE
          /\ UNCHANGED <<kf, reader, faults>>
       \/ /\ dpc # "gone"
          /\ Len(aus) = AuCap
          /\ kf < MaxPending
          /\ Fault
          /\ kf' = kf + 1
          /\ lost' = TRUE
          /\ UNCHANGED <<aus, reader>>
       \/ /\ dpc = "gone"
          /\ reader' = "ended"
          /\ UNCHANGED <<aus, kf, lost, faults>>
    /\ UNCHANGED <<req, video, pliRecent, decVars>>

-----------------------------------------------------------------------------
(* The decode thread *)

decRest == <<force_keyframe, netVars, aus>>

DecRecv ==
    /\ dpc = "recv"
    /\ aus # <<>>
    /\ au' = Head(aus)
    /\ aus' = Tail(aus)
    /\ dpc' = "decode"
    /\ UNCHANGED <<force_keyframe, netVars, req, decoder, hw_failures, reqRecent, latest, faults>>

MutRequestKeyframe == UNCHANGED <<req, reqRecent>>  \* logs and forgets

\* The closure request_keyframe.
RequestKeyframe ==
    IF reqRecent
      THEN UNCHANGED <<req, reqRecent>>
      ELSE req < MaxPending /\ req' = req + 1 /\ reqRecent' = TRUE

\* last_request.elapsed() reaches 200 ms.
RequestIntervalElapses ==
    /\ reqRecent
    /\ reqRecent' = FALSE
    /\ UNCHANGED <<force_keyframe, netVars, aus, req, dpc, au, decoder, hw_failures, latest, faults>>

\* FfmpegDecoder::decode of the unit at hand: accepted with a picture, accepted
\* without one, or an error.  A strict decoder rejects what refers to a missing
\* picture; one that is not may conceal it or give nothing.
Damaged == ~au.key /\ (decoder.ref # "clean" \/ au.gap)
Accepts == decoder.kind \in {"hw", "sw"} /\ (Damaged => ~decoder.strict)
Decodes == Accepts /\ (Damaged => decoder.ref # "none")
NextRef == IF Damaged THEN (IF decoder.ref = "none" THEN "none" ELSE "damaged") ELSE "clean"

\* Ok: scale and publish; a frame that cannot be scaled is not shown.
\* get_format may have turned to software on the way.
DecodeOk ==
    /\ dpc = "decode"
    /\ Decodes
    /\ \E kind \in {decoder.kind, "sw"} :
          decoder' = [decoder EXCEPT !.kind = kind, !.pictures = TRUE, !.ref = NextRef]
    /\ \/ latest' = (IF Damaged THEN "smeared" ELSE "clean") /\ UNCHANGED faults
       \/ Fault /\ UNCHANGED latest
    /\ hw_failures' = 0
    /\ dpc' = "recv"
    /\ UNCHANGED <<au, req, reqRecent, decRest>>

\* Ok without a picture: avcodec_receive_frame has none to give.  Nothing is
\* published, nobody asks for a keyframe, and the failures in a row are over.  A
\* hardware decoder that does not work may go on like this.
DecodeNothing ==
    /\ dpc = "decode"
    /\ \/ decoder.kind = "badhw" /\ UNCHANGED decoder
       \/ Accepts /\ decoder' = [decoder EXCEPT !.ref = NextRef]
    /\ hw_failures' = 0
    /\ dpc' = "recv"
    /\ UNCHANGED <<au, req, reqRecent, latest, faults, decRest>>

\* fallback_to_software: the placeholder when no software decoder can be made.
Fallback == decoder' \in NewDecoders({"sw", "broken"})

MutGivesUp(n) == n >= HwLimit + 1  \* one more than the limit

GivesUp(n) == n >= HwLimit

\* Corrupt: ask for a keyframe; a hardware decoder that never gave a picture is
\* given up after HwLimit failures in a row.
DecodeCorrupt ==
    /\ dpc = "decode"
    /\ decoder.kind = "badhw" \/ (decoder.kind \in {"hw", "sw"} /\ Damaged)
    /\ RequestKeyframe
    /\ IF IsHardware(decoder) /\ ~decoder.pictures
         THEN IF GivesUp(hw_failures + 1)
                THEN Fallback /\ hw_failures' = 0
                ELSE hw_failures' = hw_failures + 1 /\ UNCHANGED decoder
         ELSE /\ decoder' = [decoder EXCEPT !.ref = IF @ = "none" THEN @ ELSE "damaged"]
              /\ UNCHANGED hw_failures
    /\ dpc' = "recv"
    /\ UNCHANGED <<au, latest, faults, decRest>>

\* Fatal: ask for a keyframe; replace a hardware decoder by software and make a
\* software decoder anew; if that fails report it and return.
DecodeFatal ==
    /\ dpc = "decode"
    /\ decoder.kind \in {"hw", "sw"} => Fault
    /\ decoder.kind \in {"badhw", "broken"} => UNCHANGED faults
    /\ RequestKeyframe
    /\ \/ IsHardware(decoder) /\ Fallback /\ dpc' = "recv"
       \/ ~IsHardware(decoder) /\ decoder' \in NewDecoders({"sw"}) /\ dpc' = "recv"
       \/ ~IsHardware(decoder) /\ UNCHANGED decoder /\ dpc' = "gone"
    /\ UNCHANGED <<au, hw_failures, latest, decRest>>

DecNext == DecRecv \/ DecodeOk \/ DecodeNothing \/ DecodeCorrupt \/ DecodeFatal

-----------------------------------------------------------------------------
Next ==
    \/ NetNext \/ PliIntervalElapses \/ UnitLost \/ UnitArrives
    \/ DecNext \/ RequestIntervalElapses

Spec == Init /\ [][Next]_vars

\* The threads run, the clock advances, and the server goes on sending: at
\* least once a second while a client is connected.
Fairness ==
    /\ WF_vars(NetNext) /\ WF_vars(OnKeyframeRequest) /\ WF_vars(OnDecoderRequest)
    /\ WF_vars(DecNext) /\ WF_vars(UnitArrives)
    /\ WF_vars(PliIntervalElapses) /\ WF_vars(RequestIntervalElapses)

FairSpec == Spec /\ Fairness

-----------------------------------------------------------------------------
(* Properties *)

\* "The first keyframe did not arrive; the client asks for one every few
\* seconds": the window does not stay black, although the first keyframe and
\* PLIs are lost, requests are discarded by either throttle, and the hardware
\* decoder fails, with accepted units between its failures; unless there is no
\* decoder at all.  It does stay black when a decoder goes on accepting units
\* without ever giving a picture: run takes that for success and asks for nothing.
PictureArrives ==
    \/ video ~> latest # "black" \/ dpc = "gone"
    \/ []<><<DecodeNothing>>_vars

\* "Packet loss; the client requests keyframes automatically": a decoder that
\* reports what it misses gets a keyframe, although its request may come while
\* it is throttled itself or be discarded by the select loop's throttle.
SmearCleared ==
    video /\ decoder.ref = "damaged" /\ decoder.strict ~>
        decoder.ref = "clean" \/ ~decoder.strict \/ dpc = "gone"

=============================================================================
