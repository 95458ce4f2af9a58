-------------------------------- MODULE Sdp --------------------------------
(***************************************************************************)
(* The session descriptions of vmdesk, as far as the server looks at them  *)
(* (proto/src/sdp.rs).  A description maps line numbers to lines; numbers  *)
(* say only which line comes first, and a line that is left out leaves a   *)
(* gap.  A line is a record whose `kind` says what the code recognises.    *)
(***************************************************************************)
EXTENDS Naturals, FiniteSets

Media(m) == [kind |-> "m", media |-> m]

\* c=IN IP4 <address>
Connection(a) == [kind |-> "c", address |-> a]

\* a=candidate: ... <transport> ... <address> <port> typ <typ>
Candidate(typ, transport, address, port) ==
    [kind |-> "candidate", typ |-> typ, transport |-> transport,
     address |-> address, port |-> port]

HasMedia(sdp, m) == \E i \in DOMAIN sdp : sdp[i] = Media(m)

CandidateCount(sdp) == Cardinality({i \in DOMAIN sdp : sdp[i].kind = "candidate"})

IsHost(line) == line.kind = "candidate" /\ line.typ = "host"

\* The lines of the host candidates.
HostCandidates(sdp) == {i \in DOMAIN sdp : IsHost(sdp[i])}

\* What tells two host candidates apart once their addresses are replaced.
Key(line) == <<line.transport, line.port>>

Unspecified == "0.0.0.0"

\* A line after the rewrite; the placeholder address stays.
WithAddress(line, ip) ==
    IF IsHost(line) \/ (line.kind = "c" /\ line.address # Unspecified)
      THEN [line EXCEPT !.address = ip]
      ELSE line

\* A host candidate whose key was seen on an earlier line.
Repeated(sdp, i) ==
    i \in HostCandidates(sdp) /\ \E j \in HostCandidates(sdp) : j < i /\ Key(sdp[j]) = Key(sdp[i])

\* rewrite_host_candidates: every host candidate and connection line advertises
\* ip; of the host candidates that become identical only the first is kept.
RewriteHostCandidates(sdp, ip) ==
    [i \in {i \in DOMAIN sdp : ~Repeated(sdp, i)} |-> WithAddress(sdp[i], ip)]
=============================================================================
