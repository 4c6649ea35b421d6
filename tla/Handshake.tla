------------------------------ MODULE Handshake ------------------------------
(***************************************************************************)
(* The handshake of a client (connection.rs) with the server               *)
(* (handshake.rs), inside the connections of S7Server: connect request,    *)
(* connect confirm, negotiation, answer.  Neither side has a timeout; a    *)
(* caller may give up (S7Pool does, after connect_timeout).                *)
(*                                                                         *)
(* Every step is a step of S7Server or leaves its variables alone.  Some   *)
(* peers are not snap7-client and send what they like.                     *)
(***************************************************************************)
EXTENDS S7Server, IsoCodec

CONSTANTS
  Foreign,     \* peers that are not snap7-client
  Messages,    \* what they send
  AskedSizes,  \* ConnectParams::pdu_size
  MaxPduSize   \* MAX_PDU_SIZE of the server, 480

ASSUME HandshakeConstants ==
  /\ Foreign \subseteq Client
  /\ AskedSizes \subseteq Nat \ {0} /\ MaxPduSize \in Nat \ {0}

\* Peers send COTP PDUs, in frames that TPKT can count.
ASSUME MessageConstants ==
  /\ Messages \subseteq CotpPdus /\ MaxFrame \in Nat
  /\ \A m \in Messages : 3 + Len(EncodeCotp(m)) <= MaxFrame

VARIABLES
  peer,  \* peer[c]: where the caller of c is, what it asked for, Connection::pdu_size
  side,  \* side[c]: what the server waits for, and the size it negotiated
  up,    \* up[c]: PDUs on the way to the server
  down   \* down[c]: PDUs on the way to the client

hsVars == <<peer, side, up, down>>
allVars == <<vars, hsVars>>

NoPeer == [at |-> "none", asked |-> 0, pdu |-> 0]
NoSide == [at |-> "cr", pdu |-> 0]

HandshakeInit ==
  /\ Init
  /\ peer = [c \in Client |-> NoPeer] /\ side = [c \in Client |-> NoSide]
  /\ up = [c \in Client |-> <<>>] /\ down = [c \in Client |-> <<>>]

Data(payload) == [code |-> DT, nr |-> 0, last |-> TRUE, payload |-> payload]

\* What the server writes is not read by a peer that is gone or foreign.
Written(c, pdu) ==
  down' = IF peer[c].at = "none" \/ c \in Foreign THEN down
          ELSE [down EXCEPT ![c] = Append(@, pdu)]

\* serve_one returns and drops the stream.
HangUp(c) ==
  /\ ServeOneEnds(c)
  /\ side' = [side EXCEPT ![c] = NoSide]
  /\ up' = [up EXCEPT ![c] = <<>>]

-----------------------------------------------------------------------------
(* connect of the client                                                   *)

\* The connection is set up by the kernel of the server, accepted or not.
SendCR(c) ==
  /\ c \notin Foreign /\ peer[c].at = "none"
  /\ Connect(c)
  /\ \E size \in AskedSizes : peer' = [peer EXCEPT ![c] = [at |-> "cc", asked |-> size, pdu |-> 0]]
  /\ up' = [up EXCEPT ![c] = <<[code |-> CR, dst |-> 0, src |-> 1, rack |-> 0, slot |-> 1]>>]
  /\ UNCHANGED <<side, down>>

\* Anything but a connect confirm is an error; then the negotiation is sent.
RecvCC(c) ==
  /\ peer[c].at = "cc" /\ down[c] # <<>>
  /\ IF Head(down[c]).code = CC
     THEN /\ peer' = [peer EXCEPT ![c].at = "neg"]
          /\ up' = [up EXCEPT ![c] = Append(@, Data(
                      EncodeHeader([type |-> Job, ref |-> 1, plen |-> 8, dlen |-> 0, error |-> <<>>])
                        \o EncodeNegotiate([calling |-> 1, called |-> 1, pdu |-> peer[c].asked])))]
     ELSE peer' = [peer EXCEPT ![c] = NoPeer] /\ UNCHANGED up
  /\ down' = [down EXCEPT ![c] = Tail(@)]
  /\ UNCHANGED <<vars, side>>

\* The size the answer names, if it is an AckData without error; 0 stands for an error
\* (this server never names 0 to a client that asks for more).
Negotiated(pdu) ==
  IF pdu.code # DT \/ DecodeHeader(pdu.payload) = ProtoError THEN 0
  ELSE LET h == DecodeHeader(pdu.payload) IN
       IF h.header.type # AckData \/ h.header.error \notin {<<>>, <<0, 0>>} THEN 0
       ELSE IF DecodeNegotiate(h.rest) = ProtoError THEN 0 ELSE DecodeNegotiate(h.rest).pdu

RecvNegotiated(c) ==
  /\ peer[c].at = "neg" /\ down[c] # <<>>
  /\ LET size == Negotiated(Head(down[c])) IN
     peer' = [peer EXCEPT ![c] = IF size = 0 THEN NoPeer ELSE [@ EXCEPT !.at = "open", !.pdu = size]]
  /\ down' = [down EXCEPT ![c] = Tail(@)]
  /\ UNCHANGED <<vars, side, up>>

\* read_exact fails: the server has closed the connection.
RecvEof(c) ==
  /\ peer[c].at \in {"cc", "neg"} /\ down[c] = <<>>
  /\ task[c] \in {"none", "ended", "leaving"}
  /\ peer' = [peer EXCEPT ![c] = NoPeer]
  /\ UNCHANGED <<vars, side, up, down>>

\* The client is dropped, or a caller gives up waiting for connect.
Close(c) ==
  /\ peer[c].at \in {"cc", "neg", "open"}
  /\ peer' = [peer EXCEPT ![c] = NoPeer]
  /\ down' = [down EXCEPT ![c] = <<>>]
  /\ UNCHANGED <<vars, side, up>>

\* A peer of another kind.
ForeignConnects(c) ==
  /\ c \in Foreign /\ peer[c].at = "none"
  /\ Connect(c)
  /\ peer' = [peer EXCEPT ![c].at = "open"]
  /\ UNCHANGED <<side, up, down>>

ForeignSends(c) ==
  /\ c \in Foreign /\ peer[c].at = "open" /\ up[c] = <<>> /\ task[c] \in {"queued", "handshake"}
  /\ \E m \in Messages : up' = [up EXCEPT ![c] = <<m>>]
  /\ UNCHANGED <<vars, peer, side, down>>

-----------------------------------------------------------------------------
(* server_handshake                                                        *)

\* Anything but a connect request is an error.
GetCR(c) ==
  /\ task[c] = "handshake" /\ side[c].at = "cr" /\ up[c] # <<>>
  /\ IF Head(up[c]).code = CR
     THEN /\ up' = [up EXCEPT ![c] = Tail(@)]
          /\ Written(c, [code |-> CC, dst |-> Head(up[c]).src, src |-> 1])
          /\ side' = [side EXCEPT ![c].at = "neg"]
          /\ UNCHANGED vars
     ELSE HangUp(c) /\ UNCHANGED down
  /\ UNCHANGED peer

\* Mutant: the server agrees to what it is asked for.
CappedNot(asked) == asked

\* The size that the answer names and server_handshake returns.
Capped(asked) == IF asked < MaxPduSize THEN asked ELSE MaxPduSize

\* The negotiation in a data PDU, as a job.
Asked(pdu) ==
  IF pdu.code # DT \/ DecodeHeader(pdu.payload) = ProtoError THEN ProtoError
  ELSE LET h == DecodeHeader(pdu.payload) IN
       IF h.header.type # Job THEN ProtoError ELSE DecodeNegotiate(h.rest)

GetNegotiate(c) ==
  /\ task[c] = "handshake" /\ side[c].at = "neg" /\ up[c] # <<>>
  /\ LET n == Asked(Head(up[c])) IN
     IF n = ProtoError THEN HangUp(c) /\ UNCHANGED down
     ELSE /\ HandshakeDone(c)
          /\ up' = [up EXCEPT ![c] = Tail(@)]
          /\ Written(c, Data(EncodeHeader([type |-> AckData, ref |-> 1, plen |-> 8, dlen |-> 0,
                                           error |-> <<0, 0>>])
                               \o EncodeNegotiate([n EXCEPT !.pdu = Capped(n.pdu)])))
          /\ side' = [side EXCEPT ![c] = [at |-> "done", pdu |-> Capped(n.pdu)]]
  /\ UNCHANGED peer

\* The peer has closed the connection: the next read fails, in the handshake or in
\* dispatch_loop (Dispatch has what happens there).
ServeEof(c) == peer[c].at = "none" /\ up[c] = <<>> /\ HangUp(c) /\ UNCHANGED <<peer, down>>

\* Reading or writing fails for another reason.
ServeBreaks(c) == HangUp(c) /\ UNCHANGED <<peer, down>>

-----------------------------------------------------------------------------
PeerStep(c) == RecvCC(c) \/ RecvNegotiated(c) \/ RecvEof(c)
ServerStep(c) ==
  \/ GetCR(c) \/ GetNegotiate(c) \/ ServeEof(c)
  \/ (ClientConnected(c) \/ ClientDisconnected(c) \/ TaskEnds(c)) /\ UNCHANGED hsVars
Serve == (AcquirePermit \/ Accept) /\ UNCHANGED hsVars

HandshakeNext ==
  \/ Serve \/ (AcceptError /\ UNCHANGED hsVars)
  \/ \E c \in Client :
       \/ SendCR(c) \/ PeerStep(c) \/ Close(c) \/ ForeignConnects(c) \/ ForeignSends(c)
       \/ ServerStep(c) \/ ServeBreaks(c)

\* The tasks on both sides are polled whenever they are ready; peers with an open
\* connection close it some day, since the server has no timeout of its own.
HandshakeSpec ==
  /\ HandshakeInit /\ [][HandshakeNext]_allVars
  /\ WF_allVars(Serve)
  /\ \A c \in Client : WF_allVars(PeerStep(c)) /\ WF_allVars(ServerStep(c))
                       /\ WF_allVars(peer[c].at = "open" /\ Close(c))

-----------------------------------------------------------------------------
(* Properties                                                              *)

\* When connect returns Ok both sides have come to the same size, the smaller one of
\* what the client asked for and what the server can do: before the client is told,
\* and whatever other peers do to the server meanwhile.  (The client cuts its
\* requests to it; dispatch_loop is given the size and does not use it.)
PduSizeAgreed ==
  \A c \in Client :
    /\ peer[c].at = "open" /\ c \notin Foreign =>
         /\ task[c] = "dispatch" => peer[c].pdu = side[c].pdu
         /\ peer[c].pdu <= peer[c].asked /\ peer[c].pdu <= MaxPduSize
    /\ task[c] = "dispatch" => side[c].at = "done"

\* connect has no timeout beyond that of TCP.  It returns all the same, even if the
\* connection waits in the backlog for a permit, provided that connections end: with
\* a result, or with an error when the server goes away.
ConnectReturns ==
  \A c \in Client \ Foreign : peer[c].at \in {"cc", "neg"} ~> peer[c].at \notin {"cc", "neg"}

\* What one side encodes the other side decodes; rack and slot keep three and five
\* bits; a frame cut short is an error.  (No variable matters: one state is enough.)
EnvelopesRoundTrip ==
  count = 0 /\ backlog = <<>> /\ acceptor = "acquiring" /\ (\A c \in Client : peer[c] = NoPeer) =>
    /\ \A rack \in 0..8, slot \in 0..32 :
         LET cr == [code |-> CR, dst |-> 0, src |-> 1, rack |-> rack, slot |-> slot] IN
         DecodeCotp(EncodeCotp(cr)) = [cr EXCEPT !.rack = rack % 8, !.slot = slot % 32]
    /\ \A m \in Messages :
         LET frame == EncodeTpkt(EncodeCotp(m)) IN
         /\ DecodeCotp(DecodeTpkt(frame).payload) = m
         /\ DecodeTpkt(frame).rest = <<>>
         /\ \A n \in 0..(Len(frame) - 1) : DecodeTpkt(SubSeq(frame, 1, n)) = ProtoError
    /\ \A t \in PduTypes, e \in {<<0, 0>>, <<129, 4>>}, size \in AskedSizes :
         LET h == [type |-> t, ref |-> 1, plen |-> 5, dlen |-> 0,
                   error |-> IF t \in {Ack, AckData} THEN e ELSE <<>>]
             n == [calling |-> 1, called |-> 1, pdu |-> size]
             d == DecodeHeader(EncodeHeader(h) \o EncodeNegotiate(n))
         IN  d.header = h /\ DecodeNegotiate(d.rest) = n
=============================================================================
