------------------------------ MODULE Partner ------------------------------
(***************************************************************************)
(* Two S7 partners (snap7-partner): one connects to the other with a       *)
(* handshake; then bsend cuts a message into slices and waits for an       *)
(* acknowledgement of each, and brecv collects slices up to the one        *)
(* without the end-of-sequence flag.                                       *)
(*                                                                         *)
(* Each call holds the partner's mutex from start to end, so a peer is in  *)
(* at most one call.  The first slice is preceded by two bytes of total    *)
(* length.  Sequence numbers are sent and never compared, so they are left *)
(* out, like the byte counters.                                            *)
(***************************************************************************)
EXTENDS Integers, Sequences

CONSTANTS
  Peer,        \* the two partners
  Active,      \* the one that calls connect; the other calls listen or accept
  Message,     \* messages [rid, data] an application may send
  MaxSlice,    \* max_slice: bytes of data that fit in a frame
  LengthBytes, \* the two bytes of total length
  TakeTurns,   \* TRUE when applications send only after receiving all that was sent
  MaxSend,     \* bound on the calls of bsend of a peer
  None         \* no call in progress

\* The bytes of messages, and the calls that a peer may be in.
Byte == UNION {{m.data[i] : i \in DOMAIN m.data} : m \in Message}
Call ==
  [kind : {"write", "ack"}, msg : Message, off : Nat]
    \cup [kind : {"recv"}, buf : Seq(Byte), first : BOOLEAN]

ASSUME PartnerConstants ==
  /\ Active \in Peer /\ \E p \in Peer : p # Active /\ Peer = {Active, p}
  /\ \A m \in Message : m = [rid |-> m.rid, data |-> m.data] /\ m.data \in Seq(Byte)
  /\ MaxSlice \in Nat \ {0}
  /\ Len(LengthBytes) = 2 /\ LengthBytes = <<LengthBytes[1], LengthBytes[2]>>
  /\ TakeTurns \in BOOLEAN
  /\ None \notin Call

VARIABLES
  link,      \* link[p]: where p is in its handshake
  op,        \* op[p]: the call p is in
  wire,      \* wire[p]: frames on their way to p
  up,        \* the TCP connection works
  offered,   \* offered[p]: messages p has called bsend with, empty ones aside
  delivered, \* delivered[p]: what brecv of the other peer returned
  confirmed  \* confirmed[p]: messages whose bsend returned Ok

vars == <<link, op, wire, up, offered, delivered, confirmed>>

Other(p) == CHOOSE q \in Peer : q # p
Put(p, f) == wire' = [wire EXCEPT ![p] = Append(@, f)]
Take(p) == wire' = [wire EXCEPT ![p] = Tail(@)]
Return(p) == op' = [op EXCEPT ![p] = None]
In(p, kind) == op[p] # None /\ op[p].kind = kind

Ack == [tg |-> "ack"]
CR == [tg |-> "cr"]
CC == [tg |-> "cc"]
Negotiate == [tg |-> "negotiate"]
Negotiated == [tg |-> "negotiated"]

Init ==
  /\ link = [p \in Peer |-> IF p = Active THEN "connect" ELSE "cr"]
  /\ op = [p \in Peer |-> None]
  /\ wire = [p \in Peer |-> <<>>]
  /\ up = TRUE
  /\ offered = [p \in Peer |-> <<>>]
  /\ delivered = [p \in Peer |-> <<>>]
  /\ confirmed = [p \in Peer |-> <<>>]

-----------------------------------------------------------------------------
(* active_handshake and passive_handshake                                  *)

Go(p, stage) == link' = [link EXCEPT ![p] = stage]

\* p reads a frame and answers it; what is written on a broken connection is lost.
TakeAndPut(p, f) ==
  wire' = [wire EXCEPT ![p] = Tail(@), ![Other(p)] = IF up THEN Append(@, f) ELSE @]

Reads(p, stage) == link[p] = stage /\ wire[p] # <<>>

SendCR ==
  /\ link[Active] = "connect" /\ up
  /\ Put(Other(Active), CR) /\ Go(Active, "cc")
  /\ UNCHANGED <<op, up, offered, delivered, confirmed>>

\* Mutant: the passive partner is done when it has read the negotiation.
PassiveNegotiateSilent(p) ==
  /\ Reads(p, "negotiate") /\ Take(p) /\ Go(p, "open")
  /\ UNCHANGED <<op, up, offered, delivered, confirmed>>

\* The passive partner answers whatever comes first with a confirm, and whatever
\* comes next with a PDU size of 480.
PassiveCR(p) ==
  /\ Reads(p, "cr") /\ TakeAndPut(p, CC) /\ Go(p, "negotiate")
  /\ UNCHANGED <<op, up, offered, delivered, confirmed>>
PassiveNegotiate(p) ==
  /\ Reads(p, "negotiate") /\ TakeAndPut(p, Negotiated) /\ Go(p, "open")
  /\ UNCHANGED <<op, up, offered, delivered, confirmed>>

\* The active partner insists on the confirm.
ActiveCC(p) ==
  /\ Reads(p, "cc")
  /\ IF Head(wire[p]) = CC
     THEN TakeAndPut(p, Negotiate) /\ Go(p, "negotiated")
     ELSE Take(p) /\ Go(p, "failed")
  /\ UNCHANGED <<op, up, offered, delivered, confirmed>>
ActiveNegotiated(p) ==
  /\ Reads(p, "negotiated") /\ Take(p) /\ Go(p, "open")
  /\ UNCHANGED <<op, up, offered, delivered, confirmed>>

\* The handshake ends with an error: a read or a write failed.
HandshakeFails(p) ==
  /\ ~up /\ link[p] \notin {"open", "failed"}
  /\ Go(p, "failed") /\ wire' = [wire EXCEPT ![p] = <<>>]
  /\ UNCHANGED <<op, up, offered, delivered, confirmed>>

HandshakeStep(p) ==
  \/ PassiveCR(p) \/ PassiveNegotiate(p) \/ ActiveCC(p) \/ ActiveNegotiated(p)
  \/ HandshakeFails(p)

-----------------------------------------------------------------------------
(* bsend                                                                   *)

\* The call starts: an empty message has no slices and returns Ok at once.
BSend(p, m) ==
  /\ link[p] = "open" /\ op[p] = None /\ Len(offered[p]) < MaxSend
  /\ TakeTurns => Len(delivered[Other(p)]) = Len(offered[Other(p)])
  /\ IF m.data = <<>>
     THEN UNCHANGED <<op, offered>>
     ELSE /\ op' = [op EXCEPT ![p] = [kind |-> "write", msg |-> m, off |-> 0]]
          /\ offered' = [offered EXCEPT ![p] = Append(@, m)]
  /\ UNCHANGED <<link, wire, up, delivered, confirmed>>

EndOf(m, off) == IF off + MaxSlice < Len(m.data) THEN off + MaxSlice ELSE Len(m.data)

\* Mutant: the end of the slice is taken as inclusive.
SliceOverlap(m, off) ==
  SubSeq(m.data, off + 1, IF EndOf(m, off) < Len(m.data) THEN EndOf(m, off) + 1 ELSE Len(m.data))

Slice(m, off) == SubSeq(m.data, off + 1, EndOf(m, off))

\* The frame with the slice at off.
Frame(m, off) ==
  [tg |-> "data", eos |-> IF EndOf(m, off) = Len(m.data) THEN 0 ELSE 1, rid |-> m.rid,
   raw |-> (IF off = 0 THEN LengthBytes ELSE <<>>) \o Slice(m, off)]

\* On a broken connection a write may still be buffered, and is lost.
WriteFrame(p) ==
  /\ In(p, "write")
  /\ IF up THEN Put(Other(p), Frame(op[p].msg, op[p].off)) ELSE wire' = wire
  /\ op' = [op EXCEPT ![p].kind = "ack"]
  /\ UNCHANGED <<link, up, offered, delivered, confirmed>>

\* Whatever frame comes next is taken as the acknowledgement: its group byte
\* is not looked at, and err is 0 in every frame a partner builds.
ReadAck(p) ==
  /\ In(p, "ack") /\ wire[p] # <<>>
  /\ Take(p)
  /\ LET end == EndOf(op[p].msg, op[p].off) IN
     IF end = Len(op[p].msg.data)
     THEN Return(p) /\ confirmed' = [confirmed EXCEPT ![p] = Append(@, op[p].msg)]
     ELSE /\ op' = [op EXCEPT ![p] = [@ EXCEPT !.kind = "write", !.off = end]]
          /\ UNCHANGED confirmed
  /\ UNCHANGED <<link, up, offered, delivered>>

-----------------------------------------------------------------------------
(* brecv                                                                   *)

BRecv(p) ==
  /\ link[p] = "open" /\ op[p] = None
  /\ op' = [op EXCEPT ![p] = [kind |-> "recv", buf |-> <<>>, first |-> TRUE]]
  /\ UNCHANGED <<link, wire, up, offered, delivered, confirmed>>

\* A frame of another group, or too short to hold the total length expected
\* at the start of a message, makes brecv return an error.
Acceptable(p, f) == f.tg = "data" /\ (op[p].first => Len(f.raw) >= 2)
Payload(p, f) == IF op[p].first THEN SubSeq(f.raw, 3, Len(f.raw)) ELSE f.raw

\* Mutant: only the last slice of a message is acknowledged.
CollectAckLast(p, f, data) ==
  /\ wire' = [wire EXCEPT ![p] = Tail(@),
                          ![Other(p)] = IF up /\ f.eos = 0 THEN Append(@, Ack) ELSE @]
  /\ IF f.eos = 0
     THEN /\ Return(p)
          /\ delivered' = [delivered EXCEPT ![Other(p)] = Append(@, [rid |-> f.rid, data |-> data])]
     ELSE /\ op' = [op EXCEPT ![p] = [@ EXCEPT !.buf = data, !.first = FALSE]]
          /\ UNCHANGED delivered

\* The slice is appended and acknowledged; the last one ends the call.
Collect(p, f, data) ==
  /\ wire' = [wire EXCEPT ![p] = Tail(@), ![Other(p)] = IF up THEN Append(@, Ack) ELSE @]
  /\ IF f.eos = 0
     THEN /\ Return(p)
          /\ delivered' = [delivered EXCEPT ![Other(p)] = Append(@, [rid |-> f.rid, data |-> data])]
     ELSE /\ op' = [op EXCEPT ![p] = [@ EXCEPT !.buf = data, !.first = FALSE]]
          /\ UNCHANGED delivered

ReadFrame(p) ==
  /\ In(p, "recv") /\ wire[p] # <<>>
  /\ LET f == Head(wire[p]) IN
     IF Acceptable(p, f)
     THEN Collect(p, f, op[p].buf \o Payload(p, f))
     ELSE Take(p) /\ Return(p) /\ UNCHANGED delivered
  /\ UNCHANGED <<link, up, offered, confirmed>>

-----------------------------------------------------------------------------
(* The connection                                                          *)

Break == up /\ up' = FALSE /\ UNCHANGED <<link, op, wire, offered, delivered, confirmed>>

\* A read or a write fails on a broken connection and the call returns the
\* error; nothing more can be read from the socket.  connected stays TRUE.
IoError(p) ==
  /\ ~up /\ op[p] # None
  /\ Return(p)
  /\ wire' = [wire EXCEPT ![p] = <<>>]
  /\ UNCHANGED <<link, up, offered, delivered, confirmed>>

CallStep(p) == WriteFrame(p) \/ ReadAck(p) \/ ReadFrame(p) \/ IoError(p)

Next ==
  \/ \E p \in Peer : CallStep(p) \/ BRecv(p) \/ \E m \in Message : BSend(p, m)
  \/ \E p \in Peer : HandshakeStep(p)
  \/ SendCR \/ Break

Spec == Init /\ [][Next]_vars

\* A task that can read or write does.  A write never waits for the peer: at most
\* one frame is unacknowledged.  Nothing is asked of the applications, which need
\* not call brecv, nor of a broken connection, which may be silent and never fail
\* a read: recv_timeout and send_timeout are fields that no code looks at.
FairSpec ==
  /\ Spec
  /\ WF_vars(SendCR)
  /\ \A p \in Peer : WF_vars(PassiveCR(p) \/ PassiveNegotiate(p) \/ ActiveCC(p) \/ ActiveNegotiated(p))
  /\ \A p \in Peer : WF_vars(WriteFrame(p) \/ ReadAck(p) \/ ReadFrame(p))

-----------------------------------------------------------------------------
(* Properties                                                              *)

\* On a connection that stays up connect and accept both return a partner, although
\* the passive side may be done, and sending, before the active side has read its
\* last answer.  They have no timeout: on a silent connection they may wait for ever.
HandshakeEnds == []up => \A p \in Peer : <>(link[p] = "open")

\* When the applications take turns, slices and acknowledgements, on a
\* connection that may break at any point, implement the transfer of whole
\* messages.
Transfer == INSTANCE BulkTransfer WITH Peer <- Peer, Message <- Message,
              offered <- offered, delivered <- delivered, confirmed <- confirmed
Implements == Transfer!Spec

\* A bsend that never returns waits in the end for an acknowledgement that nothing in
\* the code will produce: the partner's application is in no call, or the connection
\* is broken and silent.  While the partner is in brecv on a working connection it
\* cannot hang, whatever the number of slices and wherever the calls before it ended.
Withheld(p) == In(p, "ack") /\ wire[p] = <<>> /\ (~up \/ op[Other(p)] = None)
BSendReturns ==
  \A p \in Peer : <>[](In(p, "write") \/ In(p, "ack")) => <>[]Withheld(p)

\* "Once connected both peers can bsend and brecv in any order": a bsend that
\* returned Ok sent a message that the partner's brecv has returned.
ConfirmedWasDelivered ==
  \A p \in Peer : Len(confirmed[p]) <= Len(delivered[p])
=============================================================================
