----------------------------- MODULE S7Session -----------------------------
(***************************************************************************)
(* An S7Client shared by several tasks (client.rs): the mutex around       *)
(* `Inner`, the request/response exchange of send_s7 and recv_s7, request  *)
(* timeouts, futures dropped half way, and `reconnect`, over a TCP stream  *)
(* to a PLC that answers in order, late, with junk or never.               *)
(*                                                                         *)
(* Every operation of the client (db_read, write_area, read_szl, upload,   *)
(* ..) is one or more exchanges made while holding the mutex; what the     *)
(* requests ask for is abstracted to the identity of the request.          *)
(***************************************************************************)
EXTENDS FairQueue, FiniteSets

CONSTANTS
  Task,      \* tasks that share the client
  MaxReq,    \* bound: requests made in a behaviour
  MaxLink,   \* bound: transports used in a behaviour (reconnects + 1)
  RefMod,    \* pdu_ref wraps here (2^16 in the code)
  None       \* no value

ASSUME SessionConstants ==
  /\ IsFiniteSet(Task)
  /\ MaxReq \in Nat /\ MaxLink \in Nat \ {0}
  /\ RefMod \in Nat \ {0, 1}

VARIABLES
  pc,        \* pc[t]: where task t is in an operation
  queue,     \* tasks at the tokio Mutex, first come first served; the head owns it
  inflight,  \* inflight[t]: the request t is waiting on
  pduRef,    \* Inner::pdu_ref
  connected, \* Inner::connected
  link,      \* Inner::transport: its number and what the network makes of it
  toPlc,     \* requests on their way to the PLC
  toClient,  \* bytes on their way back, cut into TPKT headers and payloads
  half,      \* the PLC has sent the header of its answer to Head(toPlc), not the rest
  sent,      \* number of requests made so far: calls of next_pdu_ref
  dropped,   \* a future was dropped inside an exchange on this transport
  last       \* the exchange completed last, and what was known at that time

vars == <<pc, queue, inflight, pduRef, connected, link, toPlc, toClient, half,
          sent, dropped, last>>

\* "up"       the peer is there and reads
\* "stalled"  the peer is there but reads no more: the buffers are full
\* "gone"     the peer closed or reset; a write may still be accepted
\* "failing"  a write has failed, and so does every later one
LinkStates == {"up", "stalled", "gone", "failing"}

\* "idle"     no operation
\* "ready"    next_pdu_ref and send_s7 come next, once t owns the mutex
\* "header"   in recv_s7, reading the four bytes of the TPKT header
\* "payload"  in recv_s7, reading as many bytes as the header said
\* "swallow"  the same, after payload bytes were taken for a header: the
\*            length they spell (0x8032) is more than the PLC still owes
\* "dialing"  in reconnect: TCP connect and handshake, without the mutex
\* "swapping" in reconnect: the new transport is up, waiting for the mutex
Stages == {"idle", "ready", "header", "payload", "swallow", "dialing", "swapping"}
Reading == {"header", "payload", "swallow"}

Request == [id : 1..MaxReq, ref : 0..(RefMod - 1), nr : 1..MaxLink]

\* What recv_s7 reads: the head and the rest of an answer.  A PLC that fails may send
\* a frame whose length says less than its four bytes ("runt"), or a rest that is no
\* COTP Data PDU with an S7 header ("garbled").
Piece == [part : {"header", "payload", "runt", "garbled"}, of : Request]

TypeOK ==
  /\ pc \in [Task -> Stages]
  /\ queue \in Seq(Task)
  /\ inflight \in [Task -> Request \cup {None}]
  /\ pduRef \in 0..(RefMod - 1)
  /\ connected \in BOOLEAN
  /\ link \in [nr : 1..MaxLink, state : LinkStates]
  /\ toPlc \in Seq(Request)
  /\ toClient \in Seq(Piece)
  /\ half \in BOOLEAN
  /\ sent \in 0..MaxReq
  /\ dropped \in BOOLEAN
  /\ last \in [asked : Request, got : Request, connected : BOOLEAN, dropped : BOOLEAN]
              \cup {None}

\* from_transport: the handshake is done, the client is connected.
Init ==
  /\ pc = [t \in Task |-> "idle"]
  /\ queue = <<>>
  /\ inflight = [t \in Task |-> None]
  /\ pduRef = 1
  /\ connected = TRUE
  /\ link = [nr |-> 1, state |-> "up"]
  /\ toPlc = <<>> /\ toClient = <<>> /\ half = FALSE
  /\ sent = 0 /\ dropped = FALSE /\ last = None

-----------------------------------------------------------------------------
(* The mutex of tokio: a fair queue                                        *)

Owns(t) == queue # <<>> /\ Head(queue) = t
Enqueue(t) == queue' = Append(queue, t)

\* t gives the mutex up, or leaves the queue because its future is dropped.
Leave(t) == queue' = Without(queue, t)

\* The operation of t is over and its guard is dropped.
Finish(t) ==
  /\ pc' = [pc EXCEPT ![t] = "idle"]
  /\ inflight' = [inflight EXCEPT ![t] = None]
  /\ Leave(t)

stream == <<toPlc, toClient, half>>

-----------------------------------------------------------------------------
(* An operation: self.inner.lock().await, then exchanges                   *)

\* Bounds: an exchange, or a reconnect, that starts can also finish.
MayAsk == sent + Cardinality({t \in Task : pc[t] = "ready"}) < MaxReq
MayDial == link.nr + Cardinality({t \in Task : pc[t] \in {"dialing", "swapping"}}) < MaxLink

StartOp(t) ==
  /\ pc[t] = "idle"
  /\ MayAsk
  /\ pc' = [pc EXCEPT ![t] = "ready"]
  /\ Enqueue(t)
  /\ UNCHANGED <<inflight, pduRef, connected, link, stream, sent, dropped, last>>

\* Mutant: the reference is not advanced.
SameRef == pduRef

\* next_pdu_ref: wrapping_add(1).
NextRef == (pduRef + 1) % RefMod

\* send_s7.  write_all waits, with the mutex held and no timeout, for a peer that
\* does not read.  A peer that is gone may still let the write succeed; the bytes
\* are lost then.  `connected` is not looked at.
Send(t) ==
  /\ pc[t] = "ready" /\ Owns(t)
  /\ link.state \in {"up", "gone"}
  /\ LET r == [id |-> sent + 1, ref |-> NextRef, nr |-> link.nr]
     IN  /\ inflight' = [inflight EXCEPT ![t] = r]
         /\ toPlc' = IF link.state = "up" THEN Append(toPlc, r) ELSE toPlc
  /\ pduRef' = NextRef
  /\ sent' = sent + 1
  /\ pc' = [pc EXCEPT ![t] = "header"]
  /\ UNCHANGED <<queue, connected, link, toClient, half, dropped, last>>

\* write_all fails: `?` returns the error and leaves `connected` as it is.
SendError(t) ==
  /\ pc[t] = "ready" /\ Owns(t)
  /\ link.state \in {"gone", "failing"}
  /\ link' = [link EXCEPT !.state = "failing"]
  /\ pduRef' = NextRef
  /\ sent' = sent + 1
  /\ Finish(t)
  /\ UNCHANGED <<connected, stream, dropped, last>>

\* The first read_exact of recv_s7.  It takes whatever four bytes come next.
ReadHeader(t) ==
  /\ pc[t] = "header"
  /\ toClient # <<>> /\ Head(toClient).part # "runt"
  /\ pc' = [pc EXCEPT ![t] = IF Head(toClient).part = "header" THEN "payload" ELSE "swallow"]
  /\ toClient' = Tail(toClient)
  /\ UNCHANGED <<queue, inflight, pduRef, connected, link, toPlc, half, sent, dropped, last>>

\* The second read_exact completes the exchange: the answer goes to t
\* whatever its pdu_ref is.  An operation of several exchanges (multi-var
\* batches, upload, download) goes on with the mutex held, the others end.
ReadPayload(t) ==
  /\ pc[t] = "payload"
  /\ toClient # <<>> /\ Head(toClient).part # "garbled"
  /\ last' = [asked |-> inflight[t], got |-> Head(toClient).of,
              connected |-> connected, dropped |-> dropped]
  /\ toClient' = Tail(toClient)
  /\ \/ Finish(t)
     \/ /\ MayAsk
        /\ pc' = [pc EXCEPT ![t] = "ready"]
        /\ inflight' = [inflight EXCEPT ![t] = None]
        /\ UNCHANGED queue
  /\ UNCHANGED <<pduRef, connected, link, toPlc, half, sent, dropped>>

\* UnexpectedResponse: a length below four, a COTP header that is short or no Data
\* PDU, or an S7 header that does not decode.  The frame is consumed and the
\* operation ends; `connected` stays as it is.
Unexpected(t) ==
  /\ toClient # <<>>
  /\ \/ pc[t] = "header" /\ Head(toClient).part = "runt"
     \/ pc[t] = "payload" /\ Head(toClient).part = "garbled"
  /\ toClient' = Tail(toClient)
  /\ Finish(t)
  /\ UNCHANGED <<pduRef, connected, link, toPlc, half, sent, dropped, last>>

\* read_exact consumes what arrives although it can never complete.
Swallow(t) ==
  /\ pc[t] = "swallow"
  /\ toClient # <<>>
  /\ toClient' = Tail(toClient)
  /\ UNCHANGED <<pc, queue, inflight, pduRef, connected, link, toPlc, half, sent, dropped, last>>

\* Mutant: a read that fails does not clear `connected`.
ReadErrorUnmarked(t) ==
  /\ pc[t] \in Reading
  /\ toClient = <<>>
  /\ Finish(t)
  /\ UNCHANGED <<pduRef, connected, link, stream, sent, dropped, last>>

\* Mutant: the payload is read without a timeout and fails only on EOF.
ReadErrorNoTimer(t) ==
  /\ pc[t] \in Reading
  /\ toClient = <<>> /\ (pc[t] # "header" => link.state # "up")
  /\ connected' = FALSE
  /\ Finish(t)
  /\ UNCHANGED <<pduRef, link, stream, sent, dropped, last>>

\* One of the reads runs into request_timeout, or the peer is gone.
ReadError(t) ==
  /\ pc[t] \in Reading
  /\ toClient = <<>>
  /\ connected' = FALSE
  /\ Finish(t)
  /\ UNCHANGED <<pduRef, link, stream, sent, dropped, last>>

\* The caller drops the future: at the mutex, at write_all before anything
\* was written (the reference is used up), or inside recv_s7, where the
\* answer stays on the stream.
DropFuture(t) ==
  /\ pc[t] \in Reading \cup {"ready", "dialing", "swapping"}
  /\ dropped' = (dropped \/ pc[t] \in Reading)
  /\ \/ UNCHANGED <<pduRef, sent>>
     \/ pc[t] = "ready" /\ Owns(t) /\ pduRef' = NextRef /\ sent' = sent + 1
  /\ Finish(t)
  /\ UNCHANGED <<connected, link, stream, last>>

-----------------------------------------------------------------------------
(* reconnect                                                               *)

StartReconnect(t) ==
  /\ pc[t] = "idle"
  /\ MayDial
  /\ pc' = [pc EXCEPT ![t] = "dialing"]
  /\ UNCHANGED <<queue, inflight, pduRef, connected, link, stream, sent, dropped, last>>

DialError(t) ==
  /\ pc[t] = "dialing"
  /\ Finish(t)
  /\ UNCHANGED <<pduRef, connected, link, stream, sent, dropped, last>>

DialOk(t) ==
  /\ pc[t] = "dialing"
  /\ pc' = [pc EXCEPT ![t] = "swapping"]
  /\ Enqueue(t)
  /\ UNCHANGED <<inflight, pduRef, connected, link, stream, sent, dropped, last>>

\* Mutant: only the sending half of the transport is replaced.
SwapHalf(t) ==
  /\ pc[t] = "swapping" /\ Owns(t)
  /\ \E st \in {"up", "gone"} : link' = [nr |-> link.nr + 1, state |-> st]
  /\ toPlc' = <<>> /\ half' = FALSE
  /\ pduRef' = 1
  /\ connected' = TRUE
  /\ dropped' = FALSE
  /\ Finish(t)
  /\ UNCHANGED <<toClient, sent, last>>

\* Under the mutex the whole of Inner is reset around the new transport,
\* which may have broken since it was dialed.
Swap(t) ==
  /\ pc[t] = "swapping" /\ Owns(t)
  /\ \E st \in {"up", "gone"} : link' = [nr |-> link.nr + 1, state |-> st]
  /\ toPlc' = <<>> /\ toClient' = <<>> /\ half' = FALSE
  /\ pduRef' = 1
  /\ connected' = TRUE
  /\ dropped' = FALSE
  /\ Finish(t)
  /\ UNCHANGED <<sent, last>>

-----------------------------------------------------------------------------
(* The PLC and the network                                                 *)

\* The PLC answers requests in order; the answer may be cut by TCP.
PlcHeader ==
  /\ toPlc # <<>> /\ ~half
  /\ half' = TRUE
  /\ toClient' = Append(toClient, [part |-> "header", of |-> Head(toPlc)])
  /\ UNCHANGED <<pc, queue, inflight, pduRef, connected, link, toPlc, sent, dropped, last>>

PlcPayload ==
  /\ half
  /\ half' = FALSE
  /\ \E p \in {"payload", "garbled"} : toClient' = Append(toClient, [part |-> p, of |-> Head(toPlc)])
  /\ toPlc' = Tail(toPlc)
  /\ UNCHANGED <<pc, queue, inflight, pduRef, connected, link, sent, dropped, last>>

PlcRunt ==
  /\ toPlc # <<>> /\ ~half
  /\ toClient' = Append(toClient, [part |-> "runt", of |-> Head(toPlc)])
  /\ toPlc' = Tail(toPlc)
  /\ UNCHANGED <<pc, queue, inflight, pduRef, connected, link, half, sent, dropped, last>>

\* The peer stops reading, for good unless it closes or a reconnect replaces it.
Stall ==
  /\ link.state = "up"
  /\ link' = [link EXCEPT !.state = "stalled"]
  /\ UNCHANGED <<pc, queue, inflight, pduRef, connected, stream, sent, dropped, last>>

\* The peer closes (what it sent stays readable) or resets the connection.
Break ==
  /\ link.state \in {"up", "stalled"}
  /\ link' = [link EXCEPT !.state = "gone"]
  /\ toPlc' = <<>> /\ half' = FALSE
  /\ toClient' \in {toClient, <<>>}
  /\ UNCHANGED <<pc, queue, inflight, pduRef, connected, sent, dropped, last>>

-----------------------------------------------------------------------------
ClientStep(t) ==
  \/ Send(t) \/ SendError(t) \/ ReadHeader(t) \/ ReadPayload(t) \/ Unexpected(t)
  \/ Swallow(t) \/ ReadError(t) \/ Swap(t)

Next ==
  \/ \E t \in Task :
       \/ StartOp(t) \/ Send(t) \/ SendError(t)
       \/ ReadHeader(t) \/ ReadPayload(t) \/ Unexpected(t) \/ Swallow(t) \/ ReadError(t)
       \/ DropFuture(t)
       \/ StartReconnect(t) \/ DialError(t) \/ DialOk(t) \/ Swap(t)
  \/ PlcHeader \/ PlcPayload \/ PlcRunt \/ Stall \/ Break

\* The executor runs what is ready and timers fire.  Nothing is asked of the
\* PLC, of the dial (its handshake has no timeout) or of the callers.
Spec == Init /\ [][Next]_vars
FairSpec == Spec /\ \A t \in Task : WF_vars(ClientStep(t))

-----------------------------------------------------------------------------
(* Properties                                                              *)

\* A caller that trusts is_connected() and lets its futures run gets the
\* answer to its own request: recv_s7 takes the next frame of the stream
\* without comparing pdu_ref, so this rests on the mutex being held over
\* the exchange, on every failed read clearing `connected` and on
\* reconnect starting from an empty stream.
TrustWhileConnected ==
  last # None /\ last.connected /\ ~last.dropped => last.got.id = last.asked.id

\* "On success the client resumes normal operation" (reconnect): nothing
\* sent over an abandoned transport is ever taken for an answer on the next.
NothingFromOldTransport == last # None => last.got.nr = last.asked.nr

\* An answer to somebody else's request, which the client accepts after a
\* timeout or a dropped future, carries another pdu_ref than the request:
\* next_pdu_ref keeps the references of requests that are still owed an
\* answer apart, over wrap-around and over the reset made by reconnect, as
\* long as no answer is RefMod requests late.
RefTellsAnswersApart ==
  last # None /\ last.got.id # last.asked.id => last.got.ref # last.asked.ref

\* Unless the peer stops reading for good, every operation ends, and so does the part
\* of reconnect that needs the mutex, although the PLC may never answer and another
\* task's reconnect may hang in its handshake: both reads are timed and the dial is
\* outside the mutex.  The write is not timed: against a peer that is there and does
\* not read, the operation and all that wait for the mutex, reconnect among them, wait
\* until the peer is gone or the caller gives up.
OperationsEnd ==
  []<>(link.state # "stalled") =>
    \A t \in Task : pc[t] \in {"ready", "swapping"} ~> pc[t] \in {"idle", "dialing"}

=============================================================================
