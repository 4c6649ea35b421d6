----------------------------- MODULE Dispatch ------------------------------
(***************************************************************************)
(* dispatch_loop of the server (dispatch.rs), one per connection, on a     *)
(* multi-threaded runtime, against the store that they share with threads  *)
(* of the application.                                                     *)
(*                                                                         *)
(* A connection decodes a request, runs it item by item on the store and   *)
(* answers it before it reads the next one.  The bytes of a request are    *)
(* abstracted to its kind and its items; pdu_ref is the position of the    *)
(* request on its connection.                                              *)
(***************************************************************************)
EXTENDS DataStore, FiniteSetsExt

CONSTANTS
  Conn,    \* connections; each is a thread of the store
  Request, \* Request[c]: requests that may arrive on connection c
  MaxAsk,  \* MaxAsk[c]: bound on the requests of connection c
  MaxBody  \* bytes read that one TPKT frame can carry in an answer

Kind == {"badframe", "malformed", "refused", "control", "query", "clock", "read", "write"}

\* A read or write in progress: items done, and the bytes each item read.
Data == UNION {[os -> Byte] : os \in SUBSET Offset}
Job == [done : Nat, got : Seq(Data)]

\* The peer of a connection: it takes what it is sent, it has stopped reading and
\* the buffers between the two are full, or it has closed the transport.
Peer == {"reads", "stalled", "closed"}

\* Requests are well formed: what does not decode is "malformed" or "refused".
ASSUME DispatchConstants ==
  /\ Conn \subseteq Thread
  /\ MaxAsk \in [Conn -> Nat] /\ MaxBody \in Nat
  /\ \A c \in Conn : \A r \in Request[c] :
       /\ r.kind \in Kind
       /\ r.kind = "clock" => r.clock \in Clock
       /\ r.kind = "read" => r.items \in Seq([area : Area, offs : SUBSET Offset])
       /\ r.kind = "write" => r.items \in Seq([area : Area, offs : SUBSET Offset, byte : Byte])
  /\ None \notin Job

App == Thread \ Conn

VARIABLES
  asked,   \* asked[c]: the requests the client sent, in order
  nread,   \* nread[c]: how many of them the loop has read
  job,     \* job[c]: the read or write in progress: items done, data read
  replies, \* replies[c]: the answers sent
  peer,    \* peer[c]: what the other end of the transport does
  live     \* live[c]: dispatch_loop is running

connVars == <<asked, nread, job, replies, peer, live>>
vars == <<storeVars, connVars>>

TypeOK ==
  /\ StoreTypeOK
  /\ \A c \in Conn : /\ asked[c] \in Seq(Request[c])
                     /\ nread[c] \in 0..Len(asked[c]) /\ Len(asked[c]) <= MaxAsk[c]
                     /\ job[c] # None => nread[c] > 0
                     /\ \A i \in 1..Len(replies[c]) : replies[c][i].ref \in 0..MaxAsk[c]
  /\ peer \in [Conn -> Peer]
  /\ live \in [Conn -> BOOLEAN]

Init ==
  /\ StoreInit
  /\ asked = [c \in Conn |-> <<>>]
  /\ nread = [c \in Conn |-> 0]
  /\ job = [c \in Conn |-> None]
  /\ replies = [c \in Conn |-> <<>>]
  /\ peer = [c \in Conn |-> "reads"]
  /\ live = [c \in Conn |-> TRUE]

Current(c) == asked[c][nread[c]]

-----------------------------------------------------------------------------
(* The client and the transport, which is dropped when the loop returns    *)

Ask(c) ==
  /\ live[c] /\ peer[c] # "closed" /\ Len(asked[c]) < MaxAsk[c]
  /\ \E r \in Request[c] : asked' = [asked EXCEPT ![c] = Append(@, r)]
  /\ UNCHANGED <<storeVars, nread, job, replies, peer, live>>

PeerClose(c) ==
  /\ live[c] /\ peer[c] # "closed"
  /\ peer' = [peer EXCEPT ![c] = "closed"]
  /\ UNCHANGED <<storeVars, asked, nread, job, replies, live>>

\* It matters only while an answer is still to be written.
PeerStalls(c) ==
  /\ peer[c] = "reads" /\ live[c] /\ Len(replies[c]) < Len(asked[c])
  /\ peer' = [peer EXCEPT ![c] = "stalled"]
  /\ UNCHANGED <<storeVars, asked, nread, job, replies, live>>

\* recv_cotp_data fails once the peer has closed and all it sent was read, and
\* on a frame that is no TPKT frame with a COTP Data PDU: the loop returns.
RecvError(c) ==
  /\ live[c] /\ job[c] = None
  /\ IF nread[c] = Len(asked[c])
     THEN peer[c] = "closed"
     ELSE asked[c][nread[c] + 1].kind = "badframe"
  /\ live' = [live EXCEPT ![c] = FALSE]
  /\ UNCHANGED <<storeVars, asked, nread, job, replies, peer>>

-----------------------------------------------------------------------------
(* The loop                                                                *)

Fits(body) == MapThenSumSet(LAMBDA j : Cardinality(DOMAIN body[j]), DOMAIN body) <= MaxBody

\* Writing the answer: write_all waits for a peer that does not read.  An answer too
\* long for TpktFrame::encode is not written, and a closed peer may make the write
\* fail: either error ends the loop.
Answer(c, ref, ok, body) ==
  \/ /\ Fits(body) /\ peer[c] # "stalled"
     /\ replies' = [replies EXCEPT ![c] = Append(@, [ref |-> ref, ok |-> ok, body |-> body])]
     /\ live' = live
  \/ /\ ~Fits(body) \/ peer[c] = "closed"
     /\ live' = [live EXCEPT ![c] = FALSE]
     /\ replies' = replies

Ready(c) == live[c] /\ job[c] = None /\ nread[c] < Len(asked[c])
Next1(c) == asked[c][nread[c] + 1]

Consume(c) == nread' = [nread EXCEPT ![c] = @ + 1]

\* Mutant: an undecodable header is dropped without an answer.
RejectSilently(c) ==
  /\ Ready(c) /\ Next1(c).kind \in {"malformed", "refused"}
  /\ Consume(c)
  /\ IF Next1(c).kind = "malformed"
     THEN UNCHANGED <<replies, live>>
     ELSE Answer(c, nread[c] + 1, FALSE, <<>>)
  /\ UNCHANGED <<storeVars, asked, job, peer>>

\* A header that does not decode is answered with pdu_ref 0; an empty or
\* undecodable body, an unknown function or PDU type with its own.
Reject(c) ==
  /\ Ready(c) /\ Next1(c).kind \in {"malformed", "refused"}
  /\ Consume(c)
  /\ Answer(c, IF Next1(c).kind = "malformed" THEN 0 ELSE nread[c] + 1, FALSE, <<>>)
  /\ UNCHANGED <<storeVars, asked, job, peer>>

\* Stop, start, status and password requests: a fixed acknowledgement; the
\* CPU state of the store is neither read nor changed.
AckOnly(c) ==
  /\ Ready(c) /\ Next1(c).kind = "control"
  /\ Consume(c)
  /\ Answer(c, nread[c] + 1, TRUE, <<>>)
  /\ UNCHANGED <<storeVars, asked, job, peer>>

\* UserData that asks for an SZL or for the clock: a table built into the
\* server, or the eight bytes of the store's clock.
QueryRequest(c) ==
  /\ Ready(c) /\ Next1(c).kind = "query"
  /\ Consume(c)
  /\ Answer(c, nread[c] + 1, TRUE, <<>>)
  /\ UNCHANGED <<storeVars, asked, job, peer>>

\* handle_clock_user_data setting the clock.
ClockRequest(c) ==
  /\ Ready(c) /\ Next1(c).kind = "clock"
  /\ Consume(c)
  /\ SetClock(c, Next1(c).clock)
  /\ Answer(c, nread[c] + 1, TRUE, <<>>)
  /\ UNCHANGED <<asked, job, peer>>

\* handle_read_var and handle_write_var decode all items before the first.
StartJob(c) ==
  /\ Ready(c) /\ Next1(c).kind \in {"read", "write"}
  /\ Consume(c)
  /\ job' = [job EXCEPT ![c] = [done |-> 0, got |-> <<>>]]
  /\ UNCHANGED <<storeVars, asked, replies, peer, live>>

Item(c) == Current(c).items[job[c].done + 1]
MoreItems(c) == job[c] # None /\ job[c].done < Len(Current(c).items)

ReadItem(c) ==
  /\ MoreItems(c) /\ Current(c).kind = "read"
  /\ ReadArea(c)
  /\ job' = [job EXCEPT ![c] = [done |-> @.done + 1,
                                got |-> Append(@.got, Snapshot(Item(c).area, Item(c).offs))]]
  /\ UNCHANGED <<asked, nread, replies, peer, live>>

WriteItem(c) ==
  /\ MoreItems(c) /\ Current(c).kind = "write"
  /\ WriteArea(c, Item(c).area, [o \in Item(c).offs |-> Item(c).byte])
  /\ job' = [job EXCEPT ![c].done = @ + 1]
  /\ UNCHANGED <<asked, nread, replies, peer, live>>

\* fire_read or fire_write of the item's access.
FireItem(c) == (TakeCallbacks(c) \/ RestoreCallbacks(c)) /\ UNCHANGED connVars

\* Mutant: the answer carries the reference of the last request received.
FinishJobLatestRef(c) ==
  /\ job[c] # None /\ ~MoreItems(c) /\ Free(c)
  /\ job' = [job EXCEPT ![c] = None]
  /\ Answer(c, Len(asked[c]), TRUE, job[c].got)
  /\ UNCHANGED <<storeVars, asked, nread, peer>>

\* All items succeeded (locked areas too): AckData with the data read.
FinishJob(c) ==
  /\ job[c] # None /\ ~MoreItems(c) /\ Free(c)
  /\ job' = [job EXCEPT ![c] = None]
  /\ Answer(c, nread[c], TRUE, job[c].got)
  /\ UNCHANGED <<storeVars, asked, nread, peer>>

Loop(c) ==
  \/ RecvError(c) \/ Reject(c) \/ AckOnly(c) \/ QueryRequest(c) \/ ClockRequest(c)
  \/ StartJob(c) \/ ReadItem(c) \/ WriteItem(c) \/ FireItem(c) \/ FinishJob(c)

AppStep(t) == Configure(t) /\ UNCHANGED connVars

Next ==
  \/ \E c \in Conn : Ask(c) \/ PeerClose(c) \/ PeerStalls(c) \/ Loop(c)
  \/ \E t \in App : AppStep(t)

Spec == Init /\ [][Next]_vars

\* The runtime polls every ready task and the mutex is held briefly, so every
\* connection's loop keeps running but while it waits in write_all for a peer that
\* does not read; nothing obliges clients or application.
FairSpec == Spec /\ \A c \in Conn : WF_vars(Loop(c))

-----------------------------------------------------------------------------
(* Properties                                                              *)

\* Every connection is answered in the order it asked, one answer per request
\* read, each with the pdu_ref of its request (0 where none was decoded),
\* whatever the other connections and the application do meanwhile.
AnswersInOrder ==
  \A c \in Conn :
    /\ live[c] => Len(replies[c]) = nread[c] - (IF job[c] # None THEN 1 ELSE 0)
    /\ \A i \in 1..Len(replies[c]) :
         replies[c][i].ref = IF asked[c][i].kind = "malformed" THEN 0 ELSE i

\* What clients read and what they write do not overlap in part.
ItemsAligned ==
  \A c, d \in Conn : \A r \in Request[c], w \in Request[d] :
    r.kind = "read" /\ w.kind = "write" =>
      \A i \in 1..Len(r.items), j \in 1..Len(w.items) :
        r.items[i].area = w.items[j].area =>
          \/ r.items[i].offs \subseteq w.items[j].offs
          \/ \A o \in r.items[i].offs : o \notin w.items[j].offs

\* The bytes of one item in an answer were in memory at the same time: an
\* item is read under one lock and written under one lock, so a reader never
\* sees part of a write (every write of this instance fills the offsets it
\* covers with one value).
NoTornItem ==
  \A c \in Conn : \A i \in 1..Len(replies[c]) : \A j \in 1..Len(replies[c][i].body) :
    \A o, p \in DOMAIN replies[c][i].body[j] :
      replies[c][i].body[j][o] = replies[c][i].body[j][p]

\* While an area stays locked its bytes stay as they were, for requests that
\* were already being processed when it was locked too; only purging the area
\* with unregister_area changes them.
LockedAreaFrozen ==
  [][\A a \in locked : mem'[a] # mem[a] => \A o \in Offset : mem'[a][o] = 0]_vars

\* The bytes a request asks for do not fit into one answer.
TooLong(r) ==
  r.kind = "read"
    /\ MapThenSumSet(LAMBDA j : Cardinality(r.items[j].offs), DOMAIN r.items) > MaxBody

\* The answers c is due: to every request before the first that ends the loop in
\* silence, a frame that is no COTP Data PDU or a read whose answer exceeds a frame.
Due(c) ==
  LET fatal == {i \in 1..Len(asked[c]) : asked[c][i].kind = "badframe" \/ TooLong(asked[c][i])}
  IN  IF fatal = {} THEN Len(asked[c]) ELSE Min(fatal) - 1

\* The requests of a connection are eventually all answered, up to one that ends the
\* loop, unless the peer closes or stops reading: no handler waits for another
\* connection, its peer, the application or a callback list.
RequestsAnswered ==
  \A c \in Conn :
    (Len(replies[c]) < Due(c)) ~> (Len(replies[c]) >= Due(c) \/ peer[c] # "reads")
=============================================================================
