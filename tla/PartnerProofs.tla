--------------------------- MODULE PartnerProofs ---------------------------
(***************************************************************************)
(* Two partners whose applications take turns implement the transfer of    *)
(* whole messages: for messages of any length, slices of any size, and a   *)
(* connection that breaks at any point.                                    *)
(***************************************************************************)
EXTENDS Partner, FairQueueProofs

-----------------------------------------------------------------------------
(* The inductive invariant                                                 *)

\* A call of bsend that writes or waits, or of brecv.
Is(o, kind) == o # None /\ o.kind = kind
Sending(o) == Is(o, "write") \/ Is(o, "ack")

\* The acknowledgement comes first and the data last of what is on its way.
AckFirst(w) == w # <<>> /\ Head(w) = Ack
DataLast(w) == w # <<>> /\ w[Len(w)].tg = "data"
LastOf(w) == w[Len(w)]

\* What brecv has collected when the slice at off comes next.
Fresh(o) == Is(o, "recv") => o.first /\ o.buf = <<>>
RecvAt(o, m, off) ==
  IF off = 0 THEN Fresh(o)
  ELSE Is(o, "recv") /\ ~o.first /\ o.buf = SubSeq(m.data, 1, off)

Final(m, off) == EndOf(m, off) = Len(m.data)
Offset(m) == {off \in Nat : off < Len(m.data)}

PTypeOK ==
  /\ link \in [Peer -> {"connect", "cc", "negotiated", "cr", "negotiate", "open", "failed"}]
  /\ op \in [Peer -> Call \cup {None}]
  /\ wire = [p \in Peer |-> wire[p]]
  /\ up \in BOOLEAN
  /\ offered \in [Peer -> Seq(Message)]
  /\ delivered \in [Peer -> Seq(Message)]
  /\ confirmed \in [Peer -> Seq(Message)]

\* What may be on its way to a peer, by where it is in its handshake.
WireShape(l, w) ==
  /\ l \in {"connect", "failed"} => w = <<>>
  /\ l = "cr" => w = <<>> \/ w = <<CR>>
  /\ l = "negotiate" => w = <<>> \/ w = <<Negotiate>>
  /\ l = "cc" => w = <<>> \/ w = <<CC>>
  /\ l = "negotiated" =>
       w = <<>> \/ w = <<Negotiated>> \/ (DataLast(w) /\ w = <<Negotiated, LastOf(w)>>)
  /\ l = "open" =>
       w = <<>> \/ w = <<Ack>> \/ (DataLast(w) /\ (w = <<LastOf(w)>> \/ w = <<Ack, LastOf(w)>>))
Shape(p) == WireShape(link[p], wire[p]) /\ (link[p] # "open" => op[p] = None)

\* The handshake goes to and fro as long as the connection works.
Passive == Other(Active)
HandshakeInv ==
  /\ link[Active] \in {"connect", "cc", "negotiated", "open", "failed"}
  /\ link[Passive] \in {"cr", "negotiate", "open", "failed"}
  /\ up => \/ link[Active] = "connect" /\ link[Passive] = "cr" /\ wire[Passive] = <<>>
           \/ link[Active] = "cc" /\ link[Passive] = "cr" /\ wire[Active] = <<>>
           \/ link[Active] = "cc" /\ link[Passive] = "negotiate" /\ wire[Passive] = <<>>
           \/ link[Active] = "negotiated" /\ link[Passive] = "negotiate" /\ wire[Active] = <<>>
           \/ link[Active] = "negotiated" /\ link[Passive] = "open" /\ wire[Active] # <<>>
           \/ link[Active] = "open" /\ link[Passive] = "open"

\* The data on its way to q is a slice of the first message of p that q has
\* not received, the one that q waits for.
SliceAt(p, q, off) ==
  LET m == offered[p][Len(delivered[p]) + 1] IN
  /\ off \in Offset(m) /\ LastOf(wire[q]) = Frame(m, off) /\ RecvAt(op[q], m, off)
  /\ up => Is(op[p], "ack") /\ op[p].msg = m /\ op[p].off = off /\ ~AckFirst(wire[p])
DataInv(p, q) ==
  DataLast(wire[q]) => Len(delivered[p]) < Len(offered[p]) /\ \E off \in Nat : SliceAt(p, q, off)

\* An acknowledgement on its way to p is of the slice that p waits for.
AckInv(p, q) ==
  AckFirst(wire[p]) =>
    /\ Is(op[p], "ack") /\ ~DataLast(wire[q])
    /\ Len(confirmed[p]) < Len(offered[p]) /\ op[p].msg = offered[p][Len(confirmed[p]) + 1]
    /\ IF Final(op[p].msg, op[p].off) THEN Len(confirmed[p]) < Len(delivered[p])
       ELSE /\ Len(confirmed[p]) = Len(delivered[p])
            /\ up => RecvAt(op[q], op[p].msg, EndOf(op[p].msg, op[p].off))

\* A bsend is at a slice of its message, and has returned Ok for what has arrived.
SendInv(p, q) ==
  /\ Len(confirmed[p]) <= Len(delivered[p])
  /\ Sending(op[p]) => op[p].msg \in Message /\ op[p].off \in Offset(op[p].msg)
  /\ Sending(op[p]) /\ DataLast(wire[p]) => AckFirst(wire[p])

\* One message at a time, as long as the connection works.
UpInv(p, q) ==
  up =>
    /\ ~Sending(op[p]) =>
         /\ Len(offered[p]) = Len(delivered[p]) /\ Len(offered[p]) = Len(confirmed[p]) /\ Fresh(op[q])
    /\ Sending(op[p]) =>
         /\ Len(offered[p]) = Len(confirmed[p]) + 1 /\ op[p].msg = offered[p][Len(offered[p])]
    /\ Is(op[p], "write") =>
         Len(delivered[p]) = Len(confirmed[p]) /\ RecvAt(op[q], op[p].msg, op[p].off)
    /\ Is(op[p], "ack") => AckFirst(wire[p]) \/ DataLast(wire[q])
    /\ AckFirst(wire[p]) /\ Final(op[p].msg, op[p].off) =>
         Len(delivered[p]) = Len(offered[p]) /\ Fresh(op[q])

\* One direction at a time.
TurnInv(p, q) ==
  /\ Len(delivered[p]) <= Len(offered[p])
  /\ Len(delivered[p]) < Len(offered[p]) => Len(delivered[q]) = Len(offered[q])

DirInv(p, q) == DataInv(p, q) /\ AckInv(p, q) /\ SendInv(p, q) /\ UpInv(p, q) /\ TurnInv(p, q)

IInv ==
  /\ PTypeOK /\ HandshakeInv
  /\ \A p \in Peer : Shape(p) /\ DirInv(p, Other(p))

-----------------------------------------------------------------------------
(* Sequences                                                               *)

\* Two bytes in front, and stripped again.
LEMMA StripTwo ==
  ASSUME NEW S, NEW d \in Seq(S), NEW x, NEW y
  PROVE  /\ Len(<<x, y>> \o d) >= 2
         /\ SubSeq(<<x, y>> \o d, 3, Len(<<x, y>> \o d)) = d
<1> DEFINE T == S \cup {x, y}
           h == <<x, y>>
           w == h \o d
           r == SubSeq(w, 2 + 1, Len(w))
<1>1. d \in Seq(T) /\ h \in Seq(T) /\ Len(h) = 2 /\ Len(d) \in Nat
  OBVIOUS
<1>0. w = h \o d
  OBVIOUS
<1> HIDE DEF T, h, w
<1>2. w \in Seq(T) /\ Len(w) = 2 + Len(d) /\ \A i \in 1..Len(d) : w[2 + i] = d[i]
  <2>1. /\ w \in Seq(T) /\ Len(w) = Len(h) + Len(d)
        /\ \A i \in 1..Len(d) : w[Len(h) + i] = d[i]
    <3>1. h \in Seq(T) /\ d \in Seq(T)
      BY ONLY <1>1
    <3> QED
      BY ONLY <1>0, <3>1, ConcatCases
  <2> QED
    BY ONLY <1>1, <2>1
<1>3. 2 <= Len(w) /\ Len(w) \in Nat /\ Len(w) - 2 = Len(d)
  BY <1>1, <1>2
<1>4. r \in Seq(T) /\ Len(r) = Len(d) /\ \A i \in 1..Len(d) : r[i] = w[2 + i]
  BY <1>2, <1>3, PartOf
<1>5. r = d
  BY <1>1, <1>2, <1>4, SameSeq
<1> QED
  BY <1>3, <1>5 DEF w, h

\* What is on the wire: nothing, one frame, or two.
LEMMA NoFrame == ~AckFirst(<<>>) /\ ~DataLast(<<>>)
BY DEF AckFirst, DataLast

\* One frame is the first and the last.
LEMMA OneFrame ==
  ASSUME NEW x
  PROVE  /\ AckFirst(<<x>>) <=> x = Ack
         /\ DataLast(<<x>>) <=> x.tg = "data"
         /\ LastOf(<<x>>) = x /\ <<x>> # <<>> /\ Head(<<x>>) = x /\ Tail(<<x>>) = <<>>
         /\ Append(<<>>, x) = <<x>>
<1>1. /\ LastOf(<<x>>) = x /\ <<x>> # <<>> /\ Head(<<x>>) = x /\ Tail(<<x>>) = <<>>
      /\ Append(<<>>, x) = <<x>>
  BY DEF LastOf
<1> QED
  BY <1>1 DEF AckFirst, DataLast, LastOf

\* Two frames: one is read first, the other was written last.
LEMMA TwoFrames ==
  ASSUME NEW x, NEW y
  PROVE  /\ AckFirst(<<x, y>>) <=> x = Ack
         /\ DataLast(<<x, y>>) <=> y.tg = "data"
         /\ LastOf(<<x, y>>) = y /\ <<x, y>> # <<>> /\ Head(<<x, y>>) = x
         /\ Tail(<<x, y>>) = <<y>> /\ Append(<<x>>, y) = <<x, y>>
<1>1. /\ LastOf(<<x, y>>) = y /\ <<x, y>> # <<>> /\ Head(<<x, y>>) = x
  BY DEF LastOf
<1>2. Tail(<<x, y>>) = <<y>>
  OBVIOUS
<1>3. Append(<<x>>, y) = <<x, y>>
  <2> DEFINE a == Append(<<x>>, y)
             b == <<x, y>>
  <2>1. a \in Seq({x, y}) /\ Len(a) = 2 /\ a[1] = x /\ a[2] = y
    OBVIOUS
  <2>2. b \in Seq({x, y}) /\ Len(b) = 2 /\ b[1] = x /\ b[2] = y
    OBVIOUS
  <2> HIDE DEF a, b
  <2>3. a = b
    BY ONLY <2>1, <2>2, SameSeq
  <2> QED
    BY <2>3 DEF a, b
<1> QED
  BY <1>1, <1>2, <1>3 DEF AckFirst, DataLast, LastOf

-----------------------------------------------------------------------------
(* Peers, calls and wires                                                  *)

\* There are two of them, and one is the other's other.
LEMMA OtherPeer ==
  ASSUME NEW p \in Peer, NEW q, q = Other(p)
  PROVE  /\ q \in Peer /\ q # p /\ Other(q) = p /\ Peer = {p, q}
         /\ (p = Active /\ q = Passive) \/ (p = Passive /\ q = Active)
         /\ Active # Passive /\ Passive \in Peer
<1>1. PICK b \in Peer : b # Active /\ Peer = {Active, b}
  BY PartnerConstants
<1>2. Other(Active) = b /\ Other(b) = Active
  BY <1>1 DEF Other
<1> QED
  BY <1>1, <1>2 DEF Passive

\* The invariant, of p and its partner q.
LEMMA OfBoth ==
  ASSUME IInv, NEW p \in Peer, NEW q, q = Other(p)
  PROVE  PTypeOK /\ HandshakeInv /\ Shape(p) /\ Shape(q) /\ DirInv(p, q) /\ DirInv(q, p)
BY OtherPeer DEF IInv

\* And for both from the two of them.
LEMMA FromBoth ==
  ASSUME PTypeOK', HandshakeInv', NEW p \in Peer, NEW q, q = Other(p),
         Shape(p)', Shape(q)', DirInv(p, q)', DirInv(q, p)'
  PROVE  IInv'
<1>1. Peer = {p, q} /\ Other(q) = p
  BY OtherPeer
<1>2. ASSUME NEW r \in Peer PROVE Shape(r)' /\ DirInv(r, Other(r))'
  <2>1. CASE r = p
    BY <2>1
  <2>2. CASE r = q
    BY <1>1, <2>2
  <2> QED
    BY <1>1, <2>1, <2>2
<1> QED
  BY <1>2 DEF IInv

\* A call of one peer leaves the handshake alone.
LEMMA HandshakeKept ==
  ASSUME HandshakeInv, NEW p \in Peer, NEW q, q = Other(p), link[p] = "open", link' = link,
         up' => up, up' /\ link[q] = "negotiated" => wire'[q] # <<>>
  PROVE  HandshakeInv'
<1>1. (p = Active /\ q = Passive) \/ (p = Passive /\ q = Active)
  BY OtherPeer
<1> QED
  BY <1>1 DEF HandshakeInv

\* The calls that a peer is in.
LEMMA CallCases ==
  ASSUME NEW o \in Call \cup {None}
  PROVE  /\ Sending(o) => o \in [kind : {"write", "ack"}, msg : Message, off : Nat] /\ o # None
         /\ Is(o, "recv") => o \in [kind : {"recv"}, buf : Seq(Byte), first : BOOLEAN] /\ o # None
         /\ o # None => Sending(o) \/ Is(o, "recv")
         /\ ~(Sending(o) /\ Is(o, "recv")) /\ ~(Is(o, "write") /\ Is(o, "ack"))
         /\ ~Is(o, "recv") => Fresh(o)
BY DEF Call, Sending, Is, Fresh

\* No call.
LEMMA NoCall == (\A k : ~Is(None, k)) /\ ~Sending(None) /\ Fresh(None)
BY DEF Is, Sending, Fresh

\* A call starts, goes on or returns.
LEMMA CallSet ==
  ASSUME PTypeOK, NEW p \in Peer, NEW x \in Call \cup {None}, op' = [op EXCEPT ![p] = x]
  PROVE  /\ op' \in [Peer -> Call \cup {None}] /\ op'[p] = x
         /\ \A r \in Peer \ {p} : op'[r] = op[r]
BY DEF PTypeOK

\* A call that writes the slice at off, or waits for its acknowledgement.
LEMMA SendCall ==
  ASSUME NEW k \in {"write", "ack"}, NEW m \in Message, NEW off \in Nat,
         NEW x, x = [kind |-> k, msg |-> m, off |-> off]
  PROVE  /\ x \in Call /\ x # None /\ x.msg = m /\ x.off = off /\ Sending(x) /\ Fresh(x)
         /\ (Is(x, "write") <=> k = "write") /\ (Is(x, "ack") <=> k = "ack") /\ ~Is(x, "recv")
<1>1. x \in Call /\ x.msg = m /\ x.off = off /\ x.kind = k
  BY DEF Call
<1>2. x # None
  BY <1>1, PartnerConstants
<1> QED
  BY <1>1, <1>2 DEF Sending, Is, Fresh

\* A call that collects slices.
LEMMA RecvCall ==
  ASSUME NEW buf \in Seq(Byte), NEW first \in BOOLEAN,
         NEW x, x = [kind |-> "recv", buf |-> buf, first |-> first]
  PROVE  /\ x \in Call /\ x # None /\ x.buf = buf /\ x.first = first /\ ~Sending(x)
         /\ Is(x, "recv") /\ ~Is(x, "write") /\ ~Is(x, "ack")
<1>1. x \in Call /\ x.buf = buf /\ x.first = first /\ x.kind = "recv"
  BY DEF Call
<1>2. x # None
  BY <1>1, PartnerConstants
<1> QED
  BY <1>1, <1>2 DEF Sending, Is

\* Where a slice ends.
LEMMA SliceEnds ==
  ASSUME NEW m \in Message, NEW off \in Offset(m)
  PROVE  /\ m.data \in Seq(Byte) /\ Len(m.data) \in Nat /\ off \in Nat /\ off < Len(m.data)
         /\ EndOf(m, off) \in Nat /\ off < EndOf(m, off) /\ EndOf(m, off) <= Len(m.data)
         /\ ~Final(m, off) => EndOf(m, off) \in Offset(m)
<1>1. m.data \in Seq(Byte) /\ off \in Nat /\ off < Len(m.data) /\ MaxSlice \in Nat \ {0}
  BY PartnerConstants DEF Offset
<1>2. Len(m.data) \in Nat
  BY <1>1, EntryCases
<1> DEFINE n == Len(m.data)
<1> HIDE DEF n
<1>3. n \in Nat /\ off < n
  BY <1>1, <1>2 DEF n
<1>4. EndOf(m, off) = IF off + MaxSlice < n THEN off + MaxSlice ELSE n
  BY DEF EndOf, n
<1>5. EndOf(m, off) \in Nat /\ off < EndOf(m, off) /\ EndOf(m, off) <= n
  BY ONLY <1>1, <1>3, <1>4
<1> QED
  BY <1>1, <1>2, <1>5 DEF Final, Offset, n

\* The histories have lengths.
LEMMA HistoryLengths ==
  ASSUME PTypeOK, NEW p \in Peer
  PROVE  /\ Len(offered[p]) \in Nat /\ Len(delivered[p]) \in Nat /\ Len(confirmed[p]) \in Nat
         /\ \A i \in 1..Len(offered[p]) : offered[p][i] \in Message
<1>1. offered[p] \in Seq(Message) /\ delivered[p] \in Seq(Message) /\ confirmed[p] \in Seq(Message)
  BY DEF PTypeOK
<1> QED
  BY <1>1, EntryCases

\* A history that grows by one message.
LEMMA HistoryGrows ==
  ASSUME NEW f \in [Peer -> Seq(Message)], NEW p \in Peer, NEW m \in Message,
         NEW g, g = [f EXCEPT ![p] = Append(@, m)]
  PROVE  /\ g \in [Peer -> Seq(Message)] /\ Len(g[p]) = Len(f[p]) + 1 /\ g[p][Len(g[p])] = m
         /\ \A i \in 1..Len(f[p]) : g[p][i] = f[p][i]
         /\ \A r \in Peer \ {p} : g[r] = f[r]
<1>1. f[p] \in Seq(Message) /\ g[p] = Append(f[p], m) /\ \A r \in Peer \ {p} : g[r] = f[r]
  OBVIOUS
<1>2. Append(f[p], m) \in Seq(Message)
  BY <1>1
<1>3. g \in [Peer -> Seq(Message)]
  BY <1>1, <1>2
<1> DEFINE s == f[p]
<1>4. s \in Seq(Message)
  BY <1>1
<1> HIDE DEF s
<1>5. /\ Len(Append(s, m)) = Len(s) + 1 /\ Append(s, m)[Len(s) + 1] = m
      /\ \A i \in 1..Len(s) : Append(s, m)[i] = s[i]
  BY ONLY <1>4
<1>6. Append(f[p], m) = Append(s, m) /\ Len(f[p]) = Len(s) /\ \A i \in 1..Len(s) : f[p][i] = s[i]
  BY DEF s
<1> QED
  BY <1>1, <1>3, <1>5, <1>6

-----------------------------------------------------------------------------
(* bsend                                                                   *)

\* A message that is not empty starts at its first byte.
LEMMA NonEmptyStarts ==
  ASSUME NEW m \in Message, m.data # <<>>
  PROVE  0 \in Offset(m)
<1>1. m.data \in Seq(Byte)
  BY PartnerConstants
<1>2. Len(m.data) \in Nat /\ Len(m.data) # 0
  BY <1>1, EmptyCases, EntryCases
<1> QED
  BY <1>2 DEF Offset

\* The call starts when its partner has sent nothing that is not received.
LEMMA BSendStep ==
  ASSUME TakeTurns, IInv, NEW p \in Peer, NEW m \in Message, BSend(p, m), m.data # <<>>
  PROVE  IInv' /\ Transfer!Offer(p)
<1> DEFINE q == Other(p)
           x == [kind |-> "write", msg |-> m, off |-> 0]
<1>q. q = Other(p) /\ q \in Peer /\ q # p
  BY OtherPeer
<1>x. x \in Call /\ x.msg = m /\ x.off = 0 /\ Sending(x) /\ Fresh(x) /\ Is(x, "write") /\ ~Is(x, "ack")
  <2>1. "write" \in {"write", "ack"} /\ 0 \in Nat /\ "ack" # "write" /\ x = [kind |-> "write", msg |-> m, off |-> 0]
    OBVIOUS
  <2> HIDE DEF x
  <2> QED
    BY <2>1, SendCall
<1>1. /\ link[p] = "open" /\ op[p] = None /\ Len(delivered[q]) = Len(offered[q])
      /\ op' = [op EXCEPT ![p] = x] /\ offered' = [offered EXCEPT ![p] = Append(@, m)]
      /\ link' = link /\ wire' = wire /\ up' = up /\ delivered' = delivered /\ confirmed' = confirmed
  BY DEF BSend
<1> HIDE DEF q, x
<1>2. PTypeOK /\ HandshakeInv /\ Shape(p) /\ Shape(q) /\ DirInv(p, q) /\ DirInv(q, p)
  BY <1>q, OfBoth
<1>3. op' \in [Peer -> Call \cup {None}] /\ op'[p] = x /\ op'[q] = op[q]
  BY Zenon, <1>1, <1>2, <1>q, <1>x, CallSet
<1>4. ~Is(op[p], "ack") /\ ~Sending(op[p])
  BY <1>1, NoCall
<1>5. offered \in [Peer -> Seq(Message)]
  BY <1>2 DEF PTypeOK
<1>6. /\ offered' \in [Peer -> Seq(Message)] /\ Len(offered'[p]) = Len(offered[p]) + 1
      /\ offered'[p][Len(offered'[p])] = m
      /\ \A i \in 1..Len(offered[p]) : offered'[p][i] = offered[p][i]
      /\ offered'[q] = offered[q]
  BY <1>1, <1>5, <1>q, HistoryGrows
<1>7. /\ Len(offered[p]) \in Nat /\ Len(delivered[p]) \in Nat /\ Len(confirmed[p]) \in Nat
      /\ Len(offered[q]) \in Nat /\ Len(delivered[q]) \in Nat /\ Len(confirmed[q]) \in Nat
  BY <1>2, <1>q, HistoryLengths
<1>8. ~AckFirst(wire[p])
  BY <1>2, <1>4 DEF DirInv, AckInv
<1>9. ~DataLast(wire[p])
  BY <1>2, <1>1, <1>7 DEF DirInv, DataInv
<1>10. PTypeOK'
  BY <1>1, <1>2, <1>3, <1>6 DEF PTypeOK
<1>11. HandshakeInv'
  BY <1>1, <1>2 DEF HandshakeInv
<1>12. Shape(p)' /\ Shape(q)'
  BY <1>1, <1>2, <1>3 DEF Shape
<1>13. DataInv(p, q)'
  <2>1. SUFFICES ASSUME DataLast(wire'[q])
        PROVE  Len(delivered[p]) < Len(offered'[p]) /\ \E off \in Nat : SliceAt(p, q, off)'
    BY <1>1 DEF DataInv
  <2>2. PICK off \in Nat : SliceAt(p, q, off)
    BY <1>1, <1>2, <2>1 DEF DirInv, DataInv
  <2>3. Len(delivered[p]) < Len(offered[p])
    BY <1>1, <1>2, <2>1 DEF DirInv, DataInv
  <2>4. offered'[p][Len(delivered[p]) + 1] = offered[p][Len(delivered[p]) + 1]
    <3>1. Len(delivered[p]) + 1 \in 1..Len(offered[p])
      BY <1>7, <2>3
    <3> QED
      BY <1>6, <3>1
  <2>5. ~up
    BY <1>4, <2>2 DEF SliceAt
  <2>6. SliceAt(p, q, off)'
    BY Zenon, <1>1, <1>3, <2>2, <2>4, <2>5 DEF SliceAt
  <2>7. Len(delivered[p]) < Len(offered'[p])
    BY <1>6, <1>7, <2>3
  <2> QED
    BY <2>6, <2>7
<1>14. AckInv(p, q)'
  BY <1>1, <1>8 DEF AckInv
<1>15. SendInv(p, q)'
  <2>1. m \in Message /\ 0 \in Offset(m)
    BY NonEmptyStarts
  <2> QED
    BY <1>1, <1>2, <1>3, <1>x, <1>9, <2>1 DEF DirInv, SendInv
<1>16. UpInv(p, q)'
  <2>1. up => Len(offered[p]) = Len(delivered[p]) /\ Len(offered[p]) = Len(confirmed[p]) /\ Fresh(op[q])
    BY <1>2, <1>4 DEF DirInv, UpInv
  <2>2. RecvAt(op[q], m, 0) <=> Fresh(op[q])
    BY DEF RecvAt
  <2> QED
    BY <1>1, <1>3, <1>x, <1>6, <1>7, <1>8, <2>1, <2>2 DEF UpInv
<1>17. TurnInv(p, q)' /\ TurnInv(q, p)'
  <2>1. Len(delivered[p]) <= Len(offered'[p])
    BY <1>2, <1>6, <1>7 DEF DirInv, TurnInv
  <2>2. Len(delivered'[q]) = Len(offered'[q]) /\ Len(offered'[q]) \in Nat /\ delivered'[p] = delivered[p]
    BY Zenon, <1>1, <1>6, <1>7
  <2>3. TurnInv(p, q)'
    BY <2>1, <2>2 DEF TurnInv
  <2>4. TurnInv(q, p)'
    BY <2>2 DEF TurnInv
  <2> QED
    BY <2>3, <2>4
<1>18. DataInv(q, p)'
  BY <1>1, <1>9 DEF DataInv
<1>19. AckInv(q, p)'
  <2>1. AckFirst(wire[q]) => Final(op[q].msg, op[q].off)
    <3>1. AckInv(q, p) /\ Len(confirmed[q]) <= Len(delivered[q])
      BY <1>2 DEF DirInv, SendInv
    <3> QED
      BY ONLY <1>1, <1>7, <3>1 DEF AckInv
  <2>2. AckInv(q, p)
    BY <1>2 DEF DirInv
  <2> QED
    BY ONLY <1>1, <1>3, <1>6, <1>9, <2>1, <2>2 DEF AckInv
<1>20. SendInv(q, p)'
  BY <1>1, <1>2, <1>3 DEF DirInv, SendInv
<1>21. UpInv(q, p)'
  <2>1. up => ~Is(op[q], "write")
    <3>1. up /\ Is(op[q], "write") =>
            Len(delivered[q]) = Len(confirmed[q]) /\ Len(offered[q]) = Len(confirmed[q]) + 1
      BY <1>2 DEF DirInv, UpInv, Sending
    <3> QED
      BY <1>1, <1>7, <3>1
  <2>2. Is(op[q], "ack") /\ up => AckFirst(wire[q])
    BY <1>2, <1>9 DEF DirInv, UpInv
  <2> QED
    BY <1>1, <1>2, <1>3, <1>x, <1>6, <2>1, <2>2 DEF DirInv, UpInv
<1>22. IInv'
  BY <1>10, <1>11, <1>12, <1>13, <1>14, <1>15, <1>16, <1>17, <1>18, <1>19, <1>20, <1>21, <1>q,
     FromBoth DEF DirInv
<1>23. Transfer!Offer(p)
  BY Zenon, <1>1 DEF Transfer!Offer
<1> QED
  BY <1>22, <1>23

-----------------------------------------------------------------------------
(* Frames on their way                                                     *)

\* What an open partner may find: an acknowledgement, data, or both in that order.
LEMMA OpenWire ==
  ASSUME NEW w, WireShape("open", w)
  PROVE  /\ w # <<>> /\ ~AckFirst(w) => DataLast(w) /\ w = <<LastOf(w)>>
         /\ w # <<>> /\ ~DataLast(w) => AckFirst(w) /\ w = <<Ack>>
         /\ AckFirst(w) /\ DataLast(w) => w = <<Ack, LastOf(w)>>
<1> DEFINE d == LastOf(w)
<1>1. w = <<>> \/ w = <<Ack>> \/ (DataLast(w) /\ (w = <<d>> \/ w = <<Ack, d>>))
  BY DEF WireShape
<1>2. Ack.tg = "ack"
  BY DEF Ack
<1>3. DataLast(w) => d.tg = "data"
  BY DEF DataLast, LastOf
<1> HIDE DEF d
<1>4. CASE w = <<>>
  BY <1>4, NoFrame
<1>5. CASE w = <<Ack>>
  BY <1>2, <1>5, OneFrame
<1>6. CASE DataLast(w) /\ w = <<d>>
  <2>1. d # Ack
    BY <1>2, <1>3, <1>6
  <2>2. ~AckFirst(w)
    BY <1>6, <2>1, OneFrame
  <2> QED
    BY <1>6, <2>2 DEF d
<1>7. CASE DataLast(w) /\ w = <<Ack, d>>
  <2>1. AckFirst(w)
    BY Zenon, <1>7, TwoFrames
  <2> QED
    BY <1>7, <2>1 DEF d
<1> QED
  BY <1>1, <1>4, <1>5, <1>6, <1>7

\* Data that is read leaves nothing.
LEMMA DataTaken ==
  ASSUME NEW w, WireShape("open", w), w # <<>>, ~AckFirst(w)
  PROVE  /\ DataLast(w) /\ Head(w) = LastOf(w) /\ Tail(w) = <<>>
<1> DEFINE d == LastOf(w)
<1>1. DataLast(w) /\ w = <<d>>
  BY OpenWire
<1> HIDE DEF d
<1>2. Head(w) = d /\ Tail(w) = <<>>
  BY <1>1, OneFrame
<1> QED
  BY <1>1, <1>2 DEF d

\* An acknowledgement that is read leaves what follows it.
LEMMA AckTaken ==
  ASSUME NEW w, WireShape("open", w), AckFirst(w)
  PROVE  /\ WireShape("open", Tail(w)) /\ ~AckFirst(Tail(w))
         /\ DataLast(Tail(w)) <=> DataLast(w)
         /\ DataLast(w) => LastOf(Tail(w)) = LastOf(w)
<1> DEFINE d == LastOf(w)
<1>1. w # <<>> /\ (~DataLast(w) => w = <<Ack>>) /\ (DataLast(w) => w = <<Ack, d>> /\ d.tg = "data")
  BY OpenWire, NoFrame DEF DataLast, LastOf
<1>2. Ack.tg = "ack"
  BY DEF Ack
<1> HIDE DEF d
<1>3. CASE ~DataLast(w)
  <2>1. Tail(w) = <<>>
    BY Zenon, <1>1, <1>3, OneFrame
  <2> QED
    BY Zenon, <1>3, <2>1, NoFrame DEF WireShape
<1>4. CASE DataLast(w)
  <2>0. Tail(<<Ack, d>>) = <<d>>
    BY TwoFrames
  <2>1. Tail(w) = <<d>> /\ d # Ack
    BY Zenon, <1>1, <1>2, <1>4, <2>0
  <2>2. LastOf(<<d>>) = d /\ DataLast(<<d>>) /\ ~AckFirst(<<d>>)
    BY <1>1, <1>4, <2>1, OneFrame
  <2>3. WireShape("open", <<d>>)
    BY <2>2 DEF WireShape
  <2>4. WireShape("open", Tail(w)) /\ ~AckFirst(Tail(w)) /\ DataLast(Tail(w)) /\ LastOf(Tail(w)) = d
    BY Zenon, <2>1, <2>2, <2>3
  <2> QED
    BY <1>4, <2>4 DEF d
<1> QED
  BY <1>3, <1>4

\* Data that is written comes last.
LEMMA DataPut ==
  ASSUME NEW l, NEW w, WireShape(l, w), l = "open" \/ (l = "negotiated" /\ w # <<>>), ~DataLast(w),
         NEW d, d.tg = "data"
  PROVE  /\ WireShape(l, Append(w, d)) /\ DataLast(Append(w, d)) /\ LastOf(Append(w, d)) = d
         /\ Append(w, d) # <<>> /\ (AckFirst(Append(w, d)) <=> AckFirst(w))
<1>1. Ack.tg = "ack" /\ Ack # d
  BY DEF Ack
<1>2. CASE l = "open" /\ w = <<>>
  <2>1. Append(w, d) = <<d>> /\ DataLast(<<d>>) /\ LastOf(<<d>>) = d /\ <<d>> # <<>> /\ ~AckFirst(<<d>>)
    BY <1>1, <1>2, OneFrame
  <2>2. WireShape("open", <<d>>)
    BY <2>1 DEF WireShape
  <2> QED
    BY <1>2, <2>1, <2>2, NoFrame
<1>3. CASE l = "open" /\ w = <<Ack>>
  <2>1. /\ Append(w, d) = <<Ack, d>> /\ DataLast(<<Ack, d>>) /\ LastOf(<<Ack, d>>) = d
        /\ <<Ack, d>> # <<>> /\ AckFirst(<<Ack, d>>) /\ AckFirst(<<Ack>>)
    BY Zenon, <1>3, OneFrame, TwoFrames
  <2>2. WireShape("open", <<Ack, d>>)
    BY <2>1 DEF WireShape
  <2> QED
    BY Zenon, <1>3, <2>1, <2>2
<1>4. CASE l = "negotiated" /\ w = <<Negotiated>>
  <2>1. Negotiated # Ack
    BY DEF Negotiated, Ack
  <2>2. /\ Append(<<Negotiated>>, d) = <<Negotiated, d>> /\ DataLast(<<Negotiated, d>>)
        /\ LastOf(<<Negotiated, d>>) = d /\ <<Negotiated, d>> # <<>>
        /\ ~AckFirst(<<Negotiated, d>>)
    BY Zenon, <2>1, TwoFrames
  <2>3. ~AckFirst(<<Negotiated>>)
    BY <2>1, OneFrame
  <2>4. /\ Append(w, d) = <<Negotiated, d>> /\ DataLast(<<Negotiated, d>>) /\ LastOf(<<Negotiated, d>>) = d
        /\ <<Negotiated, d>> # <<>> /\ ~AckFirst(<<Negotiated, d>>) /\ ~AckFirst(<<Negotiated>>)
    BY <1>4, <2>2, <2>3
  <2>5. WireShape("negotiated", <<Negotiated, d>>)
    BY <2>4 DEF WireShape
  <2> QED
    BY Zenon, <1>4, <2>4, <2>5
<1>5. l = "open" => w = <<>> \/ w = <<Ack>>
  BY OpenWire
<1>6. l = "negotiated" => w = <<Negotiated>>
  BY DEF WireShape
<1> QED
  BY <1>2, <1>3, <1>4, <1>5, <1>6

-----------------------------------------------------------------------------
(* Slices                                                                  *)

\* While the connection works, the partner of an open one reads data now or
\* when it has read the end of the handshake.
LEMMA PartnerOfOpen ==
  ASSUME IInv, NEW p \in Peer, NEW q, q = Other(p), link[p] = "open", up
  PROVE  link[q] = "open" \/ (link[q] = "negotiated" /\ wire[q] # <<>>)
<1>1. (p = Active /\ q = Passive) \/ (p = Passive /\ q = Active)
  BY OtherPeer
<1>2. HandshakeInv
  BY DEF IInv
<1> QED
  BY <1>1, <1>2 DEF HandshakeInv

\* A peer in a call has done its handshake.
LEMMA InCallOpen ==
  ASSUME IInv, NEW p \in Peer, op[p] # None
  PROVE  link[p] = "open" /\ WireShape("open", wire[p])
BY DEF IInv, Shape

\* Who writes while the connection works is alone in that.
LEMMA WriterAlone ==
  ASSUME IInv, NEW p \in Peer, NEW q, q = Other(p), up, Is(op[p], "write")
  PROVE  /\ ~DataLast(wire[q]) /\ ~DataLast(wire[p]) /\ ~Is(op[q], "write")
         /\ Is(op[q], "ack") => AckFirst(wire[q])
         /\ AckFirst(wire[q]) => Final(op[q].msg, op[q].off)
         /\ Len(offered[p]) = Len(delivered[p]) + 1 /\ Len(delivered[p]) = Len(confirmed[p])
         /\ op[p].msg = offered[p][Len(offered[p])] /\ RecvAt(op[q], op[p].msg, op[p].off)
<1>1. q \in Peer /\ PTypeOK /\ DirInv(p, q) /\ DirInv(q, p)
  BY OtherPeer, OfBoth
<1>2. /\ Len(offered[p]) \in Nat /\ Len(delivered[p]) \in Nat /\ Len(confirmed[p]) \in Nat
      /\ Len(offered[q]) \in Nat /\ Len(delivered[q]) \in Nat /\ Len(confirmed[q]) \in Nat
  BY <1>1, HistoryLengths
<1>3. op[p] \in Call \cup {None}
  BY <1>1 DEF PTypeOK
<1>4. Sending(op[p]) /\ ~Is(op[p], "ack")
  BY <1>3, CallCases DEF Sending
<1>5. /\ Len(offered[p]) = Len(confirmed[p]) + 1 /\ Len(delivered[p]) = Len(confirmed[p])
      /\ op[p].msg = offered[p][Len(offered[p])] /\ RecvAt(op[q], op[p].msg, op[p].off)
  BY <1>1, <1>4 DEF DirInv, UpInv
<1>6. ~DataLast(wire[q])
  BY <1>1, <1>4 DEF DirInv, DataInv, SliceAt
<1>7. ~AckFirst(wire[p])
  BY <1>1, <1>4 DEF DirInv, AckInv
<1>8. ~DataLast(wire[p])
  BY <1>1, <1>4, <1>7 DEF DirInv, SendInv
<1>9. Len(delivered[q]) = Len(offered[q])
  BY <1>1, <1>2, <1>5 DEF DirInv, TurnInv
<1>10. ~Is(op[q], "write")
  <2>1. Is(op[q], "write") =>
          Len(delivered[q]) = Len(confirmed[q]) /\ Len(offered[q]) = Len(confirmed[q]) + 1
    BY <1>1 DEF DirInv, UpInv, Sending
  <2> QED
    BY <1>2, <1>9, <2>1
<1>11. Is(op[q], "ack") => AckFirst(wire[q])
  BY <1>1, <1>8 DEF DirInv, UpInv
<1>12. AckFirst(wire[q]) => Final(op[q].msg, op[q].off)
  BY <1>1, <1>2, <1>9 DEF DirInv, AckInv
<1> QED
  BY <1>5, <1>6, <1>8, <1>10, <1>11, <1>12

\* A slice is written and its acknowledgement waited for.
LEMMA WriteFrameStep ==
  ASSUME IInv, NEW p \in Peer, WriteFrame(p)
  PROVE  IInv'
<1> DEFINE q == Other(p)
           m == op[p].msg
           off == op[p].off
           x == [kind |-> "ack", msg |-> m, off |-> off]
           d == Frame(m, off)
<1>q. q = Other(p) /\ q \in Peer /\ q # p
  BY OtherPeer
<1>1. /\ Is(op[p], "write") /\ op' = [op EXCEPT ![p].kind = "ack"]
      /\ (up => wire' = [wire EXCEPT ![q] = Append(@, d)]) /\ (~up => wire' = wire)
      /\ link' = link /\ up' = up /\ offered' = offered /\ delivered' = delivered /\ confirmed' = confirmed
  BY DEF WriteFrame, In, Is, Put
<1>2. PTypeOK /\ HandshakeInv /\ Shape(p) /\ Shape(q) /\ DirInv(p, q) /\ DirInv(q, p)
  BY <1>q, OfBoth
<1>3. op \in [Peer -> Call \cup {None}] /\ op[p] \in Call \cup {None}
  BY <1>2 DEF PTypeOK
<1>4. /\ Sending(op[p]) /\ ~Is(op[p], "ack") /\ op[p] # None
      /\ op[p] \in [kind : {"write", "ack"}, msg : Message, off : Nat]
  BY <1>1, <1>3, CallCases DEF Sending
<1>5. m \in Message /\ off \in Nat /\ [op[p] EXCEPT !.kind = "ack"] = x
  BY <1>4
<1>6. op' = [op EXCEPT ![p] = x]
  BY Zenon, <1>1, <1>3, <1>5
<1>x. x \in Call /\ x.msg = m /\ x.off = off /\ Sending(x) /\ Fresh(x) /\ Is(x, "ack") /\ ~Is(x, "write")
  <2>1. "ack" \in {"write", "ack"} /\ "ack" # "write" /\ x = [kind |-> "ack", msg |-> m, off |-> off]
    OBVIOUS
  <2> HIDE DEF x, m, off
  <2> QED
    BY <1>5, <2>1, SendCall
<1>d. d.tg = "data"
  BY DEF Frame
<1>m. op[p].msg = m /\ op[p].off = off /\ d = Frame(m, off)
  OBVIOUS
<1> HIDE DEF q, x, m, off, d
<1>7. op' \in [Peer -> Call \cup {None}] /\ op'[p] = x /\ op'[q] = op[q]
  BY Zenon, <1>2, <1>6, <1>q, <1>x, CallSet
<1>8. ~AckFirst(wire[p])
  BY <1>2, <1>4 DEF DirInv, AckInv
<1>9. ~DataLast(wire[p])
  BY <1>2, <1>4, <1>8 DEF DirInv, SendInv
<1>10. link[p] = "open"
  BY <1>4, InCallOpen

<1>11. /\ wire' = [r \in Peer |-> wire'[r]] /\ wire'[p] = wire[p] /\ (~up => wire'[q] = wire[q])
       /\ up => wire'[q] = Append(wire[q], d)
  <2>1. wire = [r \in Peer |-> wire[r]]
    BY <1>2 DEF PTypeOK
  <2>2. CASE up
    BY <1>1, <1>q, <2>1, <2>2
  <2>3. CASE ~up
    BY <1>1, <2>1, <2>3
  <2> QED
    BY <2>2, <2>3
<1>12. up => /\ ~DataLast(wire[q]) /\ ~Is(op[q], "write") /\ (Is(op[q], "ack") => AckFirst(wire[q]))
             /\ (AckFirst(wire[q]) => Final(op[q].msg, op[q].off))
             /\ Len(offered[p]) = Len(delivered[p]) + 1 /\ Len(delivered[p]) = Len(confirmed[p])
             /\ m = offered[p][Len(offered[p])] /\ RecvAt(op[q], m, off)
  BY <1>1, <1>q, <1>m, WriterAlone
<1>13. up => link[q] = "open" \/ (link[q] = "negotiated" /\ wire[q] # <<>>)
  BY <1>q, <1>10, PartnerOfOpen
<1>14. WireShape(link[q], wire[q])
  BY <1>2 DEF Shape
<1>15. up => /\ WireShape(link[q], wire'[q]) /\ DataLast(wire'[q]) /\ LastOf(wire'[q]) = d
             /\ wire'[q] # <<>> /\ (AckFirst(wire'[q]) <=> AckFirst(wire[q]))
  <2> SUFFICES ASSUME up
               PROVE  /\ WireShape(link[q], wire'[q]) /\ DataLast(wire'[q]) /\ LastOf(wire'[q]) = d
                      /\ wire'[q] # <<>> /\ (AckFirst(wire'[q]) <=> AckFirst(wire[q]))
    OBVIOUS
  <2> DEFINE l == link[q]
             w == wire[q]
  <2>1. WireShape(l, w) /\ (l = "open" \/ (l = "negotiated" /\ w # <<>>)) /\ ~DataLast(w)
    BY <1>12, <1>13, <1>14
  <2>2. wire'[q] = Append(w, d)
    BY <1>11
  <2> HIDE DEF l, w
  <2>3. /\ WireShape(l, Append(w, d)) /\ DataLast(Append(w, d)) /\ LastOf(Append(w, d)) = d
        /\ Append(w, d) # <<>> /\ (AckFirst(Append(w, d)) <=> AckFirst(w))
    BY ONLY <1>d, <2>1, DataPut
  <2> QED
    BY <2>2, <2>3 DEF l, w
<1>16. PTypeOK'
  BY <1>1, <1>2, <1>7, <1>11 DEF PTypeOK
<1>17. HandshakeInv'
  BY <1>1, <1>2, <1>q, <1>10, <1>15, HandshakeKept
<1>18. Shape(p)' /\ Shape(q)'
  <2>1. Shape(p)'
    BY <1>1, <1>2, <1>10, <1>11 DEF Shape
  <2>2. WireShape(link[q], wire'[q])
    BY <1>11, <1>14, <1>15
  <2> QED
    BY <1>1, <1>2, <1>7, <2>1, <2>2 DEF Shape
<1>19. /\ Len(offered[p]) \in Nat /\ Len(delivered[p]) \in Nat /\ Len(confirmed[p]) \in Nat
  BY <1>2, HistoryLengths
<1>20. off \in Offset(m)
  BY <1>2, <1>4, <1>m DEF DirInv, SendInv
<1>21. DataInv(p, q)'
  <2>1. CASE up
    <3>1. offered[p][Len(delivered[p]) + 1] = m
      BY <1>12, <2>1
    <3>2. PICK n \in Nat : n = off
      BY <1>5
    <3>3. offered'[p][Len(delivered'[p]) + 1] = m /\ RecvAt(op'[q], m, n)
      BY <1>1, <1>7, <1>12, <2>1, <3>1, <3>2
    <3>4. LastOf(wire'[q]) = Frame(m, n) /\ n \in Offset(m)
      BY <1>15, <1>20, <1>m, <2>1, <3>2
    <3>5. Is(op'[p], "ack") /\ op'[p].msg = m /\ op'[p].off = n /\ ~AckFirst(wire'[p])
      BY <1>7, <1>8, <1>11, <1>x, <3>2
    <3>6. SliceAt(p, q, n)'
      BY <3>3, <3>4, <3>5 DEF SliceAt
    <3>7. Len(delivered'[p]) < Len(offered'[p])
      BY <1>1, <1>12, <1>19, <2>1
    <3> QED
      BY <3>6, <3>7 DEF DataInv
  <2>2. CASE ~up
    <3>1. ASSUME NEW n \in Nat, SliceAt(p, q, n) PROVE SliceAt(p, q, n)'
      BY <1>1, <1>7, <1>11, <2>2, <3>1 DEF SliceAt
    <3> QED
      BY <1>1, <1>2, <1>11, <2>2, <3>1 DEF DirInv, DataInv
  <2> QED
    BY <2>1, <2>2
<1>22. AckInv(p, q)'
  BY <1>8, <1>11 DEF AckInv
<1>23. SendInv(p, q)'
  BY Zenon, <1>1, <1>2, <1>5, <1>7, <1>9, <1>11, <1>20, <1>x DEF DirInv, SendInv
<1>24. UpInv(p, q)'
  BY Zenon, <1>1, <1>7, <1>8, <1>11, <1>12, <1>15, <1>x DEF UpInv
<1>25. TurnInv(p, q)' /\ TurnInv(q, p)'
  BY <1>1, <1>2 DEF DirInv, TurnInv
<1>26. DataInv(q, p)'
  BY <1>9, <1>11 DEF DataInv
<1>27. AckInv(q, p)'
  <2>1. AckFirst(wire'[q]) <=> AckFirst(wire[q])
    BY <1>11, <1>15
  <2>2. up /\ AckFirst(wire[q]) => Final(op[q].msg, op[q].off)
    BY <1>12
  <2> QED
    BY <1>1, <1>2, <1>7, <1>9, <1>11, <2>1, <2>2 DEF DirInv, AckInv
<1>28. SendInv(q, p)'
  <2>1. CASE up
    BY <1>1, <1>2, <1>7, <1>12, <1>15, <2>1 DEF DirInv, SendInv, Sending
  <2>2. CASE ~up
    BY <1>1, <1>2, <1>7, <1>11, <2>2 DEF DirInv, SendInv
  <2> QED
    BY <2>1, <2>2
<1>29. UpInv(q, p)'
  BY <1>1, <1>2, <1>7, <1>12, <1>15, <1>x DEF DirInv, UpInv
<1> QED
  BY <1>16, <1>17, <1>18, <1>21, <1>22, <1>23, <1>24, <1>25, <1>26, <1>27, <1>28, <1>29, <1>q,
     FromBoth DEF DirInv

\* Who does not collect waits for a first slice at most.
LEMMA WaitsForFirst ==
  ASSUME NEW o, ~Is(o, "recv"), NEW x, Fresh(x)
  PROVE  \A m, off : RecvAt(o, m, off) => RecvAt(x, m, off)
BY DEF RecvAt

\* What a bsend that waits reads first is the acknowledgement of its slice.
LEMMA AckIsNext ==
  ASSUME IInv, NEW p \in Peer, NEW q, q = Other(p), Is(op[p], "ack"), wire[p] # <<>>
  PROVE  /\ AckFirst(wire[p]) /\ ~DataLast(wire[q])
         /\ Len(confirmed[p]) < Len(offered[p]) /\ op[p].msg = offered[p][Len(confirmed[p]) + 1]
         /\ Final(op[p].msg, op[p].off) =>
              /\ Len(confirmed[p]) < Len(delivered[p])
              /\ up => Len(delivered[p]) = Len(offered[p]) /\ Fresh(op[q])
         /\ ~Final(op[p].msg, op[p].off) =>
              /\ ~DataLast(wire[p]) /\ Len(confirmed[p]) = Len(delivered[p])
              /\ up => RecvAt(op[q], op[p].msg, EndOf(op[p].msg, op[p].off))
<1>1. q \in Peer /\ PTypeOK /\ DirInv(p, q) /\ DirInv(q, p)
  BY OtherPeer, OfBoth
<1>2. /\ Len(offered[p]) \in Nat /\ Len(delivered[p]) \in Nat /\ Len(confirmed[p]) \in Nat
      /\ Len(offered[q]) \in Nat /\ Len(delivered[q]) \in Nat
  BY <1>1, HistoryLengths
<1>3. WireShape("open", wire[p])
  BY InCallOpen DEF Is
<1>4. AckFirst(wire[p])
  <2>1. SUFFICES ASSUME ~AckFirst(wire[p]) PROVE FALSE
    OBVIOUS
  <2>2. DataLast(wire[p])
    BY <1>3, <2>1, DataTaken
  <2> QED
    BY <1>1, <2>1, <2>2 DEF DirInv, SendInv, Sending
<1>5. AckInv(p, q) /\ UpInv(p, q) /\ TurnInv(p, q) /\ DataInv(q, p)
  BY <1>1 DEF DirInv
<1>6. ~Final(op[p].msg, op[p].off) => ~DataLast(wire[p])
  BY <1>2, <1>4, <1>5 DEF AckInv, TurnInv, DataInv
<1> QED
  BY <1>4, <1>5, <1>6 DEF AckInv, UpInv

\* The rest of the invariant, for a bsend that reads its acknowledgement and then
\* returns or goes on to the next slice.
LEMMA AckReadKeeps ==
  ASSUME IInv, NEW p \in Peer, NEW q, q = Other(p), Is(op[p], "ack"), wire[p] # <<>>,
         Take(p), link' = link, up' = up, offered' = offered, delivered' = delivered,
         NEW x \in Call \cup {None}, op' = [op EXCEPT ![p] = x], Fresh(x), ~Is(x, "ack"),
         confirmed' \in [Peer -> Seq(Message)], confirmed'[q] = confirmed[q],
         SendInv(p, q)', UpInv(p, q)'
  PROVE  IInv'
<1>q. q \in Peer /\ q # p
  BY OtherPeer
<1>1. PTypeOK /\ HandshakeInv /\ Shape(p) /\ Shape(q) /\ DirInv(p, q) /\ DirInv(q, p)
  BY OfBoth
<1>2. op' \in [Peer -> Call \cup {None}] /\ op'[p] = x /\ op'[q] = op[q]
  BY Zenon, <1>1, <1>q, CallSet
<1>3. wire' = [r \in Peer |-> wire'[r]] /\ wire'[p] = Tail(wire[p]) /\ wire'[q] = wire[q]
  <2>1. wire = [r \in Peer |-> wire[r]]
    BY <1>1 DEF PTypeOK
  <2> QED
    BY Zenon, <1>q, <2>1 DEF Take
<1>4. AckFirst(wire[p]) /\ ~DataLast(wire[q])
  BY AckIsNext
<1>5. link[p] = "open" /\ WireShape("open", wire[p])
  BY InCallOpen DEF Is
<1>6. /\ WireShape("open", wire'[p]) /\ ~AckFirst(wire'[p]) /\ (DataLast(wire'[p]) <=> DataLast(wire[p]))
      /\ DataLast(wire[p]) => LastOf(wire'[p]) = LastOf(wire[p])
  BY <1>3, <1>4, <1>5, AckTaken
<1>7. op[p] \in Call \cup {None}
  BY <1>1 DEF PTypeOK
<1>8. ~Is(op[p], "recv")
  BY <1>7, CallCases DEF Sending
<1>9. \A m, off : RecvAt(op[p], m, off) => RecvAt(op'[p], m, off)
  BY <1>2, <1>8, WaitsForFirst
<1>10. PTypeOK'
  BY <1>1, <1>2, <1>3 DEF PTypeOK
<1>11. HandshakeInv'
  <2>1. up /\ link[q] = "negotiated" => wire'[q] # <<>>
    BY <1>3, <1>5, PartnerOfOpen
  <2> QED
    BY <1>1, <1>5, <2>1, HandshakeKept
<1>12. Shape(p)' /\ Shape(q)'
  BY <1>1, <1>2, <1>3, <1>5, <1>6 DEF Shape
<1>13. DataInv(p, q)' /\ AckInv(p, q)'
  BY <1>3, <1>4, <1>6 DEF DataInv, AckInv
<1>14. TurnInv(p, q)' /\ TurnInv(q, p)'
  BY <1>1 DEF DirInv, TurnInv
<1>15. DataInv(q, p)'
  <2>1. ASSUME NEW n \in Nat, SliceAt(q, p, n), DataLast(wire[p]) PROVE SliceAt(q, p, n)'
    BY <1>2, <1>3, <1>6, <1>9, <2>1 DEF SliceAt
  <2> QED
    BY Zenon, <1>1, <1>6, <2>1 DEF DirInv, DataInv
<1>16. AckInv(q, p)'
  BY <1>1, <1>2, <1>3, <1>6, <1>9 DEF DirInv, AckInv
<1>17. SendInv(q, p)'
  BY <1>1, <1>2, <1>3 DEF DirInv, SendInv
<1>18. UpInv(q, p)'
  BY <1>1, <1>2, <1>3, <1>6, <1>9 DEF DirInv, UpInv
<1> QED
  BY <1>10, <1>11, <1>12, <1>13, <1>14, <1>15, <1>16, <1>17, <1>18, FromBoth DEF DirInv

\* The acknowledgement of the last slice ends the call, for a message that has arrived.
LEMMA ReadLastAckStep ==
  ASSUME IInv, NEW p \in Peer, ReadAck(p), Final(op[p].msg, op[p].off)
  PROVE  IInv' /\ Transfer!Confirm(p)
<1> DEFINE q == Other(p)
<1>q. q = Other(p) /\ q \in Peer /\ q # p
  BY OtherPeer
<1> HIDE DEF q
<1>1. /\ Is(op[p], "ack") /\ wire[p] # <<>> /\ Take(p)
      /\ link' = link /\ up' = up /\ offered' = offered /\ delivered' = delivered
  BY DEF ReadAck, In, Is
<1>2. Return(p) /\ confirmed' = [confirmed EXCEPT ![p] = Append(@, op[p].msg)]
  BY DEF ReadAck, Final
<1>3. PTypeOK /\ DirInv(p, q)
  BY <1>q, OfBoth
<1>4. op[p] \in Call \cup {None} /\ confirmed \in [Peer -> Seq(Message)]
  BY <1>3 DEF PTypeOK
<1>5. op[p].msg \in Message /\ Sending(op[p])
  BY <1>1, <1>4, CallCases DEF Sending
<1>6. op' = [op EXCEPT ![p] = None] /\ None \in Call \cup {None}
  BY <1>2 DEF Return
<1>7. op'[p] = None /\ op'[q] = op[q]
  BY Zenon, <1>3, <1>6, <1>q, CallSet
<1>8. /\ confirmed' \in [Peer -> Seq(Message)] /\ Len(confirmed'[p]) = Len(confirmed[p]) + 1
      /\ confirmed'[q] = confirmed[q]
  BY ONLY <1>2, <1>4, <1>5, <1>q, p \in Peer, HistoryGrows
<1>9. /\ Len(confirmed[p]) < Len(delivered[p]) /\ op[p].msg = offered[p][Len(confirmed[p]) + 1]
      /\ up => Len(delivered[p]) = Len(offered[p]) /\ Fresh(op[q])
  BY <1>1, <1>q, AckIsNext
<1>10. Is(None, "ack") = FALSE /\ Is(None, "write") = FALSE /\ ~Sending(None) /\ Fresh(None)
  BY NoCall
<1>11. SendInv(p, q)'
  <2>1. Len(confirmed'[p]) <= Len(delivered'[p])
    BY <1>1, <1>3, <1>8, <1>9, HistoryLengths
  <2> QED
    BY <1>7, <1>10, <2>1 DEF SendInv
<1>12. UpInv(p, q)'
  <2>1. up => Len(offered[p]) = Len(confirmed[p]) + 1
    BY Zenon, <1>3, <1>5 DEF DirInv, UpInv
  <2>2. ~AckFirst(wire'[p])
    <3>1. wire'[p] = Tail(wire[p])
      BY <1>1, <1>3 DEF Take, PTypeOK
    <3>2. WireShape("open", wire[p]) /\ AckFirst(wire[p])
      BY Zenon, <1>1, <1>q, InCallOpen, AckIsNext DEF Is
    <3> QED
      BY <3>1, <3>2, AckTaken
  <2> QED
    BY Zenon, <1>1, <1>7, <1>8, <1>9, <1>10, <2>1, <2>2 DEF UpInv
<1>13. IInv'
  BY Zenon, <1>1, <1>6, <1>8, <1>10, <1>11, <1>12, <1>q, AckReadKeeps
<1>14. confirmed' = [confirmed EXCEPT ![p] = Append(@, offered[p][Len(@) + 1])]
  BY <1>2, <1>9
<1>15. Transfer!Confirm(p)
  BY <1>1, <1>9, <1>14 DEF Transfer!Confirm
<1> QED
  BY <1>13, <1>15

\* The call goes on at e.
LEMMA NextSlice ==
  ASSUME NEW o \in [kind : {"write", "ack"}, msg : Message, off : Nat], NEW e
  PROVE  [o EXCEPT !.kind = "write", !.off = e] = [kind |-> "write", msg |-> o.msg, off |-> e]
<1> DEFINE n == [o EXCEPT !.kind = "write", !.off = e]
<1>1. n = [i \in {"kind", "msg", "off"} |-> n[i]]
  BY Zenon
<1>2. n.kind = "write"
  OBVIOUS
<1>3. n.off = e /\ n.msg = o.msg
  OBVIOUS
<1> HIDE DEF n
<1>4. n = [kind |-> "write", msg |-> o.msg, off |-> e]
  BY <1>1, <1>2, <1>3
<1> QED
  BY <1>4 DEF n

\* The acknowledgement of any other makes the call go on with the next one.
LEMMA ReadNextAckStep ==
  ASSUME IInv, NEW p \in Peer, ReadAck(p), ~Final(op[p].msg, op[p].off)
  PROVE  IInv' /\ UNCHANGED <<offered, delivered, confirmed>>
<1> DEFINE q == Other(p)
           m == op[p].msg
           off == op[p].off
           e == EndOf(m, off)
           x == [kind |-> "write", msg |-> m, off |-> e]
<1>q. q = Other(p) /\ q \in Peer /\ q # p
  BY OtherPeer
<1>1. /\ Is(op[p], "ack") /\ wire[p] # <<>> /\ Take(p)
      /\ link' = link /\ up' = up /\ offered' = offered /\ delivered' = delivered
  BY DEF ReadAck, In, Is
<1>2. /\ op' = [op EXCEPT ![p] = [op[p] EXCEPT !.kind = "write", !.off = e]]
      /\ confirmed' = confirmed
  BY DEF ReadAck, Final
<1>3. PTypeOK /\ DirInv(p, q)
  BY <1>q, OfBoth
<1>4. op[p] \in Call \cup {None} /\ confirmed \in [Peer -> Seq(Message)]
  BY <1>3 DEF PTypeOK
<1>5. op[p] \in [kind : {"write", "ack"}, msg : Message, off : Nat] /\ Sending(op[p])
  BY <1>1, <1>4, CallCases DEF Sending
<1>6. m \in Message /\ [op[p] EXCEPT !.kind = "write", !.off = e] = x
  <2> DEFINE o == op[p]
  <2>1. o \in [kind : {"write", "ack"}, msg : Message, off : Nat] /\ m = o.msg
    BY <1>5
  <2> HIDE DEF o, m, e
  <2>2. [o EXCEPT !.kind = "write", !.off = e] = [kind |-> "write", msg |-> m, off |-> e]
    BY ONLY Zenon, <2>1, NextSlice
  <2> QED
    BY <2>1, <2>2 DEF o
<1>7. off \in Offset(m)
  BY <1>3, <1>5 DEF DirInv, SendInv
<1>8. e \in Nat /\ e \in Offset(m)
  BY <1>6, <1>7, SliceEnds
<1>x. x \in Call /\ x.msg = m /\ x.off = e /\ Sending(x) /\ Fresh(x) /\ Is(x, "write") /\ ~Is(x, "ack")
  <2>1. "write" \in {"write", "ack"} /\ "ack" # "write" /\ x = [kind |-> "write", msg |-> m, off |-> e]
    OBVIOUS
  <2> HIDE DEF x, m, e
  <2> QED
    BY <1>6, <1>8, <2>1, SendCall
<1>9. /\ AckFirst(wire[p]) /\ ~DataLast(wire[p]) /\ Len(confirmed[p]) = Len(delivered[p])
      /\ up => RecvAt(op[q], m, e)
  BY Zenon, <1>1, <1>q, AckIsNext
<1>10. up => Len(offered[p]) = Len(confirmed[p]) + 1 /\ m = offered[p][Len(offered[p])]
  BY Zenon, <1>3, <1>5 DEF DirInv, UpInv
<1>11. op' = [op EXCEPT ![p] = x]
  BY Zenon, <1>2, <1>6
<1> HIDE DEF q, x, m, e
<1>12. op'[p] = x /\ op'[q] = op[q]
  BY Zenon, <1>3, <1>11, <1>q, <1>x, CallSet
<1>13. ~AckFirst(wire'[p]) /\ ~DataLast(wire'[p])
  <2>1. wire'[p] = Tail(wire[p])
    BY <1>1, <1>3 DEF Take, PTypeOK
  <2>2. WireShape("open", wire[p])
    BY <1>1, InCallOpen DEF Is
  <2> QED
    BY <1>9, <2>1, <2>2, AckTaken
<1>14. SendInv(p, q)'
  BY Zenon, <1>1, <1>2, <1>3, <1>6, <1>8, <1>12, <1>13, <1>x DEF DirInv, SendInv
<1>15. UpInv(p, q)'
  BY Zenon, <1>1, <1>2, <1>9, <1>10, <1>12, <1>13, <1>x DEF UpInv
<1>16. confirmed' \in [Peer -> Seq(Message)] /\ confirmed'[q] = confirmed[q]
  BY <1>2, <1>4
<1>17. IInv'
  BY Zenon, <1>1, <1>11, <1>x, <1>14, <1>15, <1>16, <1>q, AckReadKeeps
<1> QED
  BY <1>1, <1>2, <1>17

-----------------------------------------------------------------------------
(* brecv                                                                   *)

\* The call starts with nothing collected.
LEMMA BRecvStep ==
  ASSUME IInv, NEW q \in Peer, BRecv(q)
  PROVE  IInv' /\ UNCHANGED <<offered, delivered, confirmed>>
<1> DEFINE p == Other(q)
           x == [kind |-> "recv", buf |-> <<>>, first |-> TRUE]
<1>q. p = Other(q) /\ p \in Peer /\ q # p
  BY OtherPeer
<1>x. x \in Call /\ Fresh(x) /\ ~Sending(x) /\ ~Is(x, "ack") /\ ~Is(x, "write")
  <2>1. <<>> \in Seq(Byte) /\ TRUE \in BOOLEAN /\ x = [kind |-> "recv", buf |-> <<>>, first |-> TRUE]
    OBVIOUS
  <2> HIDE DEF x
  <2>2. x \in Call /\ x.buf = <<>> /\ x.first = TRUE /\ ~Sending(x) /\ ~Is(x, "ack") /\ ~Is(x, "write")
    BY Zenon, <2>1, RecvCall
  <2> QED
    BY <2>2 DEF Fresh
<1>1. /\ link[q] = "open" /\ op[q] = None /\ op' = [op EXCEPT ![q] = x]
      /\ link' = link /\ wire' = wire /\ up' = up
      /\ offered' = offered /\ delivered' = delivered /\ confirmed' = confirmed
  BY DEF BRecv
<1> HIDE DEF p, x
<1>2. PTypeOK /\ HandshakeInv /\ Shape(p) /\ Shape(q) /\ DirInv(p, q) /\ DirInv(q, p)
  BY <1>q, OfBoth, OtherPeer
<1>3. op' \in [Peer -> Call \cup {None}] /\ op'[q] = x /\ op'[p] = op[p]
  BY Zenon, <1>1, <1>2, <1>q, <1>x, CallSet
<1>4. ~Is(op[q], "recv") /\ ~Is(op[q], "ack") /\ ~Is(op[q], "write") /\ ~Sending(op[q])
  BY <1>1, NoCall
<1>5. \A m, off : RecvAt(op[q], m, off) => RecvAt(op'[q], m, off)
  BY <1>3, <1>4, <1>x, WaitsForFirst
<1>6. PTypeOK' /\ HandshakeInv'
  BY <1>1, <1>2, <1>3 DEF PTypeOK, HandshakeInv
<1>7. Shape(p)' /\ Shape(q)'
  BY Zenon, <1>1, <1>2, <1>3 DEF Shape
<1>8. DataInv(p, q)'
  <2>1. ASSUME NEW n \in Nat, SliceAt(p, q, n) PROVE SliceAt(p, q, n)'
    BY Zenon, <1>1, <1>3, <1>5, <2>1 DEF SliceAt
  <2> QED
    BY Zenon, <1>1, <1>2, <2>1 DEF DirInv, DataInv
<1>9. AckInv(p, q)'
  BY Zenon, <1>1, <1>2, <1>3, <1>5 DEF DirInv, AckInv
<1>10. UpInv(p, q)'
  BY Zenon, <1>1, <1>2, <1>3, <1>5, <1>x DEF DirInv, UpInv
<1>11. SendInv(p, q)' /\ TurnInv(p, q)' /\ TurnInv(q, p)'
  BY Zenon, <1>1, <1>2, <1>3 DEF DirInv, SendInv, TurnInv
<1>12. DataInv(q, p)'
  <2>1. ASSUME NEW n \in Nat, SliceAt(q, p, n) PROVE SliceAt(q, p, n)'
    BY <1>1, <1>3, <1>4, <2>1 DEF SliceAt
  <2> QED
    BY Zenon, <1>1, <1>2, <2>1 DEF DirInv, DataInv
<1>13. AckInv(q, p)'
  BY Zenon, <1>1, <1>2, <1>4 DEF DirInv, AckInv
<1>14. SendInv(q, p)'
  BY Zenon, <1>1, <1>2, <1>3, <1>x DEF DirInv, SendInv
<1>15. UpInv(q, p)'
  <2>1. ~AckFirst(wire[q])
    BY Zenon, <1>2, <1>4 DEF DirInv, AckInv
  <2> QED
    BY Zenon, <1>1, <1>2, <1>3, <1>4, <1>x, <2>1 DEF DirInv, UpInv
<1>16. IInv'
  BY <1>6, <1>7, <1>8, <1>9, <1>10, <1>11, <1>12, <1>13, <1>14, <1>15, <1>q, FromBoth DEF DirInv
<1> QED
  BY <1>1, <1>16

\* What a brecv has collected with the frame f.
Joined(o, f) == o.buf \o (IF o.first THEN SubSeq(f.raw, 3, Len(f.raw)) ELSE f.raw)

\* A brecv that waits for the slice at off gets it and what came before.
LEMMA CollectSlice ==
  ASSUME NEW o \in Call \cup {None}, Is(o, "recv"), NEW m \in Message, NEW off \in Offset(m),
         RecvAt(o, m, off), NEW f, f = Frame(m, off), NEW e, e = EndOf(m, off)
  PROVE  /\ f.tg = "data" /\ f.rid = m.rid /\ (f.eos = 0 <=> Final(m, off))
         /\ o.first => Len(f.raw) >= 2
         /\ Joined(o, f) = SubSeq(m.data, 1, e)
<1> DEFINE d == m.data
           s == SubSeq(d, off + 1, e)
<1>1. d \in Seq(Byte) /\ off \in Nat /\ e \in Nat /\ off < e /\ e <= Len(d)
  BY SliceEnds
<1>2. /\ f.tg = "data" /\ f.rid = m.rid /\ (f.eos = 0 <=> Final(m, off))
      /\ f.raw = (IF off = 0 THEN LengthBytes ELSE <<>>) \o s
  <2>1. f.tg = "data" /\ f.rid = m.rid
    BY DEF Frame
  <2>2. f.eos = IF EndOf(m, off) = Len(m.data) THEN 0 ELSE 1
    BY DEF Frame
  <2>3. f.raw = (IF off = 0 THEN LengthBytes ELSE <<>>) \o Slice(m, off)
    BY DEF Frame
  <2>4. Slice(m, off) = s
    BY DEF Slice
  <2> QED
    BY <2>1, <2>2, <2>3, <2>4 DEF Final
<1>3. s \in Seq(Byte)
  BY <1>1, PartOf
<1>4. SubSeq(d, 1, off) \o s = SubSeq(d, 1, e)
  <2>1. off <= e
    BY <1>1
  <2> HIDE DEF d
  <2> QED
    BY <1>1, <2>1, JoinParts
<1>5. CASE off = 0
  <2>1. o.first /\ o.buf = <<>>
    BY <1>5 DEF RecvAt, Fresh
  <2> DEFINE x == LengthBytes[1]
             y == LengthBytes[2]
  <2>2. f.raw = <<x, y>> \o s
    BY Zenon, <1>2, <1>5, PartnerConstants
  <2> HIDE DEF x, y, s, d
  <2>3. Len(<<x, y>> \o s) >= 2 /\ SubSeq(<<x, y>> \o s, 3, Len(<<x, y>> \o s)) = s
    BY ONLY <1>3, StripTwo
  <2>4. Len(f.raw) >= 2 /\ SubSeq(f.raw, 3, Len(f.raw)) = s
    BY <2>2, <2>3
  <2>5. SubSeq(d, 1, off) = <<>>
    <3>1. d \in Seq(Byte)
      BY <1>1
    <3> QED
      BY ONLY <3>1, <1>5
  <2>6. o.buf \o s = SubSeq(d, 1, e)
    BY Zenon, <1>4, <2>1, <2>5
  <2> QED
    BY Zenon, <1>2, <2>1, <2>4, <2>6 DEF d, Joined
<1>6. CASE off # 0
  <2>1. ~o.first /\ o.buf = SubSeq(d, 1, off)
    BY <1>6 DEF RecvAt
  <2>2. f.raw = <<>> \o s
    BY Zenon, <1>2, <1>6
  <2> HIDE DEF s, d
  <2>3. <<>> \o s = s
    BY ONLY <1>3
  <2> QED
    BY Zenon, <1>2, <1>4, <2>1, <2>2, <2>3 DEF d, Joined
<1> QED
  BY Zenon, <1>5, <1>6

\* The data that is on its way is the slice that the brecv waits for, and its
\* acknowledgement will be all that is on its way back.
LEMMA DataIsNext ==
  ASSUME IInv, NEW q \in Peer, NEW p, p = Other(q), Is(op[q], "recv"), wire[q] # <<>>
  PROVE  /\ ~AckFirst(wire[q]) /\ DataLast(wire[q]) /\ Head(wire[q]) = LastOf(wire[q])
         /\ Tail(wire[q]) = <<>>
         /\ Len(delivered[p]) < Len(offered[p]) /\ \E off \in Nat : SliceAt(p, q, off)
         /\ ~AckFirst(wire[p]) /\ ~DataLast(wire[p]) /\ Len(delivered[q]) = Len(offered[q])
         /\ up => wire[p] = <<>> /\ link[p] = "open"
<1>1. p \in Peer /\ PTypeOK /\ DirInv(p, q) /\ DirInv(q, p)
  BY OtherPeer, OfBoth
<1>2. op[q] \in Call \cup {None}
  BY <1>1 DEF PTypeOK
<1>3. ~Is(op[q], "ack")
  BY <1>2, CallCases DEF Sending
<1>4. ~AckFirst(wire[q])
  BY Zenon, <1>1, <1>3 DEF DirInv, AckInv
<1>5. WireShape("open", wire[q])
  BY InCallOpen DEF Is
<1>6. DataLast(wire[q]) /\ Head(wire[q]) = LastOf(wire[q]) /\ Tail(wire[q]) = <<>>
  BY <1>4, <1>5, DataTaken
<1>7. Len(delivered[p]) < Len(offered[p]) /\ \E off \in Nat : SliceAt(p, q, off)
  BY <1>1, <1>6 DEF DirInv, DataInv
<1>8. ~AckFirst(wire[p])
  BY Zenon, <1>1, <1>6 DEF DirInv, AckInv
<1>9. Len(delivered[q]) = Len(offered[q])
  BY <1>1, <1>7 DEF DirInv, TurnInv
<1>10. ~DataLast(wire[p])
  <2>1. Len(delivered[q]) \in Nat
    BY <1>1, HistoryLengths
  <2> QED
    BY <1>1, <1>9, <2>1 DEF DirInv, DataInv
<1>11. up => wire[p] = <<>> /\ link[p] = "open"
  <2>1. up => Is(op[p], "ack")
    BY <1>7 DEF SliceAt
  <2>2. op[p] # None => link[p] = "open" /\ WireShape("open", wire[p])
    BY <1>1, InCallOpen
  <2> QED
    BY <1>8, <1>10, <2>1, <2>2, OpenWire DEF Is
<1> QED
  BY <1>4, <1>6, <1>7, <1>8, <1>9, <1>10, <1>11

\* A frame is read and answered, if the connection works.
LEMMA ReadAndAnswered ==
  ASSUME PTypeOK, NEW q \in Peer, NEW p, p = Other(q), NEW f, TakeAndPut(q, f)
  PROVE  /\ wire' = [r \in Peer |-> wire'[r]] /\ wire'[q] = Tail(wire[q])
         /\ up => wire'[p] = Append(wire[p], f)
         /\ ~up => wire'[p] = wire[p]
<1>1. p \in Peer /\ p # q
  BY OtherPeer
<1>2. wire = [r \in Peer |-> wire[r]]
  BY DEF PTypeOK
<1>3. CASE up
  BY Zenon, <1>1, <1>2, <1>3 DEF TakeAndPut
<1>4. CASE ~up
  BY Zenon, <1>1, <1>2, <1>4 DEF TakeAndPut
<1> QED
  BY <1>3, <1>4

\* A slice that is collected leaves an acknowledgement and nothing else on its way.
LEMMA OnlyAck ==
  ASSUME IInv, NEW q \in Peer, NEW p, p = Other(q), Is(op[q], "recv"), wire[q] # <<>>,
         TakeAndPut(q, Ack)
  PROVE  /\ wire' = [r \in Peer |-> wire'[r]] /\ wire'[q] = <<>>
         /\ up => wire'[p] = <<Ack>> /\ AckFirst(wire'[p])
         /\ ~up => wire'[p] = wire[p] /\ ~AckFirst(wire'[p])
         /\ ~DataLast(wire'[p]) /\ ~DataLast(wire'[q]) /\ ~AckFirst(wire'[q])
<1>1. PTypeOK
  BY DEF IInv
<1>2. /\ wire' = [r \in Peer |-> wire'[r]] /\ wire'[q] = Tail(wire[q])
      /\ up => wire'[p] = Append(wire[p], Ack)
      /\ ~up => wire'[p] = wire[p]
  BY ONLY <1>1, q \in Peer, p = Other(q), TakeAndPut(q, Ack), ReadAndAnswered
<1>3. Tail(wire[q]) = <<>> /\ ~AckFirst(wire[p]) /\ ~DataLast(wire[p]) /\ (up => wire[p] = <<>>)
  BY DataIsNext
<1>4. Append(<<>>, Ack) = <<Ack>> /\ AckFirst(<<Ack>>) /\ ~DataLast(<<Ack>>)
  <2>1. Ack.tg # "data"
    BY DEF Ack
  <2> QED
    BY <2>1, OneFrame
<1>5. wire'[q] = <<>> /\ ~DataLast(wire'[q]) /\ ~AckFirst(wire'[q])
  BY Zenon, <1>2, <1>3, NoFrame
<1>6. CASE up
  <2>1. wire'[p] = <<Ack>>
    BY <1>2, <1>3, <1>4, <1>6
  <2> QED
    BY <1>2, <1>4, <1>5, <1>6, <2>1
<1>7. CASE ~up
  BY <1>2, <1>3, <1>5, <1>7
<1> QED
  BY <1>6, <1>7

\* The rest of the invariant, for a brecv that has collected a slice.
LEMMA FrameReadKeeps ==
  ASSUME IInv, NEW q \in Peer, NEW p, p = Other(q), Is(op[q], "recv"), wire[q] # <<>>,
         TakeAndPut(q, Ack),
         link' = link, up' = up, offered' = offered, confirmed' = confirmed,
         NEW x \in Call \cup {None}, op' = [op EXCEPT ![q] = x], ~Sending(x),
         delivered' \in [Peer -> Seq(Message)], delivered'[q] = delivered[q],
         Len(delivered[p]) <= Len(delivered'[p]), Len(delivered'[p]) <= Len(offered[p]),
         AckInv(p, q)', UpInv(p, q)'
  PROVE  IInv'
<1>q. p \in Peer /\ q # p /\ q = Other(p)
  BY OtherPeer
<1>1. PTypeOK /\ HandshakeInv /\ Shape(p) /\ Shape(q) /\ DirInv(p, q) /\ DirInv(q, p)
  BY OfBoth
<1>2. op' \in [Peer -> Call \cup {None}] /\ op'[q] = x /\ op'[p] = op[p]
  BY Zenon, <1>1, <1>q, CallSet
<1>3. /\ wire' = [r \in Peer |-> wire'[r]] /\ wire'[q] = <<>>
      /\ up => wire'[p] = <<Ack>> /\ AckFirst(wire'[p])
      /\ ~up => wire'[p] = wire[p] /\ ~AckFirst(wire'[p])
      /\ ~DataLast(wire'[p]) /\ ~DataLast(wire'[q]) /\ ~AckFirst(wire'[q])
  BY OnlyAck
<1>4. link[q] = "open"
  BY InCallOpen DEF Is
<1>5. /\ Len(delivered[q]) = Len(offered[q]) /\ Len(delivered[p]) < Len(offered[p])
      /\ up => link[p] = "open"
  BY DataIsNext
<1>6. /\ Len(offered[p]) \in Nat /\ Len(delivered[p]) \in Nat /\ Len(confirmed[p]) \in Nat
      /\ Len(offered[q]) \in Nat /\ Len(delivered[q]) \in Nat
  BY <1>1, <1>q, HistoryLengths
<1>7. Len(delivered'[p]) \in Nat
  <2>1. delivered'[p] \in Seq(Message)
    BY <1>q
  <2> QED
    BY <2>1, EntryCases
<1>8. PTypeOK'
  BY <1>1, <1>2, <1>3 DEF PTypeOK
<1>9. HandshakeInv'
  BY <1>1, <1>4, <1>5, HandshakeKept
<1>10. Shape(p)' /\ Shape(q)'
  <2>1. WireShape("open", <<>>) /\ WireShape("open", <<Ack>>)
    BY DEF WireShape
  <2>2. Shape(q)'
    BY <1>3, <1>4, <2>1 DEF Shape
  <2>3. WireShape(link[p], wire'[p])
    BY Zenon, <1>1, <1>3, <1>5, <2>1 DEF Shape
  <2> QED
    BY Zenon, <1>1, <1>2, <2>2, <2>3 DEF Shape
<1>11. DataInv(p, q)' /\ DataInv(q, p)' /\ AckInv(q, p)'
  BY <1>3 DEF DataInv, AckInv
<1>12. SendInv(p, q)'
  <2>1. SendInv(p, q)
    BY Zenon, <1>1 DEF DirInv
  <2>2. Len(confirmed[p]) <= Len(delivered[p])
    BY ONLY <2>1 DEF SendInv
  <2>3. Len(confirmed[p]) <= Len(delivered'[p])
    BY ONLY <1>6, <1>7, <2>2, Len(delivered[p]) <= Len(delivered'[p])
  <2> QED
    BY ONLY <1>2, <1>3, <2>1, <2>3, confirmed' = confirmed DEF SendInv
<1>13. SendInv(q, p)'
  BY <1>1, <1>2, <1>3 DEF DirInv, SendInv
<1>14. UpInv(q, p)'
  <2>1. ~Is(x, "ack") /\ ~Is(x, "write")
    BY DEF Sending
  <2>2. op[q] \in Call \cup {None}
    BY <1>1 DEF PTypeOK
  <2>3. ~Sending(op[q])
    BY Zenon, <2>2, CallCases
  <2>4. up => Len(offered[q]) = Len(delivered[q]) /\ Len(offered[q]) = Len(confirmed[q]) /\ Fresh(op[p])
    BY Zenon, <1>1, <2>3 DEF DirInv, UpInv
  <2> QED
    BY <1>2, <1>3, <2>1, <2>4 DEF UpInv
<1>15. TurnInv(p, q)' /\ TurnInv(q, p)'
  <2>1. Len(delivered'[q]) = Len(offered'[q])
    BY <1>5
  <2>2. TurnInv(p, q)'
    BY <2>1 DEF TurnInv
  <2>3. TurnInv(q, p)'
    BY <1>6, <2>1 DEF TurnInv
  <2> QED
    BY Zenon, <2>2, <2>3
<1> QED
  BY Zenon, <1>8, <1>9, <1>10, <1>11, <1>12, <1>13, <1>14, <1>15, <1>q, FromBoth DEF DirInv

\* What a brecv does with a last slice and with any other.
Delivers(p, m) == delivered' = [delivered EXCEPT ![p] = Append(@, m)]
Keeps(q, b) ==
  op' = [op EXCEPT ![q] = [op[q] EXCEPT !.buf = b, !.first = FALSE]] /\ delivered' = delivered

\* A brecv accepts the frame it reads: it is the slice at off of m.
LEMMA Collects ==
  ASSUME IInv, NEW q \in Peer, NEW p, p = Other(q), ReadFrame(q), NEW off \in Nat, SliceAt(p, q, off),
         NEW m, m = offered[p][Len(delivered[p]) + 1], NEW e, e = EndOf(m, off)
  PROVE  /\ TakeAndPut(q, Ack) /\ m \in Message /\ off \in Offset(m)
         /\ link' = link /\ up' = up /\ offered' = offered /\ confirmed' = confirmed
         /\ Final(m, off) => Return(q) /\ Delivers(p, m)
         /\ ~Final(m, off) => Keeps(q, SubSeq(m.data, 1, e))
<1> DEFINE f == Head(wire[q])
           data == op[q].buf \o Payload(q, f)
<1>1. Is(op[q], "recv") /\ wire[q] # <<>>
  BY Zenon DEF ReadFrame, In, Is
<1>2. p \in Peer /\ PTypeOK
  BY OtherPeer DEF IInv
<1>3. op[q] \in Call \cup {None}
  BY <1>2 DEF PTypeOK
<1>4. m \in Message
  <2>1. Len(delivered[p]) < Len(offered[p])
    BY Zenon, <1>1, DataIsNext
  <2>2. Len(delivered[p]) \in Nat /\ Len(offered[p]) \in Nat
    BY <1>2, HistoryLengths
  <2>3. Len(delivered[p]) + 1 \in 1..Len(offered[p])
    BY <2>1, <2>2
  <2> QED
    BY <1>2, <2>3, HistoryLengths
<1>5. off \in Offset(m) /\ f = Frame(m, off) /\ RecvAt(op[q], m, off)
  BY Zenon, <1>1, DataIsNext DEF SliceAt
<1>6. link' = link /\ up' = up /\ offered' = offered /\ confirmed' = confirmed
  BY Zenon DEF ReadFrame
<1>7. IF Acceptable(q, f) THEN Collect(q, f, data) ELSE Take(q) /\ Return(q) /\ UNCHANGED delivered
  BY DEF ReadFrame
<1> HIDE DEF f
<1> DEFINE o == op[q]
<1>8. /\ o \in Call \cup {None} /\ Is(o, "recv") /\ RecvAt(o, m, off)
      /\ m \in Message /\ off \in Offset(m) /\ f = Frame(m, off) /\ e = EndOf(m, off)
  BY <1>1, <1>3, <1>4, <1>5
<1> HIDE DEF o
<1>9. /\ f.tg = "data" /\ f.rid = m.rid /\ (f.eos = 0 <=> Final(m, off))
      /\ o.first => Len(f.raw) >= 2
      /\ Joined(o, f) = SubSeq(m.data, 1, e)
  <2>1. o \in Call \cup {None} /\ Is(o, "recv") /\ m \in Message /\ off \in Offset(m) /\ RecvAt(o, m, off)
    BY ONLY <1>8
  <2>2. f = Frame(m, off) /\ e = EndOf(m, off)
    BY ONLY <1>8
  <2> QED
    BY ONLY <2>1, <2>2, CollectSlice
<1>10. Acceptable(q, f)
  BY Zenon, <1>9 DEF Acceptable, o
<1>11. data = SubSeq(m.data, 1, e)
  BY Zenon, <1>9 DEF Payload, Joined, o
<1> HIDE DEF data
<1>12. Collect(q, f, data)
  BY Zenon, <1>7, <1>10
<1>13. TakeAndPut(q, Ack)
  BY <1>12 DEF Collect, TakeAndPut
<1>14. CASE Final(m, off)
  <2>1. [rid |-> f.rid, data |-> data] = m
    <3>1. m.data \in Seq(Byte) /\ m = [rid |-> m.rid, data |-> m.data]
      BY <1>4, PartnerConstants
    <3>2. SubSeq(m.data, 1, e) = m.data
      BY <1>14, <3>1, AllOf DEF Final
    <3> QED
      BY Zenon, <1>9, <1>11, <3>1, <3>2
  <2>2. Return(q) /\ delivered' = [delivered EXCEPT ![p] = Append(@, [rid |-> f.rid, data |-> data])]
    BY <1>9, <1>12, <1>14 DEF Collect
  <2> QED
    BY Zenon, <1>4, <1>5, <1>6, <1>13, <1>14, <2>1, <2>2 DEF Delivers
<1>15. CASE ~Final(m, off)
  <2>1. op' = [op EXCEPT ![q] = [op[q] EXCEPT !.buf = data, !.first = FALSE]] /\ delivered' = delivered
    BY <1>9, <1>12, <1>15 DEF Collect
  <2> QED
    BY <1>4, <1>5, <1>6, <1>11, <1>13, <1>15, <2>1 DEF Keeps
<1> QED
  BY Zenon, <1>14, <1>15

\* The call that has collected a slice.
LEMMA CollectedCall ==
  ASSUME NEW o \in [kind : {"recv"}, buf : Seq(Byte), first : BOOLEAN], NEW b
  PROVE  [o EXCEPT !.buf = b, !.first = FALSE] = [kind |-> "recv", buf |-> b, first |-> FALSE]
<1> DEFINE n == [o EXCEPT !.buf = b, !.first = FALSE]
<1>1. n = [i \in {"kind", "buf", "first"} |-> n[i]]
  BY Zenon
<1>2. n.buf = b
  OBVIOUS
<1>3. n.first = FALSE /\ n.kind = "recv"
  OBVIOUS
<1> HIDE DEF n
<1>4. n = [kind |-> "recv", buf |-> b, first |-> FALSE]
  BY Zenon, <1>1, <1>2, <1>3
<1> QED
  BY <1>4 DEF n

\* The message of which a slice arrives is the one being sent.
SenderWaits(p, m, off) ==
  /\ Is(op[p], "ack") /\ Sending(op[p]) /\ ~Is(op[p], "write") /\ op[p].msg = m /\ op[p].off = off
  /\ Len(confirmed[p]) = Len(delivered[p]) /\ Len(offered[p]) = Len(delivered[p]) + 1

\* While the connection works, the slice that arrives is of the message being sent.
LEMMA ArrivesForSender ==
  ASSUME IInv, NEW q \in Peer, NEW p, p = Other(q), NEW off \in Nat, SliceAt(p, q, off),
         Len(delivered[p]) < Len(offered[p]), NEW m, m = offered[p][Len(delivered[p]) + 1]
  PROVE  up => SenderWaits(p, m, off)
<1> SUFFICES ASSUME up PROVE SenderWaits(p, m, off)
  OBVIOUS
<1>1. p \in Peer /\ PTypeOK /\ DirInv(p, q)
  BY OtherPeer, OfBoth
<1>2. Len(offered[p]) \in Nat /\ Len(delivered[p]) \in Nat /\ Len(confirmed[p]) \in Nat
  BY <1>1, HistoryLengths
<1>3. Is(op[p], "ack") /\ op[p].msg = m /\ op[p].off = off
  BY DEF SliceAt
<1>4. op[p] \in Call \cup {None}
  BY <1>1 DEF PTypeOK
<1>5. Sending(op[p]) /\ ~Is(op[p], "write")
  BY <1>3, <1>4, CallCases DEF Sending
<1>6. Len(offered[p]) = Len(confirmed[p]) + 1 /\ Len(confirmed[p]) <= Len(delivered[p])
  BY Zenon, <1>1, <1>5 DEF DirInv, UpInv, SendInv
<1>7. Len(confirmed[p]) = Len(delivered[p]) /\ Len(offered[p]) = Len(delivered[p]) + 1
  BY ONLY <1>2, <1>6, Len(delivered[p]) < Len(offered[p])
<1> QED
  BY <1>3, <1>5, <1>7 DEF SenderWaits

\* The last slice ends the call, and the message has arrived whole.
LEMMA ReadLastFrameStep ==
  ASSUME IInv, NEW q \in Peer, NEW p, p = Other(q), ReadFrame(q), NEW off \in Nat, SliceAt(p, q, off),
         NEW m, m = offered[p][Len(delivered[p]) + 1], Final(m, off)
  PROVE  IInv' /\ Transfer!Deliver(p)
<1>q. p \in Peer /\ p # q
  BY Zenon, OtherPeer
<1>1. Is(op[q], "recv") /\ wire[q] # <<>>
  BY Zenon DEF ReadFrame, In, Is
<1>2. Len(delivered[p]) < Len(offered[p])
  BY Zenon, <1>1, DataIsNext
<1>3. PICK e : e = EndOf(m, off)
  OBVIOUS
<1>4. /\ TakeAndPut(q, Ack) /\ m \in Message
      /\ link' = link /\ up' = up /\ offered' = offered /\ confirmed' = confirmed
      /\ Return(q) /\ delivered' = [delivered EXCEPT ![p] = Append(@, m)]
  <2>1. /\ TakeAndPut(q, Ack) /\ m \in Message
        /\ link' = link /\ up' = up /\ offered' = offered /\ confirmed' = confirmed
        /\ Return(q) /\ Delivers(p, m)
    BY Zenon, <1>3, Collects
  <2> QED
    BY Zenon, <2>1 DEF Delivers
<1>5. PTypeOK
  BY Zenon DEF IInv
<1>6. op' = [op EXCEPT ![q] = None] /\ None \in Call \cup {None} /\ ~Sending(None) /\ Fresh(None)
  BY Zenon, <1>4, NoCall DEF Return
<1>7. op'[q] = None /\ op'[p] = op[p]
  BY Zenon, <1>5, <1>6, <1>q, CallSet
<1>8. delivered \in [Peer -> Seq(Message)]
  BY <1>5 DEF PTypeOK
<1>9. /\ delivered' \in [Peer -> Seq(Message)] /\ Len(delivered'[p]) = Len(delivered[p]) + 1
      /\ delivered'[q] = delivered[q]
  BY ONLY <1>4, <1>8, <1>q, q \in Peer, HistoryGrows
<1>10. Len(offered[p]) \in Nat /\ Len(delivered[p]) \in Nat /\ Len(confirmed[p]) \in Nat
  BY <1>5, <1>q, HistoryLengths
<1>11. /\ up => AckFirst(wire'[p])
       /\ ~up => ~AckFirst(wire'[p])
       /\ ~DataLast(wire'[q])
  BY <1>1, <1>4, OnlyAck
<1>12. up => /\ Is(op[p], "ack") /\ Sending(op[p]) /\ ~Is(op[p], "write") /\ op[p].msg = m /\ op[p].off = off
             /\ Len(confirmed[p]) = Len(delivered[p]) /\ Len(offered[p]) = Len(delivered[p]) + 1
  <2>1. up => SenderWaits(p, m, off)
    BY Zenon, <1>2, ArrivesForSender
  <2> QED
    BY Zenon, <2>1 DEF SenderWaits
<1>13. AckInv(p, q)'
  <2>1. SUFFICES ASSUME up PROVE AckInv(p, q)'
    BY Zenon, <1>11 DEF AckInv
  <2>2. Len(confirmed'[p]) < Len(offered'[p]) /\ Len(confirmed'[p]) < Len(delivered'[p])
    <3>1. PICK a, d : a = Len(confirmed[p]) /\ d = Len(delivered[p])
      BY Zenon
    <3>2. /\ Len(confirmed'[p]) = a /\ Len(offered'[p]) = d + 1 /\ Len(delivered'[p]) = d + 1
          /\ a = d /\ d \in Nat
      BY Zenon, <1>4, <1>9, <1>10, <1>12, <2>1, <3>1
    <3> QED
      BY ONLY <3>2
  <2>3. op'[p].msg = offered'[p][Len(confirmed'[p]) + 1] /\ Final(op'[p].msg, op'[p].off)
    BY Zenon, <1>4, <1>7, <1>12, <2>1
  <2> QED
    BY Zenon, <1>7, <1>11, <1>12, <2>1, <2>2, <2>3 DEF AckInv
<1>14. UpInv(p, q)'
  <2>1. SUFFICES ASSUME up PROVE UpInv(p, q)'
    BY Zenon, <1>4 DEF UpInv
  <2>2. Len(offered'[p]) = Len(confirmed'[p]) + 1 /\ Len(delivered'[p]) = Len(offered'[p])
    BY Zenon, <1>4, <1>9, <1>12, <2>1
  <2>3. op'[p].msg = offered'[p][Len(offered'[p])]
    BY Zenon, <1>4, <1>7, <1>12, <2>1
  <2> QED
    BY Zenon, <1>6, <1>7, <1>11, <1>12, <2>1, <2>2, <2>3 DEF UpInv
<1>15. Len(delivered[p]) <= Len(delivered'[p]) /\ Len(delivered'[p]) <= Len(offered[p])
  BY <1>2, <1>9, <1>10
<1>16. IInv'
  BY Zenon, <1>1, <1>4, <1>6, <1>9, <1>13, <1>14, <1>15, FrameReadKeeps
<1>17. delivered' = [delivered EXCEPT ![p] = Append(@, offered[p][Len(@) + 1])]
  BY <1>4
<1>18. Transfer!Deliver(p)
  BY <1>2, <1>4, <1>17 DEF Transfer!Deliver
<1> QED
  BY Zenon, <1>16, <1>18

\* Any other slice is collected.
LEMMA ReadNextFrameStep ==
  ASSUME IInv, NEW q \in Peer, NEW p, p = Other(q), ReadFrame(q), NEW off \in Nat, SliceAt(p, q, off),
         NEW m, m = offered[p][Len(delivered[p]) + 1], ~Final(m, off)
  PROVE  IInv' /\ UNCHANGED <<offered, delivered, confirmed>>
<1>q. p \in Peer /\ p # q
  BY OtherPeer
<1>1. Is(op[q], "recv") /\ wire[q] # <<>>
  BY DEF ReadFrame, In, Is
<1>2. Len(delivered[p]) < Len(offered[p])
  BY <1>1, DataIsNext
<1>3. PICK e : e = EndOf(m, off)
  OBVIOUS
<1>4. /\ TakeAndPut(q, Ack) /\ m \in Message /\ off \in Offset(m)
      /\ link' = link /\ up' = up /\ offered' = offered /\ confirmed' = confirmed
      /\ op' = [op EXCEPT ![q] = [op[q] EXCEPT !.buf = SubSeq(m.data, 1, e), !.first = FALSE]]
      /\ delivered' = delivered
  <2>1. /\ TakeAndPut(q, Ack) /\ m \in Message /\ off \in Offset(m)
        /\ link' = link /\ up' = up /\ offered' = offered /\ confirmed' = confirmed
        /\ Keeps(q, SubSeq(m.data, 1, e))
    BY Zenon, <1>3, Collects
  <2> QED
    BY <2>1 DEF Keeps
<1>5. PTypeOK
  BY DEF IInv
<1>6. op[q] \in Call \cup {None} /\ delivered \in [Peer -> Seq(Message)]
  BY <1>5 DEF PTypeOK
<1>7. op[q] \in [kind : {"recv"}, buf : Seq(Byte), first : BOOLEAN]
  BY <1>1, <1>6, CallCases
<1> DEFINE b == SubSeq(m.data, 1, e)
           x == [kind |-> "recv", buf |-> b, first |-> FALSE]
<1>8. b \in Seq(Byte) /\ e \in Nat /\ e # 0
  <2>1. m.data \in Seq(Byte) /\ e \in Nat /\ off < e /\ off \in Nat /\ e <= Len(m.data)
    BY <1>3, <1>4, SliceEnds
  <2> QED
    BY <2>1, FirstOf
<1>b. b = SubSeq(m.data, 1, e) /\ x = [kind |-> "recv", buf |-> b, first |-> FALSE] /\ FALSE \in BOOLEAN
  OBVIOUS
<1>9. op' = [op EXCEPT ![q] = x]
  <2> DEFINE o == op[q]
  <2>1. o \in [kind : {"recv"}, buf : Seq(Byte), first : BOOLEAN]
    BY <1>7
  <2> HIDE DEF o, b
  <2>2. [o EXCEPT !.buf = b, !.first = FALSE] = [kind |-> "recv", buf |-> b, first |-> FALSE]
    BY ONLY Zenon, <2>1, CollectedCall
  <2> QED
    BY Zenon, <1>4, <2>2 DEF o, b
<1> HIDE DEF b, x
<1>10. x \in Call /\ x.buf = b /\ x.first = FALSE /\ ~Sending(x) /\ Is(x, "recv")
  BY Zenon, <1>8, <1>b, RecvCall
<1>11. op'[q] = x /\ op'[p] = op[p]
  BY Zenon, <1>5, <1>9, <1>10, <1>q, CallSet
<1>12. RecvAt(op'[q], m, e)
  BY Zenon, <1>8, <1>10, <1>11, <1>b DEF RecvAt

<1>13. Len(offered[p]) \in Nat /\ Len(delivered[p]) \in Nat /\ Len(confirmed[p]) \in Nat
  BY <1>5, <1>q, HistoryLengths
<1>14. /\ up => AckFirst(wire'[p])
       /\ ~up => ~AckFirst(wire'[p])
       /\ ~DataLast(wire'[q])
  BY <1>1, <1>4, OnlyAck
<1>15. up => /\ Is(op[p], "ack") /\ Sending(op[p]) /\ ~Is(op[p], "write") /\ op[p].msg = m /\ op[p].off = off
             /\ Len(confirmed[p]) = Len(delivered[p]) /\ Len(offered[p]) = Len(delivered[p]) + 1
  <2>1. up => SenderWaits(p, m, off)
    BY Zenon, <1>2, ArrivesForSender
  <2> QED
    BY Zenon, <2>1 DEF SenderWaits
<1>16. AckInv(p, q)'
  <2>1. SUFFICES ASSUME up PROVE AckInv(p, q)'
    BY Zenon, <1>14 DEF AckInv
  <2>2. Len(confirmed'[p]) < Len(offered'[p]) /\ Len(confirmed'[p]) = Len(delivered'[p])
    BY <1>4, <1>13, <1>15, <2>1
  <2>3. op'[p].msg = offered'[p][Len(confirmed'[p]) + 1] /\ ~Final(op'[p].msg, op'[p].off)
    BY <1>4, <1>11, <1>15, <2>1
  <2>4. RecvAt(op'[q], op'[p].msg, EndOf(op'[p].msg, op'[p].off))
    BY Zenon, <1>3, <1>11, <1>12, <1>15, <2>1
  <2> QED
    BY Zenon, <1>11, <1>14, <1>15, <2>1, <2>2, <2>3, <2>4 DEF AckInv
<1>17. UpInv(p, q)'
  <2>1. SUFFICES ASSUME up PROVE UpInv(p, q)'
    BY <1>4 DEF UpInv
  <2>2. Len(offered'[p]) = Len(confirmed'[p]) + 1
    BY <1>4, <1>15, <2>1
  <2>3. op'[p].msg = offered'[p][Len(offered'[p])] /\ ~Final(op'[p].msg, op'[p].off)
    BY <1>4, <1>11, <1>15, <2>1
  <2> QED
    BY Zenon, <1>11, <1>14, <1>15, <2>1, <2>2, <2>3 DEF UpInv
<1>18. /\ delivered' \in [Peer -> Seq(Message)] /\ delivered'[q] = delivered[q]
       /\ Len(delivered[p]) <= Len(delivered'[p]) /\ Len(delivered'[p]) <= Len(offered[p])
  BY <1>2, <1>4, <1>6, <1>13
<1>19. IInv'
  BY Zenon, <1>1, <1>4, <1>9, <1>10, <1>16, <1>17, <1>18, FrameReadKeeps
<1> QED
  BY <1>4, <1>19

\* A brecv that reads a frame.
LEMMA ReadFrameStep ==
  ASSUME IInv, NEW q \in Peer, ReadFrame(q)
  PROVE  IInv' /\ (Transfer!Deliver(Other(q)) \/ UNCHANGED <<offered, delivered, confirmed>>)
<1>1. Is(op[q], "recv") /\ wire[q] # <<>>
  BY DEF ReadFrame, In, Is
<1>2. PICK p : p = Other(q)
  OBVIOUS
<1>3. PICK off \in Nat : SliceAt(p, q, off)
  BY <1>1, <1>2, DataIsNext
<1>4. PICK m : m = offered[p][Len(delivered[p]) + 1]
  OBVIOUS
<1>5. CASE Final(m, off)
  BY <1>2, <1>3, <1>4, <1>5, ReadLastFrameStep
<1>6. CASE ~Final(m, off)
  BY <1>2, <1>3, <1>4, <1>6, ReadNextFrameStep
<1> QED
  BY <1>5, <1>6

-----------------------------------------------------------------------------
(* The connection breaks                                                   *)

\* What is on its way stays, and nothing more is promised of it.
LEMMA BreakStep ==
  ASSUME IInv, Break
  PROVE  IInv'
<1>1. /\ ~up' /\ up' = FALSE /\ link' = link /\ op' = op /\ wire' = wire
      /\ offered' = offered /\ delivered' = delivered /\ confirmed' = confirmed
  BY DEF Break
<1>2. PTypeOK' /\ HandshakeInv'
  BY Zenon, <1>1 DEF IInv, PTypeOK, HandshakeInv
<1>3. ASSUME NEW p \in Peer PROVE Shape(p)' /\ DirInv(p, Other(p))'
  <2> DEFINE q == Other(p)
  <2>1. Shape(p) /\ DirInv(p, q)
    BY DEF IInv
  <2> HIDE DEF q
  <2>2. Shape(p)'
    BY <1>1, <2>1 DEF Shape
  <2>3. DataInv(p, q)'
    <3>1. ASSUME NEW n \in Nat, SliceAt(p, q, n) PROVE SliceAt(p, q, n)'
      BY Zenon, <1>1, <3>1 DEF SliceAt
    <3> QED
      BY <1>1, <2>1, <3>1 DEF DirInv, DataInv
  <2>4. AckInv(p, q)'
    BY Zenon, <1>1, <2>1 DEF DirInv, AckInv
  <2>5. SendInv(p, q)' /\ TurnInv(p, q)'
    BY Zenon, <1>1, <2>1 DEF DirInv, SendInv, TurnInv
  <2>6. UpInv(p, q)'
    BY Zenon, <1>1 DEF UpInv
  <2> QED
    BY <2>2, <2>3, <2>4, <2>5, <2>6 DEF DirInv, q
<1> QED
  BY <1>2, <1>3 DEF IInv

\* A peer that gives up: its call returns, and it reads no more.
LEMMA GivesUp ==
  ASSUME IInv, NEW p \in Peer, ~up, up' = up, op' = [op EXCEPT ![p] = None],
         wire' = [wire EXCEPT ![p] = <<>>], link' = link \/ link' = [link EXCEPT ![p] = "failed"],
         offered' = offered, delivered' = delivered, confirmed' = confirmed
  PROVE  IInv'
<1> DEFINE q == Other(p)
<1>q. q = Other(p) /\ q \in Peer /\ q # p
  BY OtherPeer
<1> HIDE DEF q
<1>1. PTypeOK /\ HandshakeInv /\ Shape(p) /\ Shape(q) /\ DirInv(p, q) /\ DirInv(q, p)
  BY <1>q, OfBoth
<1>2. op' \in [Peer -> Call \cup {None}] /\ op'[p] = None /\ op'[q] = op[q]
  BY Zenon, <1>1, <1>q, CallSet
<1>3. wire' = [r \in Peer |-> wire'[r]] /\ wire'[p] = <<>> /\ wire'[q] = wire[q]
  BY Zenon, <1>1, <1>q DEF PTypeOK
<1>4. /\ link' \in [Peer -> {"connect", "cc", "negotiated", "cr", "negotiate", "open", "failed"}]
      /\ link'[q] = link[q] /\ (link'[p] = link[p] \/ link'[p] = "failed")
  BY Zenon, <1>1, <1>q DEF PTypeOK
<1>5. ~AckFirst(wire'[p]) /\ ~DataLast(wire'[p])
  BY <1>3, NoFrame
<1>6. PTypeOK'
  BY <1>1, <1>2, <1>3, <1>4 DEF PTypeOK
<1>7. HandshakeInv'
  <2>1. (p = Active /\ q = Passive) \/ (p = Passive /\ q = Active)
    BY <1>q, OtherPeer
  <2> QED
    BY <1>1, <1>4, <2>1 DEF HandshakeInv
<1>8. Shape(p)' /\ Shape(q)'
  <2>1. WireShape(link'[p], <<>>)
    BY DEF WireShape
  <2> QED
    BY <1>1, <1>2, <1>3, <1>4, <2>1 DEF Shape
<1>9. DataInv(p, q)'
  <2>1. ASSUME NEW n \in Nat, SliceAt(p, q, n) PROVE SliceAt(p, q, n)'
    BY <1>2, <1>3, <2>1 DEF SliceAt
  <2> QED
    BY <1>1, <1>3, <2>1 DEF DirInv, DataInv
<1>10. AckInv(p, q)' /\ DataInv(q, p)'
  BY Zenon, <1>5 DEF AckInv, DataInv
<1>11. SendInv(p, q)'
  BY <1>1, <1>2, NoCall DEF DirInv, SendInv
<1>12. UpInv(p, q)' /\ UpInv(q, p)'
  BY Zenon DEF UpInv
<1>13. TurnInv(p, q)' /\ TurnInv(q, p)'
  BY <1>1 DEF DirInv, TurnInv
<1>14. AckInv(q, p)'
  BY <1>1, <1>2, <1>3, <1>5 DEF DirInv, AckInv
<1>15. SendInv(q, p)'
  BY <1>1, <1>2, <1>3 DEF DirInv, SendInv
<1> QED
  BY <1>6, <1>7, <1>8, <1>9, <1>10, <1>11, <1>12, <1>13, <1>14, <1>15, <1>q, FromBoth DEF DirInv

\* A call or a handshake that fails.
LEMMA IoErrorStep ==
  ASSUME IInv, NEW p \in Peer, IoError(p) \/ HandshakeFails(p)
  PROVE  IInv' /\ UNCHANGED <<offered, delivered, confirmed>>
<1>1. CASE IoError(p)
  BY Zenon, <1>1, GivesUp DEF IoError, Return
<1>2. CASE HandshakeFails(p)
  <2>1. /\ ~up /\ up' = up /\ op' = op /\ link[p] # "open"
        /\ wire' = [wire EXCEPT ![p] = <<>>] /\ link' = [link EXCEPT ![p] = "failed"]
        /\ offered' = offered /\ delivered' = delivered /\ confirmed' = confirmed
    BY <1>2 DEF HandshakeFails, Go
  <2>2. op[p] = None /\ op \in [Peer -> Call \cup {None}]
    BY <2>1 DEF IInv, Shape, PTypeOK
  <2>3. op' = [op EXCEPT ![p] = None]
    BY <2>1, <2>2
  <2> QED
    BY Zenon, <2>1, <2>3, GivesUp
<1> QED
  BY <1>1, <1>2

-----------------------------------------------------------------------------
(* The handshake                                                           *)

\* The step leaves the data and acknowledgements on their way to r.
SameTraffic(r) ==
  /\ AckFirst(wire'[r]) <=> AckFirst(wire[r])
  /\ DataLast(wire'[r]) <=> DataLast(wire[r])
  /\ DataLast(wire[r]) => LastOf(wire'[r]) = LastOf(wire[r])

\* A step of the handshake leaves what calls rely on.
LEMMA DirKept ==
  ASSUME NEW p \in Peer, NEW q \in Peer, DirInv(p, q), SameTraffic(p), SameTraffic(q),
         UNCHANGED <<op, up, offered, delivered, confirmed>>
  PROVE  DirInv(p, q)'
<1>1. op' = op /\ up' = up /\ offered' = offered /\ delivered' = delivered /\ confirmed' = confirmed
  OBVIOUS
<1>2. /\ AckFirst(wire'[p]) <=> AckFirst(wire[p])
      /\ DataLast(wire'[p]) <=> DataLast(wire[p])
      /\ AckFirst(wire'[q]) <=> AckFirst(wire[q])
      /\ DataLast(wire'[q]) <=> DataLast(wire[q])
      /\ DataLast(wire[q]) => LastOf(wire'[q]) = LastOf(wire[q])
  BY Zenon DEF SameTraffic
<1>7. DataInv(p, q) /\ AckInv(p, q) /\ SendInv(p, q) /\ UpInv(p, q) /\ TurnInv(p, q)
  BY DEF DirInv
<1>3. DataInv(p, q)'
  <2>1. ASSUME NEW n \in Nat, SliceAt(p, q, n), DataLast(wire[q]) PROVE SliceAt(p, q, n)'
    BY ONLY Zenon, <1>1, <1>2, <2>1 DEF SliceAt
  <2>2. DataInv(p, q)
    BY <1>7
  <2>3. SUFFICES ASSUME DataLast(wire[q])
        PROVE  Len(delivered[p]) < Len(offered[p]) /\ \E n \in Nat : SliceAt(p, q, n)'
    BY Zenon, <1>1, <1>2 DEF DataInv
  <2> QED
    BY ONLY <2>1, <2>2, <2>3 DEF DataInv
<1>4. AckInv(p, q)'
  BY ONLY Zenon, <1>1, <1>2, <1>7 DEF AckInv
<1>5. SendInv(p, q)'
  BY ONLY Zenon, <1>1, <1>2, <1>7 DEF SendInv
<1>6. TurnInv(p, q)'
  BY ONLY <1>1, <1>7 DEF TurnInv
<1>8. UpInv(p, q)'
  BY ONLY Zenon, <1>1, <1>2, <1>7 DEF UpInv
<1> QED
  BY ONLY <1>3, <1>4, <1>5, <1>6, <1>8 DEF DirInv

\* The frames of the handshake are neither.
LEMMA HandshakeFrame ==
  ASSUME NEW f \in {CR, CC, Negotiate, Negotiated}
  PROVE  ~AckFirst(<<f>>) /\ ~DataLast(<<f>>) /\ f # Ack /\ <<f>> # <<>>
<1>1. f.tg # "ack" /\ f.tg # "data" /\ Ack.tg = "ack"
  BY DEF CR, CC, Negotiate, Negotiated, Ack
<1>2. f # Ack
  BY <1>1
<1> QED
  BY <1>1, <1>2, OneFrame

\* p reads a frame of the handshake and answers it with the next one.
LEMMA Answers ==
  ASSUME PTypeOK, NEW p \in Peer, NEW q, q = Other(p), NEW g \in {CR, CC, Negotiate, Negotiated},
         wire[p] = <<g>>, NEW f \in {CR, CC, Negotiate, Negotiated}, TakeAndPut(p, f),
         up => wire[q] = <<>>
  PROVE  /\ wire' = [r \in Peer |-> wire'[r]] /\ wire'[p] = <<>>
         /\ up => wire'[q] = <<f>>
         /\ ~up => wire'[q] = wire[q]
         /\ SameTraffic(p) /\ SameTraffic(q)
<1>1. /\ wire' = [r \in Peer |-> wire'[r]] /\ wire'[p] = Tail(wire[p])
      /\ up => wire'[q] = Append(wire[q], f)
      /\ ~up => wire'[q] = wire[q]
  BY ONLY PTypeOK, p \in Peer, q = Other(p), TakeAndPut(p, f), ReadAndAnswered
<1>2. wire'[p] = <<>>
  BY <1>1, OneFrame
<1>3. up => wire'[q] = <<f>>
  <2>1. Append(<<>>, f) = <<f>>
    BY OneFrame
  <2> QED
    BY <1>1, <2>1
<1>4. ~AckFirst(<<f>>) /\ ~DataLast(<<f>>) /\ ~AckFirst(<<g>>) /\ ~DataLast(<<g>>)
  BY HandshakeFrame
<1>5. SameTraffic(p)
  BY <1>2, <1>4, NoFrame DEF SameTraffic
<1>6. SameTraffic(q)
  <2>1. CASE up
    <3>1. wire'[q] = <<f>> /\ wire[q] = <<>>
      BY <1>3, <2>1
    <3> QED
      BY <1>4, <3>1, NoFrame DEF SameTraffic
  <2>2. CASE ~up
    BY <1>1, <2>2 DEF SameTraffic
  <2> QED
    BY <2>1, <2>2
<1> QED
  BY <1>1, <1>2, <1>3, <1>5, <1>6

\* The stage of p, and of p alone.
LEMMA Goes ==
  ASSUME PTypeOK, NEW p \in Peer, NEW q, q = Other(p),
         NEW s \in {"connect", "cc", "negotiated", "cr", "negotiate", "open", "failed"}, Go(p, s)
  PROVE  /\ link' \in [Peer -> {"connect", "cc", "negotiated", "cr", "negotiate", "open", "failed"}]
         /\ link'[p] = s /\ link'[q] = link[q]
<1>1. q \in Peer /\ q # p
  BY OtherPeer
<1> QED
  BY <1>1 DEF PTypeOK, Go

\* The rest of the invariant, for a step of the handshake.
LEMMA HandshakeKeeps ==
  ASSUME IInv, NEW p \in Peer, NEW q, q = Other(p), link[p] # "open",
         NEW s \in {"connect", "cc", "negotiated", "cr", "negotiate", "open", "failed"}, Go(p, s),
         UNCHANGED <<op, up, offered, delivered, confirmed>>, wire' = [r \in Peer |-> wire'[r]],
         SameTraffic(p), SameTraffic(q), WireShape(s, wire'[p]), WireShape(link[q], wire'[q]),
         HandshakeInv'
  PROVE  IInv'
<1>q. q \in Peer /\ q # p
  BY OtherPeer
<1>1. PTypeOK /\ Shape(p) /\ Shape(q) /\ DirInv(p, q) /\ DirInv(q, p)
  BY OfBoth
<1>2. /\ link' \in [Peer -> {"connect", "cc", "negotiated", "cr", "negotiate", "open", "failed"}]
      /\ link'[p] = s /\ link'[q] = link[q]
  BY <1>1, Goes
<1>3. PTypeOK'
  BY <1>1, <1>2 DEF PTypeOK
<1>4. Shape(p)' /\ Shape(q)'
  BY <1>1, <1>2 DEF Shape
<1>5. DirInv(p, q)'
  BY <1>1, <1>q, DirKept
<1>6. DirInv(q, p)'
  BY <1>1, <1>q, DirKept
<1> QED
  BY <1>3, <1>4, <1>5, <1>6, FromBoth

\* Which partner is at a stage of the handshake.
LEMMA StageOf ==
  ASSUME IInv, NEW p \in Peer, NEW q, q = Other(p)
  PROVE  /\ link[p] \in {"connect", "cc", "negotiated"} => p = Active /\ q = Passive
         /\ link[p] \in {"cr", "negotiate"} => p = Passive /\ q = Active
         /\ Active # Passive
<1>1. ((p = Active /\ q = Passive) \/ (p = Passive /\ q = Active)) /\ Active # Passive
  BY OtherPeer
<1>2. HandshakeInv
  BY DEF IInv
<1> QED
  BY <1>1, <1>2 DEF HandshakeInv

\* connect writes its request.
LEMMA SendCRStep ==
  ASSUME IInv, SendCR
  PROVE  IInv'
<1> DEFINE p == Active
           q == Other(p)
<1>q. q = Other(p) /\ q \in Peer /\ q # p /\ p \in Peer /\ q = Passive
  BY OtherPeer, PartnerConstants DEF Passive
<1>1. /\ link[p] = "connect" /\ up /\ wire' = [wire EXCEPT ![q] = Append(@, CR)] /\ Go(p, "cc")
      /\ UNCHANGED <<op, up, offered, delivered, confirmed>>
  BY DEF SendCR, Put
<1>2. PTypeOK /\ HandshakeInv /\ Shape(p)
  BY <1>q DEF IInv
<1>3. link[q] = "cr" /\ wire[q] = <<>> /\ wire[p] = <<>>
  BY Zenon, <1>1, <1>2, <1>q DEF HandshakeInv, Shape, WireShape
<1> HIDE DEF q
<1>4. wire' = [r \in Peer |-> wire'[r]] /\ wire'[p] = <<>> /\ wire'[q] = <<CR>>
  <2>1. wire = [r \in Peer |-> wire[r]]
    BY <1>2 DEF PTypeOK
  <2>2. Append(<<>>, CR) = <<CR>>
    BY OneFrame
  <2>3. wire' = [r \in Peer |-> wire'[r]] /\ wire'[p] = wire[p] /\ wire'[q] = Append(wire[q], CR)
    BY Zenon, <1>1, <1>q, <2>1
  <2> QED
    BY <1>3, <2>2, <2>3
<1>5. ~AckFirst(<<CR>>) /\ ~DataLast(<<CR>>)
  BY HandshakeFrame
<1>6. SameTraffic(p) /\ SameTraffic(q)
  BY <1>3, <1>4, <1>5, NoFrame DEF SameTraffic
<1>7. link'[p] = "cc" /\ link'[q] = "cr"
  BY Zenon, <1>1, <1>2, <1>3, <1>q, Goes
<1>8. HandshakeInv'
  BY <1>4, <1>7, <1>q DEF HandshakeInv
<1>9. WireShape("cc", wire'[p]) /\ WireShape(link[q], wire'[q])
  BY <1>3, <1>4 DEF WireShape
<1> QED
  BY Zenon, <1>1, <1>4, <1>6, <1>8, <1>9, <1>q, HandshakeKeeps

\* listen and accept confirm it.
LEMMA PassiveCRStep ==
  ASSUME IInv, NEW p \in Peer, PassiveCR(p)
  PROVE  IInv'
<1> DEFINE q == Other(p)
<1>1. /\ link[p] = "cr" /\ wire[p] # <<>> /\ TakeAndPut(p, CC) /\ Go(p, "negotiate")
      /\ UNCHANGED <<op, up, offered, delivered, confirmed>>
  BY DEF PassiveCR, Reads
<1>q. q = Other(p) /\ q \in Peer /\ p = Passive /\ q = Active
  BY <1>1, StageOf, OtherPeer
<1> HIDE DEF q
<1>2. PTypeOK /\ HandshakeInv /\ Shape(p) /\ Shape(q)
  BY <1>q DEF IInv
<1>3. wire[p] = <<CR>>
  BY Zenon, <1>1, <1>2 DEF Shape, WireShape
<1>4. up => link[q] = "cc" /\ wire[q] = <<>>
  BY Zenon, <1>1, <1>2, <1>q DEF HandshakeInv
<1>5. /\ wire' = [r \in Peer |-> wire'[r]] /\ wire'[p] = <<>>
      /\ up => wire'[q] = <<CC>>
      /\ ~up => wire'[q] = wire[q]
      /\ SameTraffic(p) /\ SameTraffic(q)
  <2>1. CR \in {CR, CC, Negotiate, Negotiated} /\ CC \in {CR, CC, Negotiate, Negotiated}
    OBVIOUS
  <2>2. TakeAndPut(p, CC) /\ (up => wire[q] = <<>>) /\ q = Other(p) /\ PTypeOK
    BY Zenon, <1>1, <1>2, <1>4, <1>q
  <2> QED
    BY ONLY <1>3, <2>1, <2>2, p \in Peer, Answers
<1>6. link'[p] = "negotiate" /\ link'[q] = link[q]
  BY Zenon, <1>1, <1>2, <1>q, Goes
<1>7. HandshakeInv'
  BY <1>1, <1>2, <1>4, <1>5, <1>6, <1>q DEF HandshakeInv
<1>8. WireShape("negotiate", wire'[p])
  BY <1>5 DEF WireShape
<1>9. WireShape(link[q], wire'[q])
  <2>1. WireShape("cc", <<CC>>)
    BY DEF WireShape
  <2> QED
    BY <1>2, <1>4, <1>5, <2>1 DEF Shape
<1> QED
  BY Zenon, <1>1, <1>5, <1>7, <1>8, <1>9, <1>q, HandshakeKeeps

\* They agree to the PDU size and are done.
LEMMA PassiveNegotiateStep ==
  ASSUME IInv, NEW p \in Peer, PassiveNegotiate(p)
  PROVE  IInv'
<1> DEFINE q == Other(p)
<1>1. /\ link[p] = "negotiate" /\ wire[p] # <<>> /\ TakeAndPut(p, Negotiated) /\ Go(p, "open")
      /\ UNCHANGED <<op, up, offered, delivered, confirmed>>
  BY DEF PassiveNegotiate, Reads
<1>q. q = Other(p) /\ q \in Peer /\ p = Passive /\ q = Active
  BY <1>1, StageOf, OtherPeer
<1> HIDE DEF q
<1>2. PTypeOK /\ HandshakeInv /\ Shape(p) /\ Shape(q)
  BY <1>q DEF IInv
<1>3. wire[p] = <<Negotiate>>
  BY Zenon, <1>1, <1>2 DEF Shape, WireShape
<1>4. up => link[q] = "negotiated" /\ wire[q] = <<>>
  BY Zenon, <1>1, <1>2, <1>q DEF HandshakeInv
<1>5. /\ wire' = [r \in Peer |-> wire'[r]] /\ wire'[p] = <<>>
      /\ up => wire'[q] = <<Negotiated>>
      /\ ~up => wire'[q] = wire[q]
      /\ SameTraffic(p) /\ SameTraffic(q)
  <2>1. Negotiate \in {CR, CC, Negotiate, Negotiated} /\ Negotiated \in {CR, CC, Negotiate, Negotiated}
    OBVIOUS
  <2>2. TakeAndPut(p, Negotiated) /\ (up => wire[q] = <<>>) /\ q = Other(p) /\ PTypeOK
    BY Zenon, <1>1, <1>2, <1>4, <1>q
  <2> QED
    BY ONLY <1>3, <2>1, <2>2, p \in Peer, Answers
<1>6. link'[p] = "open" /\ link'[q] = link[q]
  BY Zenon, <1>1, <1>2, <1>q, Goes
<1>7. HandshakeInv'
  <2>1. <<Negotiated>> # <<>>
    OBVIOUS
  <2> QED
    BY <1>1, <1>2, <1>4, <1>5, <1>6, <1>q, <2>1 DEF HandshakeInv
<1>8. WireShape("open", wire'[p])
  BY <1>5 DEF WireShape
<1>9. WireShape(link[q], wire'[q])
  <2>1. WireShape("negotiated", <<Negotiated>>)
    BY DEF WireShape
  <2> QED
    BY <1>2, <1>4, <1>5, <2>1 DEF Shape
<1> QED
  BY Zenon, <1>1, <1>5, <1>7, <1>8, <1>9, <1>q, HandshakeKeeps

\* connect reads the confirm, which is what comes, and asks for a PDU size.
LEMMA ActiveCCStep ==
  ASSUME IInv, NEW p \in Peer, ActiveCC(p)
  PROVE  IInv'
<1> DEFINE q == Other(p)
<1>0. link[p] = "cc" /\ wire[p] # <<>> /\ UNCHANGED <<op, up, offered, delivered, confirmed>>
  BY DEF ActiveCC, Reads
<1>q. q = Other(p) /\ q \in Peer /\ p = Active /\ q = Passive
  BY <1>0, StageOf, OtherPeer
<1> HIDE DEF q
<1>2. PTypeOK /\ HandshakeInv /\ Shape(p) /\ Shape(q)
  BY <1>q DEF IInv
<1>3. wire[p] = <<CC>>
  BY Zenon, <1>0, <1>2 DEF Shape, WireShape
<1>1. TakeAndPut(p, Negotiate) /\ Go(p, "negotiated")
  <2>1. Head(wire[p]) = CC
    BY <1>3, OneFrame
  <2> QED
    BY <2>1 DEF ActiveCC
<1>4. up => link[q] = "negotiate" /\ wire[q] = <<>>
  <2>1. <<CC>> # <<>>
    OBVIOUS
  <2> QED
    BY <1>0, <1>2, <1>3, <1>q, <2>1 DEF HandshakeInv
<1>5. /\ wire' = [r \in Peer |-> wire'[r]] /\ wire'[p] = <<>>
      /\ up => wire'[q] = <<Negotiate>>
      /\ ~up => wire'[q] = wire[q]
      /\ SameTraffic(p) /\ SameTraffic(q)
  <2>1. CC \in {CR, CC, Negotiate, Negotiated} /\ Negotiate \in {CR, CC, Negotiate, Negotiated}
    OBVIOUS
  <2>2. TakeAndPut(p, Negotiate) /\ (up => wire[q] = <<>>) /\ q = Other(p) /\ PTypeOK
    BY <1>1, <1>2, <1>4, <1>q
  <2> QED
    BY ONLY <1>3, <2>1, <2>2, p \in Peer, Answers
<1>6. link'[p] = "negotiated" /\ link'[q] = link[q]
  BY Zenon, <1>1, <1>2, <1>q, Goes
<1>7. HandshakeInv'
  BY <1>0, <1>2, <1>4, <1>5, <1>6, <1>q DEF HandshakeInv
<1>8. WireShape("negotiated", wire'[p])
  BY <1>5 DEF WireShape
<1>9. WireShape(link[q], wire'[q])
  <2>1. WireShape("negotiate", <<Negotiate>>)
    BY DEF WireShape
  <2> QED
    BY <1>2, <1>4, <1>5, <2>1 DEF Shape
<1> QED
  BY Zenon, <1>0, <1>1, <1>5, <1>7, <1>8, <1>9, <1>q, HandshakeKeeps

\* What is left when the end of the handshake is read: nothing, or data that
\* the passive partner has already sent.
LEMMA NegotiatedTaken ==
  ASSUME NEW w, WireShape("negotiated", w), w # <<>>
  PROVE  /\ WireShape("open", Tail(w)) /\ ~AckFirst(w) /\ ~AckFirst(Tail(w))
         /\ DataLast(Tail(w)) <=> DataLast(w)
         /\ DataLast(w) => LastOf(Tail(w)) = LastOf(w)
<1> DEFINE d == LastOf(w)
<1>1. w = <<Negotiated>> \/ (DataLast(w) /\ w = <<Negotiated, d>> /\ d.tg = "data")
  BY DEF WireShape, DataLast, LastOf
<1>2. Negotiated # Ack /\ ~AckFirst(<<Negotiated>>) /\ ~DataLast(<<Negotiated>>)
  BY HandshakeFrame
<1> HIDE DEF d
<1>3. CASE w = <<Negotiated>>
  <2>1. Tail(w) = <<>>
    BY <1>3, OneFrame
  <2> QED
    BY <1>2, <1>3, <2>1, NoFrame DEF WireShape
<1>4. CASE DataLast(w) /\ w = <<Negotiated, d>> /\ d.tg = "data"
  <2>1. Tail(<<Negotiated, d>>) = <<d>> /\ ~AckFirst(<<Negotiated, d>>)
    BY <1>2, TwoFrames
  <2>2. d # Ack
    BY <1>4 DEF Ack
  <2>3. LastOf(<<d>>) = d /\ DataLast(<<d>>) /\ ~AckFirst(<<d>>)
    BY <1>4, <2>2, OneFrame
  <2>4. WireShape("open", <<d>>)
    BY <2>3 DEF WireShape
  <2>5. /\ WireShape("open", Tail(w)) /\ ~AckFirst(w) /\ ~AckFirst(Tail(w))
        /\ DataLast(Tail(w)) /\ LastOf(Tail(w)) = d
    BY <1>4, <2>1, <2>3, <2>4
  <2> QED
    BY <1>4, <2>5 DEF d
<1> QED
  BY <1>1, <1>3, <1>4

\* connect reads the PDU size and is done; data may follow it.
LEMMA ActiveNegotiatedStep ==
  ASSUME IInv, NEW p \in Peer, ActiveNegotiated(p)
  PROVE  IInv'
<1> DEFINE q == Other(p)
<1>1. /\ link[p] = "negotiated" /\ wire[p] # <<>> /\ Take(p) /\ Go(p, "open")
      /\ UNCHANGED <<op, up, offered, delivered, confirmed>>
  BY DEF ActiveNegotiated, Reads
<1>q. q = Other(p) /\ q \in Peer /\ q # p /\ p = Active /\ q = Passive
  BY <1>1, StageOf, OtherPeer
<1> HIDE DEF q
<1>2. PTypeOK /\ HandshakeInv /\ Shape(p) /\ Shape(q)
  BY <1>q DEF IInv
<1>3. wire' = [r \in Peer |-> wire'[r]] /\ wire'[p] = Tail(wire[p]) /\ wire'[q] = wire[q]
  <2>1. wire = [r \in Peer |-> wire[r]]
    BY <1>2 DEF PTypeOK
  <2> QED
    BY Zenon, <1>1, <1>q, <2>1 DEF Take
<1>4. WireShape("negotiated", wire[p]) /\ WireShape(link[q], wire'[q])
  BY <1>1, <1>2, <1>3 DEF Shape
<1>5. /\ WireShape("open", wire'[p]) /\ ~AckFirst(wire[p]) /\ ~AckFirst(wire'[p])
      /\ DataLast(wire'[p]) <=> DataLast(wire[p])
      /\ DataLast(wire[p]) => LastOf(wire'[p]) = LastOf(wire[p])
  BY <1>1, <1>3, <1>4, NegotiatedTaken
<1>6. SameTraffic(p)
  BY <1>5 DEF SameTraffic
<1>7. SameTraffic(q)
  BY <1>3 DEF SameTraffic
<1>8. link'[p] = "open" /\ link'[q] = link[q]
  BY Zenon, <1>1, <1>2, <1>q, Goes
<1>9. HandshakeInv'
  BY Zenon, <1>1, <1>2, <1>8, <1>q DEF HandshakeInv
<1> QED
  BY Zenon, <1>1, <1>3, <1>4, <1>5, <1>6, <1>7, <1>9, <1>q, HandshakeKeeps

-----------------------------------------------------------------------------
(* The theorems                                                            *)

\* Nothing changes.
LEMMA Stutters ==
  ASSUME IInv, UNCHANGED vars
  PROVE  IInv'
<1>1. /\ link' = link /\ op' = op /\ wire' = wire /\ up' = up
      /\ offered' = offered /\ delivered' = delivered /\ confirmed' = confirmed
  BY DEF vars
<1>2. PTypeOK' /\ HandshakeInv'
  BY <1>1 DEF IInv, PTypeOK, HandshakeInv
<1>3. ASSUME NEW p \in Peer PROVE Shape(p)' /\ DirInv(p, Other(p))'
  <2> DEFINE q == Other(p)
  <2>1. Shape(p) /\ DirInv(p, q) /\ q \in Peer
    BY OtherPeer DEF IInv
  <2>2. Shape(p)'
    BY Zenon, <1>1, <2>1 DEF Shape
  <2>3. SameTraffic(p) /\ SameTraffic(q)
    BY <1>1 DEF SameTraffic
  <2> HIDE DEF q
  <2>4. DirInv(p, q)'
    BY <1>1, <2>1, <2>3, DirKept
  <2> QED
    BY <2>2, <2>4 DEF q
<1> QED
  BY <1>2, <1>3 DEF IInv

\* Before the handshake nothing is on its way.
LEMMA PartnersStart ==
  ASSUME Init
  PROVE  IInv
<1>1. <<>> \in Seq(Message) /\ Len(<<>>) = 0
  OBVIOUS
<1>2. PTypeOK
  BY <1>1 DEF Init, PTypeOK
<1>3. HandshakeInv
  <2>1. Passive \in Peer /\ Passive # Active /\ Active \in Peer
    BY OtherPeer, PartnerConstants DEF Passive
  <2> QED
    BY <2>1 DEF Init, HandshakeInv
<1>4. ASSUME NEW p \in Peer PROVE Shape(p) /\ DirInv(p, Other(p))
  <2> DEFINE q == Other(p)
  <2>1. q \in Peer
    BY OtherPeer
  <2> HIDE DEF q
  <2>2. /\ wire[p] = <<>> /\ wire[q] = <<>> /\ op[p] = None /\ op[q] = None
        /\ Len(offered[p]) = 0 /\ Len(delivered[p]) = 0 /\ Len(confirmed[p]) = 0
        /\ Len(offered[q]) = 0 /\ Len(delivered[q]) = 0
    BY <1>1, <2>1 DEF Init
  <2>3. WireShape(link[p], <<>>)
    BY DEF WireShape
  <2>4. ~AckFirst(wire[p]) /\ ~DataLast(wire[p]) /\ ~DataLast(wire[q])
    BY Zenon, <2>2, NoFrame
  <2>5. ~Sending(op[p]) /\ ~Is(op[p], "write") /\ ~Is(op[p], "ack") /\ Fresh(op[q])
    BY <2>2, NoCall
  <2>6. DataInv(p, q) /\ AckInv(p, q)
    BY Zenon, <2>4 DEF DataInv, AckInv
  <2>7. SendInv(p, q)
    <3>1. Len(confirmed[p]) <= Len(delivered[p])
      BY ONLY <2>2
    <3> QED
      BY ONLY Zenon, <2>5, <3>1 DEF SendInv
  <2>8. UpInv(p, q)
    BY <2>2, <2>4, <2>5 DEF UpInv
  <2>9. TurnInv(p, q)
    BY <2>2 DEF TurnInv
  <2> QED
    BY Zenon, <2>2, <2>3, <2>6, <2>7, <2>8, <2>9 DEF Shape, DirInv, q
<1> QED
  BY <1>2, <1>3, <1>4 DEF IInv

\* Every step of two partners that take turns keeps the invariant, and is a step
\* of the transfer of whole messages or is none of its business.
LEMMA PartnerStep ==
  ASSUME TakeTurns, IInv, [Next]_vars
  PROVE  IInv' /\ (Transfer!Next \/ UNCHANGED <<offered, delivered, confirmed>>)
<1> USE DEF Transfer!Next
<1>1. ASSUME NEW p \in Peer, NEW m \in Message, BSend(p, m)
      PROVE  IInv' /\ (Transfer!Next \/ UNCHANGED <<offered, delivered, confirmed>>)
  <2>1. CASE m.data = <<>>
    <3>1. UNCHANGED vars
      BY <1>1, <2>1 DEF BSend, vars
    <3> QED
      BY <3>1, Stutters DEF vars
  <2>2. CASE m.data # <<>>
    BY <1>1, <2>2, BSendStep
  <2> QED
    BY <2>1, <2>2
<1>2. ASSUME NEW p \in Peer, WriteFrame(p)
      PROVE  IInv' /\ UNCHANGED <<offered, delivered, confirmed>>
  BY Zenon, <1>2, WriteFrameStep DEF WriteFrame
<1>3. ASSUME NEW p \in Peer, ReadAck(p)
      PROVE  IInv' /\ (Transfer!Next \/ UNCHANGED <<offered, delivered, confirmed>>)
  <2>1. CASE Final(op[p].msg, op[p].off)
    BY <1>3, <2>1, ReadLastAckStep
  <2>2. CASE ~Final(op[p].msg, op[p].off)
    BY <1>3, <2>2, ReadNextAckStep
  <2> QED
    BY <2>1, <2>2
<1>4. ASSUME NEW p \in Peer, ReadFrame(p)
      PROVE  IInv' /\ (Transfer!Next \/ UNCHANGED <<offered, delivered, confirmed>>)
  <2>1. Other(p) \in Peer
    BY OtherPeer
  <2> QED
    BY <1>4, <2>1, ReadFrameStep
<1>5. ASSUME NEW p \in Peer, IoError(p) \/ HandshakeFails(p)
      PROVE  IInv' /\ UNCHANGED <<offered, delivered, confirmed>>
  BY <1>5, IoErrorStep
<1>6. ASSUME NEW p \in Peer, BRecv(p)
      PROVE  IInv' /\ UNCHANGED <<offered, delivered, confirmed>>
  BY <1>6, BRecvStep
<1>7. ASSUME NEW p \in Peer, PassiveCR(p) \/ PassiveNegotiate(p) \/ ActiveCC(p) \/ ActiveNegotiated(p)
      PROVE  IInv' /\ UNCHANGED <<offered, delivered, confirmed>>
  <2>1. UNCHANGED <<offered, delivered, confirmed>>
    BY <1>7 DEF PassiveCR, PassiveNegotiate, ActiveCC, ActiveNegotiated
  <2> QED
    BY <1>7, <2>1, PassiveCRStep, PassiveNegotiateStep, ActiveCCStep, ActiveNegotiatedStep
<1>8. ASSUME SendCR PROVE IInv' /\ UNCHANGED <<offered, delivered, confirmed>>
  BY <1>8, SendCRStep DEF SendCR
<1>9. ASSUME Break PROVE IInv' /\ UNCHANGED <<offered, delivered, confirmed>>
  BY Zenon, <1>9, BreakStep DEF Break
<1>10. ASSUME UNCHANGED vars PROVE IInv' /\ UNCHANGED <<offered, delivered, confirmed>>
  BY <1>10, Stutters DEF vars
<1> QED
  BY <1>1, <1>2, <1>3, <1>4, <1>5, <1>6, <1>7, <1>8, <1>9, <1>10 DEF Next, CallStep, HandshakeStep

\* When applications take turns, what is on its way and what each call waits for
\* agree at every point: the data is the slice that brecv expects next, and the
\* acknowledgement is of the slice that bsend wrote last.
THEOREM PartnerInvariant == TakeTurns => (Spec => []IInv)
<1> SUFFICES ASSUME TakeTurns PROVE Spec => []IInv
  OBVIOUS
<1>1. Init => IInv
  BY PartnersStart
<1>2. IInv /\ [Next]_vars => IInv'
  BY PartnerStep
<1> QED
  BY <1>1, <1>2, PTL DEF Spec

\* When applications take turns, slices and acknowledgements on a connection
\* that may break at any point implement the transfer of whole messages: each
\* arrives as it was sent, once and in order, and a bsend returns Ok only for a
\* message that has arrived.
THEOREM PartnerImplements == TakeTurns => (Spec => Implements)
<1> SUFFICES ASSUME TakeTurns PROVE Spec => Implements
  OBVIOUS
<1>1. Init => IInv /\ Transfer!Init
  BY PartnersStart DEF Init, Transfer!Init
<1>2. IInv /\ [Next]_vars => IInv' /\ [Transfer!Next]_(Transfer!vars)
  BY PartnerStep DEF Transfer!vars
<1> QED
  BY <1>1, <1>2, PTL DEF Spec, Implements, Transfer!Spec

\* When applications take turns, a bsend that returned Ok sent a message that
\* the partner's brecv has returned.  Without turns it may not have.
THEOREM PartnerConfirmed == TakeTurns => (Spec => []ConfirmedWasDelivered)
<1>1. IInv => ConfirmedWasDelivered
  BY Zenon DEF IInv, DirInv, SendInv, ConfirmedWasDelivered
<1> QED
  BY <1>1, PartnerInvariant, PTL
=============================================================================
