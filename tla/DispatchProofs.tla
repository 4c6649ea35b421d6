-------------------------- MODULE DispatchProofs ---------------------------
(***************************************************************************)
(* Proofs about Dispatch, for every number of connections and threads of   *)
(* the application and for all requests.                                   *)
(***************************************************************************)
EXTENDS Dispatch, FairQueueProofs

-----------------------------------------------------------------------------
(* The inductive invariant                                                 *)

AnyRequest == UNION {Request[c] : c \in Conn}
Reply == [ref : Nat, ok : BOOLEAN, body : Seq(Data)]

\* The reference that answers the i-th request of c.
RefOf(c, i) == IF asked[c][i].kind = "malformed" THEN 0 ELSE i

ConnTypeOK ==
  /\ asked \in [Conn -> Seq(AnyRequest)]
  /\ nread \in [Conn -> Nat]
  /\ job \in [Conn -> Job \cup {None}]
  /\ replies \in [Conn -> Seq(Reply)]
  /\ peer \in [Conn -> Peer]
  /\ live \in [Conn -> BOOLEAN]

\* One request at a time: as long as the loop runs, every request that was
\* read is answered but for the one whose items are being done.
InTurn(c) ==
  /\ asked[c] \in Seq(Request[c]) /\ Len(asked[c]) <= MaxAsk[c]
  /\ Len(replies[c]) <= nread[c] /\ nread[c] <= Len(asked[c])
  /\ live[c] => Len(replies[c]) = nread[c] - (IF job[c] # None THEN 1 ELSE 0)
  /\ job[c] # None => live[c] /\ nread[c] > 0 /\ Current(c).kind \in {"read", "write"}
  /\ \A i \in 1..Len(replies[c]) : replies[c][i].ref = RefOf(c, i)

ConnInv == ConnTypeOK /\ \A c \in Conn : InTurn(c)
IInv == StoreTypeOK /\ ConnInv

-----------------------------------------------------------------------------
(* The store                                                               *)

\* fire_*: taking the callbacks and putting them back.
LEMMA FireKeepsStore ==
  ASSUME StoreTypeOK, NEW t \in Thread, TakeCallbacks(t) \/ RestoreCallbacks(t)
  PROVE  StoreTypeOK' /\ UNCHANGED <<mem, locked>>
<1>1. ~Free(t) /\ call[t] \in Firing /\ UNCHANGED <<mem, locked, cpu, clock, subscribed>>
  BY DEF StoreTypeOK, TakeCallbacks, RestoreCallbacks, Free
<1>2. call[t].kind \in Kinds /\ call[t].taken \in Seq(Callback) /\ callbacks[call[t].kind] \in Seq(Callback)
  BY <1>1 DEF Firing, StoreTypeOK
<1>3. callbacks' \in [Kinds -> Seq(Callback)] /\ call' \in [Thread -> Firing \cup {None}]
  <2>1. CASE TakeCallbacks(t)
    <3> DEFINE f == [call[t] EXCEPT !.stage = "restore", !.taken = callbacks[call[t].kind]]
    <3>1. f \in Firing
      BY <1>1, <1>2 DEF Firing
    <3>2. call' = [call EXCEPT ![t] = f]
      BY <2>1 DEF TakeCallbacks
    <3> HIDE DEF f
    <3>3. callbacks' = [callbacks EXCEPT ![call[t].kind] = <<>>] /\ <<>> \in Seq(Callback)
      BY <2>1 DEF TakeCallbacks
    <3> QED
      BY <3>1, <3>2, <3>3, <1>2 DEF StoreTypeOK
  <2>2. CASE RestoreCallbacks(t)
    BY <1>2, <2>2 DEF RestoreCallbacks, StoreTypeOK
  <2> QED
    BY <2>1, <2>2
<1> QED
  BY <1>1, <1>3 DEF StoreTypeOK

\* write_area of one item.
LEMMA WriteKeepsStore ==
  ASSUME StoreTypeOK, NEW t \in Thread, NEW a \in Area, NEW os \in SUBSET Offset, NEW b \in Byte,
         NEW data, data = [o \in os |-> b], WriteArea(t, a, data)
  PROVE  /\ StoreTypeOK' /\ locked' = locked
         /\ a \in locked => mem' = mem
         /\ \A x \in Area \ {a} : mem'[x] = mem[x]
         /\ \A o \in Offset : mem'[a][o] = mem[a][o] \/ (o \in os /\ mem'[a][o] = b)
         /\ mem' = mem \/ \A o \in os : mem'[a][o] = b
<1>1. UNCHANGED <<locked, cpu, clock, callbacks, subscribed>>
  BY DEF WriteArea
<1>2. CASE a \in locked
  BY <1>1, <1>2 DEF WriteArea, StoreTypeOK
<1>3. CASE a \notin locked
  <2> DEFINE m == [o \in Offset |-> IF o \in os THEN b ELSE mem[a][o]]
  <2>1. mem' = [mem EXCEPT ![a] = m] /\ call' = [call EXCEPT ![t] = Fire("write")]
    BY <1>3 DEF WriteArea
  <2>2. mem \in [Area -> [Offset -> Byte]] /\ m \in [Offset -> Byte]
    BY DEF StoreTypeOK
  <2>3. Fire("write") \in Firing
    <3>1. <<>> \in Seq(Callback)
      OBVIOUS
    <3> QED
      BY <3>1 DEF Fire, Firing, Kinds
  <2>4. StoreTypeOK'
    <3> HIDE DEF m
    <3> QED
      BY <1>1, <2>1, <2>2, <2>3 DEF StoreTypeOK
  <2> QED
    BY <1>1, <1>3, <2>1, <2>2, <2>4
<1> QED
  BY <1>2, <1>3

\* The application's calls.
LEMMA ConfigureKeepsStore ==
  ASSUME StoreTypeOK, NEW t \in Thread, Configure(t)
  PROVE  /\ StoreTypeOK'
         /\ \A a \in Area : mem'[a] = mem[a] \/ mem'[a] = [o \in Offset |-> 0]
<1>1. ASSUME NEW k \in Kinds, NEW cb \in Callback, Subscribe(t, k, cb)
      PROVE  StoreTypeOK' /\ mem' = mem
  <2>1. callbacks[k] \in Seq(Callback) /\ subscribed[k] \in SUBSET Callback
    BY DEF StoreTypeOK
  <2>2. Append(callbacks[k], cb) \in Seq(Callback)
    BY <2>1, AppendCases
  <2>3. /\ callbacks' = [callbacks EXCEPT ![k] = Append(callbacks[k], cb)]
        /\ subscribed' = [subscribed EXCEPT ![k] = subscribed[k] \cup {cb}]
        /\ UNCHANGED <<mem, locked, cpu, clock, call>>
    BY <1>1 DEF Subscribe
  <2> QED
    BY <2>1, <2>2, <2>3 DEF StoreTypeOK
<1>2. ASSUME NEW a \in Area, LockArea(t, a) \/ UnlockArea(t, a)
      PROVE  StoreTypeOK' /\ mem' = mem
  BY <1>2 DEF LockArea, UnlockArea, StoreTypeOK
<1>3. ASSUME NEW a \in Area, UnregisterArea(t, a)
      PROVE  StoreTypeOK' /\ \A x \in Area : mem'[x] = mem[x] \/ mem'[x] = [o \in Offset |-> 0]
  <2>1. mem \in [Area -> [Offset -> Byte]] /\ [o \in Offset |-> 0] \in [Offset -> Byte]
    BY StoreConstants DEF StoreTypeOK
  <2> QED
    BY <1>3, <2>1 DEF UnregisterArea, StoreTypeOK
<1> QED
  BY <1>1, <1>2, <1>3 DEF Configure

-----------------------------------------------------------------------------
(* The connections                                                         *)

\* A connection whose state stays as it is.
LEMMA SameInTurn ==
  ASSUME NEW c \in Conn, InTurn(c), asked'[c] = asked[c], nread'[c] = nread[c], job'[c] = job[c],
         replies'[c] = replies[c], live'[c] = live[c]
  PROVE  InTurn(c)'
<1>1. Current(c)' = Current(c)
  BY DEF Current
<1>2. ASSUME NEW i \in 1..Len(replies'[c]) PROVE replies'[c][i].ref = RefOf(c, i)'
  <2>1. RefOf(c, i)' = RefOf(c, i)
    BY DEF RefOf
  <2> QED
    BY <2>1 DEF InTurn
<1>3. /\ asked'[c] \in Seq(Request[c]) /\ Len(asked'[c]) <= MaxAsk[c]
      /\ Len(replies'[c]) <= nread'[c] /\ nread'[c] <= Len(asked'[c])
      /\ live'[c] => Len(replies'[c]) = nread'[c] - (IF job'[c] # None THEN 1 ELSE 0)
  BY DEF InTurn
<1>4. job'[c] # None => live'[c] /\ nread'[c] > 0 /\ Current(c)'.kind \in {"read", "write"}
  BY <1>1 DEF InTurn
<1> QED
  BY <1>2, <1>3, <1>4 DEF InTurn

\* What happens on one connection leaves the others alone.
LEMMA OthersInTurn ==
  ASSUME ConnInv, NEW c \in Conn,
         \A d \in Conn \ {c} : /\ asked'[d] = asked[d] /\ nread'[d] = nread[d] /\ job'[d] = job[d]
                               /\ replies'[d] = replies[d] /\ live'[d] = live[d]
  PROVE  \A d \in Conn \ {c} : InTurn(d)'
<1> SUFFICES ASSUME NEW d \in Conn \ {c} PROVE InTurn(d)'
  OBVIOUS
<1>1. InTurn(d)
  BY DEF ConnInv
<1> QED
  BY <1>1, SameInTurn

\* A step that is none of the connections'.
LEMMA ConnUnchanged ==
  ASSUME ConnInv, UNCHANGED connVars
  PROVE  ConnInv'
<1>1. UNCHANGED <<asked, nread, job, replies, peer, live>>
  BY DEF connVars
<1>2. ConnTypeOK'
  BY <1>1 DEF ConnInv, ConnTypeOK
<1>3. ASSUME NEW c \in Conn PROVE InTurn(c)'
  BY <1>1, SameInTurn DEF ConnInv
<1> QED
  BY <1>2, <1>3 DEF ConnInv

\* Sending an answer, or failing to.
LEMMA AnswerEffect ==
  ASSUME ConnTypeOK, NEW c \in Conn, NEW ref \in Nat, NEW ok \in BOOLEAN, NEW body \in Seq(Data),
         Answer(c, ref, ok, body)
  PROVE  /\ replies' \in [Conn -> Seq(Reply)] /\ live' \in [Conn -> BOOLEAN]
         /\ \A d \in Conn \ {c} : replies'[d] = replies[d] /\ live'[d] = live[d]
         /\ \/ /\ live'[c] = live[c]
               /\ replies'[c] = Append(replies[c], [ref |-> ref, ok |-> ok, body |-> body])
            \/ ~live'[c] /\ replies'[c] = replies[c]
<1> DEFINE r == [ref |-> ref, ok |-> ok, body |-> body]
<1>1. r \in Reply
  BY DEF Reply
<1> HIDE DEF r
<1>2. /\ replies \in [Conn -> Seq(Reply)] /\ live \in [Conn -> BOOLEAN]
      /\ replies[c] \in Seq(Reply)
  BY DEF ConnTypeOK
<1>3. Append(replies[c], r) \in Seq(Reply)
  BY <1>1, <1>2, AppendCases
<1>4. CASE replies' = [replies EXCEPT ![c] = Append(replies[c], r)] /\ live' = live
  BY <1>2, <1>3, <1>4 DEF r
<1>5. CASE live' = [live EXCEPT ![c] = FALSE] /\ replies' = replies
  BY <1>2, <1>5
<1> QED
  BY <1>4, <1>5 DEF Answer, r

\* An answer sent keeps the answers in order when it is to request i.
LEMMA AppendInOrder ==
  ASSUME ConnTypeOK, NEW c \in Conn, InTurn(c), NEW ref \in Nat, NEW ok \in BOOLEAN,
         NEW body \in Seq(Data), asked' = asked, ref = RefOf(c, Len(replies[c]) + 1),
         replies'[c] = Append(replies[c], [ref |-> ref, ok |-> ok, body |-> body])
  PROVE  /\ Len(replies'[c]) = Len(replies[c]) + 1
         /\ \A i \in 1..Len(replies'[c]) : replies'[c][i].ref = RefOf(c, i)'
<1> DEFINE r == [ref |-> ref, ok |-> ok, body |-> body]
           q == replies[c]
           n == replies'[c]
<1>1. r \in Reply /\ r.ref = ref /\ q \in Seq(Reply)
  BY DEF Reply, ConnTypeOK
<1>2. n = Append(q, r)
  OBVIOUS
<1>3. \A i \in 1..Len(q) : q[i].ref = RefOf(c, i)
  BY DEF InTurn
<1>4. ref = RefOf(c, Len(q) + 1) /\ \A i : RefOf(c, i)' = RefOf(c, i)
  BY DEF RefOf
<1> HIDE DEF r, q, n
<1>5. /\ Len(n) = Len(q) + 1 /\ Len(q) \in Nat /\ n[Len(q) + 1] = r
      /\ \A i \in 1..Len(q) : n[i] = q[i]
  BY <1>1, <1>2
<1>6. ASSUME NEW i \in 1..Len(n) PROVE n[i].ref = RefOf(c, i)'
  <2>1. i \in 1..Len(q) \/ i = Len(q) + 1
    BY <1>5
  <2> QED
    BY <1>1, <1>3, <1>4, <1>5, <2>1
<1> QED
  BY <1>5, <1>6 DEF q, n

\* A request that is answered as soon as it is read.
LEMMA AnswerAtOnce ==
  ASSUME ConnInv, NEW c \in Conn, Ready(c), Consume(c), NEW ref \in Nat, NEW ok \in BOOLEAN,
         ref = (IF Next1(c).kind = "malformed" THEN 0 ELSE nread[c] + 1),
         Answer(c, ref, ok, <<>>), UNCHANGED <<asked, job, peer>>
  PROVE  ConnInv'
<1>1. /\ ConnTypeOK /\ InTurn(c) /\ nread \in [Conn -> Nat] /\ nread[c] \in Nat
      /\ asked[c] \in Seq(Request[c]) /\ Len(asked[c]) \in Nat
      /\ replies[c] \in Seq(Reply) /\ Len(replies[c]) \in Nat
  <2>1. ConnTypeOK /\ InTurn(c)
    BY DEF ConnInv
  <2>2. asked[c] \in Seq(Request[c]) /\ replies[c] \in Seq(Reply)
    BY <2>1 DEF InTurn, ConnTypeOK
  <2>3. Len(asked[c]) \in Nat /\ Len(replies[c]) \in Nat
    BY <2>2
  <2> QED
    BY <2>1, <2>2, <2>3 DEF ConnTypeOK
<1>2. live[c] /\ job[c] = None /\ nread[c] < Len(asked[c])
  BY DEF Ready
<1>3. Len(replies[c]) = nread[c]
  BY <1>1, <1>2 DEF InTurn
<1>4. nread' = [nread EXCEPT ![c] = nread[c] + 1] /\ asked' = asked /\ job' = job /\ peer' = peer
  BY DEF Consume
<1>5. /\ nread'[c] = nread[c] + 1 /\ nread' \in [Conn -> Nat]
      /\ \A d \in Conn \ {c} : nread'[d] = nread[d]
  BY <1>1, <1>4
<1>6. /\ replies' \in [Conn -> Seq(Reply)] /\ live' \in [Conn -> BOOLEAN]
      /\ \A d \in Conn \ {c} : replies'[d] = replies[d] /\ live'[d] = live[d]
      /\ \/ /\ live'[c] = live[c]
            /\ replies'[c] = Append(replies[c], [ref |-> ref, ok |-> ok, body |-> <<>>])
         \/ ~live'[c] /\ replies'[c] = replies[c]
  <2>1. <<>> \in Seq(Data)
    OBVIOUS
  <2> QED
    BY <1>1, <2>1, AnswerEffect
<1>7. ConnTypeOK'
  BY <1>1, <1>4, <1>5, <1>6 DEF ConnTypeOK
<1>8. \A d \in Conn \ {c} : InTurn(d)'
  BY <1>4, <1>5, <1>6, OthersInTurn
<1>9. InTurn(c)'
  <2>1. /\ asked'[c] = asked[c] /\ job'[c] = None /\ nread'[c] <= Len(asked'[c])
        /\ Len(asked'[c]) <= MaxAsk[c]
    BY <1>1, <1>2, <1>4, <1>5 DEF InTurn
  <2>2. CASE ~live'[c] /\ replies'[c] = replies[c]
    <3>1. Len(replies'[c]) <= nread'[c]
      BY ONLY <1>1, <1>3, <1>5, <2>2
    <3>2. ASSUME NEW i \in 1..Len(replies'[c]) PROVE replies'[c][i].ref = RefOf(c, i)'
      BY <1>1, <2>1, <2>2 DEF InTurn, RefOf
    <3> QED
      BY <1>1, <2>1, <2>2, <3>1, <3>2 DEF InTurn
  <2>3. CASE /\ live'[c] = live[c]
             /\ replies'[c] = Append(replies[c], [ref |-> ref, ok |-> ok, body |-> <<>>])
    <3>1. ref = RefOf(c, Len(replies[c]) + 1)
      BY <1>3 DEF RefOf, Next1
    <3>2. <<>> \in Seq(Data)
      OBVIOUS
    <3>3. /\ Len(replies'[c]) = Len(replies[c]) + 1
          /\ \A i \in 1..Len(replies'[c]) : replies'[c][i].ref = RefOf(c, i)'
      BY <1>1, <1>4, <2>3, <3>1, <3>2, AppendInOrder
    <3> QED
      BY <1>1, <1>3, <1>5, <2>1, <3>3 DEF InTurn
  <2> QED
    BY <1>6, <2>2, <2>3
<1> QED
  BY <1>7, <1>8, <1>9 DEF ConnInv

\* The client sends a request, stops reading, or closes.
LEMMA ClientStep ==
  ASSUME IInv, NEW c \in Conn, Ask(c) \/ PeerClose(c) \/ PeerStalls(c)
  PROVE  IInv' /\ mem' = mem
<1>1. ConnTypeOK /\ InTurn(c) /\ asked[c] \in Seq(Request[c]) /\ asked[c] \in Seq(AnyRequest)
  BY DEF IInv, ConnInv, ConnTypeOK, InTurn
<1>2. CASE Ask(c)
  <2>1. PICK r \in Request[c] : asked' = [asked EXCEPT ![c] = Append(asked[c], r)]
    BY <1>2 DEF Ask
  <2>2. Len(asked[c]) < MaxAsk[c] /\ UNCHANGED <<storeVars, nread, job, replies, peer, live>>
    BY <1>2 DEF Ask
  <2>3. r \in AnyRequest
    BY DEF AnyRequest
  <2>4. asked'[c] = Append(asked[c], r) /\ \A d \in Conn \ {c} : asked'[d] = asked[d]
    BY <1>1, <2>1 DEF ConnTypeOK
  <2>5. /\ asked'[c] \in Seq(Request[c]) /\ asked'[c] \in Seq(AnyRequest)
        /\ Len(asked'[c]) = Len(asked[c]) + 1 /\ Len(asked[c]) \in Nat
        /\ \A i \in 1..Len(asked[c]) : asked'[c][i] = asked[c][i]
    <3> DEFINE q == asked[c]
               S == Request[c]
    <3>1. q \in Seq(S) /\ q \in Seq(AnyRequest) /\ asked'[c] = Append(q, r) /\ r \in S
      BY <1>1, <2>4
    <3> HIDE DEF q, S
    <3>2. /\ Append(q, r) \in Seq(S) /\ Len(Append(q, r)) = Len(q) + 1 /\ Len(q) \in Nat
          /\ \A i \in 1..Len(q) : Append(q, r)[i] = q[i]
      BY ONLY <3>1, AppendCases
    <3>3. Append(q, r) \in Seq(AnyRequest)
      BY ONLY <2>3, <3>1, AppendCases
    <3> QED
      BY <3>1, <3>2, <3>3 DEF q, S
  <2>6. ConnTypeOK'
    BY <1>1, <2>1, <2>2, <2>4, <2>5 DEF ConnTypeOK
  <2>7. \A d \in Conn \ {c} : InTurn(d)'
    BY <2>2, <2>4, OthersInTurn DEF IInv
  <2>8. MaxAsk[c] \in Nat /\ nread[c] \in Nat /\ Len(replies[c]) \in Nat
    <3>1. replies[c] \in Seq(Reply)
      BY <1>1 DEF ConnTypeOK
    <3> QED
      BY <1>1, <3>1, DispatchConstants DEF ConnTypeOK
  <2>9. Len(replies[c]) <= nread[c] /\ nread[c] <= Len(asked[c])
    BY <1>1 DEF InTurn
  <2>10. Len(asked'[c]) <= MaxAsk[c] /\ nread[c] <= Len(asked'[c])
    BY <2>2, <2>5, <2>8, <2>9
  <2>11. \A i \in 1..Len(replies[c]) : i \in 1..Len(asked[c])
    BY <2>5, <2>8, <2>9
  <2>12. nread[c] > 0 => nread[c] \in 1..Len(asked[c])
    BY <2>5, <2>8, <2>9
  <2>13. InTurn(c)'
    BY <1>1, <2>2, <2>5, <2>9, <2>10, <2>11, <2>12 DEF InTurn, RefOf, Current
  <2>14. StoreTypeOK' /\ mem' = mem
    BY <2>2 DEF IInv, StoreTypeOK, storeVars
  <2> QED
    BY <2>6, <2>7, <2>13, <2>14 DEF IInv, ConnInv
<1>3. CASE PeerClose(c) \/ PeerStalls(c)
  <2>1. /\ UNCHANGED <<storeVars, asked, nread, job, replies, live>>
        /\ peer' \in [Conn -> Peer]
    BY <1>1, <1>3 DEF PeerClose, PeerStalls, ConnTypeOK, Peer
  <2>2. ConnTypeOK'
    BY <1>1, <2>1 DEF ConnTypeOK
  <2>3. \A d \in Conn : InTurn(d)'
    BY <2>1 DEF IInv, ConnInv, InTurn, RefOf, Current
  <2>4. StoreTypeOK' /\ mem' = mem
    BY <2>1 DEF IInv, StoreTypeOK, storeVars
  <2> QED
    BY <2>2, <2>3, <2>4 DEF IInv, ConnInv
<1> QED
  BY <1>2, <1>3

\* The loop ends, or begins a read or write.
LEMMA RecvErrorStep ==
  ASSUME IInv, NEW c \in Conn, RecvError(c)
  PROVE  IInv' /\ mem' = mem
<1>1. /\ ConnTypeOK /\ InTurn(c) /\ live[c] /\ job[c] = None
      /\ live' = [live EXCEPT ![c] = FALSE]
      /\ UNCHANGED <<storeVars, asked, nread, job, replies, peer>>
  BY DEF IInv, ConnInv, RecvError
<1>2. /\ live' \in [Conn -> BOOLEAN] /\ ~live'[c] /\ \A d \in Conn \ {c} : live'[d] = live[d]
  BY <1>1 DEF ConnTypeOK
<1>3. ConnTypeOK'
  BY <1>1, <1>2 DEF ConnTypeOK
<1>4. \A d \in Conn \ {c} : InTurn(d)'
  BY <1>1, <1>2, OthersInTurn DEF IInv
<1>5. InTurn(c)'
  BY <1>1, <1>2 DEF InTurn, RefOf, Current
<1>6. StoreTypeOK' /\ mem' = mem
  BY <1>1 DEF IInv, StoreTypeOK, storeVars
<1> QED
  BY <1>3, <1>4, <1>5, <1>6 DEF IInv, ConnInv

\* A read or write is decoded.
LEMMA StartJobStep ==
  ASSUME IInv, NEW c \in Conn, StartJob(c)
  PROVE  IInv' /\ mem' = mem
<1> DEFINE j == [done |-> 0, got |-> <<>>]
<1>1. /\ ConnTypeOK /\ InTurn(c) /\ live[c] /\ job[c] = None /\ nread[c] < Len(asked[c])
      /\ Next1(c).kind \in {"read", "write"}
      /\ nread' = [nread EXCEPT ![c] = nread[c] + 1] /\ job' = [job EXCEPT ![c] = j]
      /\ UNCHANGED <<storeVars, asked, replies, peer, live>>
  BY DEF IInv, ConnInv, StartJob, Ready, Consume
<1>2. j \in Job
  <2>1. <<>> \in Seq(Data)
    OBVIOUS
  <2> QED
    BY <2>1 DEF Job
<1> HIDE DEF j
<1>3. /\ nread' \in [Conn -> Nat] /\ job' \in [Conn -> Job \cup {None}]
      /\ nread'[c] = nread[c] + 1 /\ job'[c] = j /\ nread[c] \in Nat
      /\ \A d \in Conn \ {c} : nread'[d] = nread[d] /\ job'[d] = job[d]
  BY <1>1, <1>2 DEF ConnTypeOK
<1>4. j # None
  BY <1>2, DispatchConstants
<1>5. ConnTypeOK'
  BY <1>1, <1>3 DEF ConnTypeOK
<1>6. \A d \in Conn \ {c} : InTurn(d)'
  BY <1>1, <1>3, OthersInTurn DEF IInv
<1>7. InTurn(c)'
  <2>1. asked[c] \in Seq(Request[c]) /\ replies[c] \in Seq(Reply)
    BY <1>1 DEF InTurn, ConnTypeOK
  <2>2. Len(asked[c]) \in Nat /\ Len(replies[c]) \in Nat
    BY <2>1
  <2>3. Len(replies[c]) = nread[c]
    BY <1>1, <1>3, <2>2 DEF InTurn
  <2>4. /\ nread'[c] <= Len(asked[c]) /\ Len(replies[c]) <= nread'[c] /\ nread'[c] > 0
        /\ Len(replies[c]) = nread'[c] - 1
    BY <1>1, <1>3, <2>2, <2>3
  <2>5. Current(c)'.kind \in {"read", "write"}
    BY <1>1, <1>3 DEF Current, Next1
  <2> QED
    BY <1>1, <1>3, <1>4, <2>4, <2>5 DEF InTurn, RefOf
<1>8. StoreTypeOK' /\ mem' = mem
  BY <1>1 DEF IInv, StoreTypeOK, storeVars
<1> QED
  BY <1>5, <1>6, <1>7, <1>8 DEF IInv, ConnInv

\* The item that comes next was decoded to an area and offsets of it.
LEMMA ItemDecoded ==
  ASSUME IInv, NEW c \in Conn, MoreItems(c)
  PROVE  /\ job[c] \in Job /\ job[c] # None /\ Current(c) \in Request[c]
         /\ job[c].done + 1 \in 1..Len(Current(c).items)
         /\ Item(c).area \in Area /\ Item(c).offs \in SUBSET Offset
         /\ Current(c).kind = "write" => Item(c).byte \in Byte
<1> DEFINE r == Current(c)
           n == job[c].done
<1>1. ConnTypeOK /\ InTurn(c) /\ job[c] # None /\ n < Len(r.items)
  BY DEF IInv, ConnInv, MoreItems
<1>2. job[c] \in Job /\ n \in Nat
  BY <1>1 DEF ConnTypeOK, Job
<1>3. r \in Request[c] /\ r.kind \in {"read", "write"}
  <2>1. asked[c] \in Seq(Request[c]) /\ nread[c] \in Nat /\ nread[c] <= Len(asked[c])
        /\ nread[c] > 0 /\ r.kind \in {"read", "write"}
    BY <1>1 DEF InTurn, ConnTypeOK
  <2>2. nread[c] \in 1..Len(asked[c])
    BY <2>1
  <2> QED
    BY <2>1, <2>2 DEF Current
<1>4. r.kind = "read" => r.items \in Seq([area : Area, offs : SUBSET Offset])
  BY <1>3, DispatchConstants
<1>5. r.kind = "write" => r.items \in Seq([area : Area, offs : SUBSET Offset, byte : Byte])
  BY <1>3, DispatchConstants
<1>6. Item(c) = r.items[n + 1]
  BY DEF Item
<1> HIDE DEF r, n
<1>7. CASE r.kind = "read"
  <2>1. Len(r.items) \in Nat
    BY <1>4, <1>7
  <2>2. n + 1 \in 1..Len(r.items)
    BY <1>1, <1>2, <2>1
  <2>3. r.items[n + 1] \in [area : Area, offs : SUBSET Offset]
    <3> DEFINE T == [area : Area, offs : SUBSET Offset]
               q == r.items
    <3>1. q \in Seq(T) /\ n + 1 \in 1..Len(q)
      BY <1>4, <1>7, <2>2
    <3> HIDE DEF T, q
    <3>2. q[n + 1] \in T
      BY <3>1
    <3> QED
      BY <3>2 DEF T, q
  <2>4. r.items[n + 1].area \in Area /\ r.items[n + 1].offs \in SUBSET Offset
    BY ONLY <2>3
  <2> QED
    BY ONLY <1>1, <1>2, <1>3, <1>6, <1>7, <2>2, <2>4, Zenon DEF r, n
<1>8. CASE r.kind = "write"
  <2>1. Len(r.items) \in Nat
    BY <1>5, <1>8
  <2>2. n + 1 \in 1..Len(r.items)
    BY <1>1, <1>2, <2>1
  <2>3. r.items[n + 1] \in [area : Area, offs : SUBSET Offset, byte : Byte]
    <3> DEFINE T == [area : Area, offs : SUBSET Offset, byte : Byte]
               q == r.items
    <3>1. q \in Seq(T) /\ n + 1 \in 1..Len(q)
      BY <1>5, <1>8, <2>2
    <3> HIDE DEF T, q
    <3>2. q[n + 1] \in T
      BY <3>1
    <3> QED
      BY <3>2 DEF T, q
  <2>4. /\ r.items[n + 1].area \in Area /\ r.items[n + 1].offs \in SUBSET Offset
        /\ r.items[n + 1].byte \in Byte
    BY ONLY <2>3
  <2> QED
    BY ONLY <1>1, <1>2, <1>3, <1>6, <1>8, <2>2, <2>4, Zenon DEF r, n
<1> QED
  BY <1>3, <1>7, <1>8

\* The job goes on to its next item.
LEMMA JobGoesOn ==
  ASSUME ConnInv, NEW c \in Conn, NEW j \in Job, job[c] # None, job' = [job EXCEPT ![c] = j],
         UNCHANGED <<asked, nread, replies, peer, live>>
  PROVE  ConnInv'
<1>1. /\ ConnTypeOK /\ InTurn(c) /\ job' \in [Conn -> Job \cup {None}] /\ job'[c] = j
      /\ \A d \in Conn \ {c} : job'[d] = job[d]
  BY DEF ConnInv, ConnTypeOK
<1>2. j # None
  BY DispatchConstants
<1>3. ConnTypeOK'
  BY <1>1 DEF ConnTypeOK
<1>4. \A d \in Conn \ {c} : InTurn(d)'
  BY <1>1, OthersInTurn
<1>5. InTurn(c)'
  BY <1>1, <1>2 DEF InTurn, RefOf, Current
<1> QED
  BY <1>3, <1>4, <1>5 DEF ConnInv

\* read_area of one item.
LEMMA ReadItemStep ==
  ASSUME IInv, NEW c \in Conn, ReadItem(c)
  PROVE  IInv' /\ mem' = mem
<1> DEFINE d == Snapshot(Item(c).area, Item(c).offs)
           j == [done |-> job[c].done + 1, got |-> Append(job[c].got, d)]
<1>1. /\ MoreItems(c) /\ ReadArea(c) /\ job' = [job EXCEPT ![c] = j]
      /\ UNCHANGED <<asked, nread, replies, peer, live>>
  BY DEF ReadItem
<1>2. /\ job[c] \in Job /\ job[c] # None
      /\ Item(c).area \in Area /\ Item(c).offs \in SUBSET Offset
  BY <1>1, ItemDecoded
<1>3. d \in Data
  <2>1. d \in [Item(c).offs -> Byte]
    BY <1>2 DEF Snapshot, IInv, StoreTypeOK
  <2> QED
    BY <1>2, <2>1 DEF Data
<1> HIDE DEF d
<1>4. j \in Job
  <2>1. job[c].done + 1 \in Nat /\ job[c].got \in Seq(Data)
    BY <1>2 DEF Job
  <2>2. Append(job[c].got, d) \in Seq(Data)
    BY <1>3, <2>1, AppendCases
  <2> QED
    BY <2>1, <2>2 DEF Job
<1> HIDE DEF j
<1>5. ConnInv'
  BY <1>1, <1>2, <1>4, JobGoesOn DEF IInv
<1>6. StoreTypeOK' /\ mem' = mem
  <2>1. <<>> \in Seq(Callback)
    OBVIOUS
  <2>2. Fire("read") \in Firing
    BY <2>1 DEF Fire, Firing, Kinds
  <2> QED
    BY <1>1, <2>2 DEF ReadArea, IInv, StoreTypeOK
<1> QED
  BY <1>5, <1>6 DEF IInv

\* write_area of one item, or of none of it when the area is locked.
LEMMA WriteItemStep ==
  ASSUME IInv, NEW c \in Conn, WriteItem(c)
  PROVE  /\ IInv'
         /\ Item(c).area \in Area /\ Item(c).offs \in SUBSET Offset
         /\ Item(c).area \in locked => mem' = mem
         /\ \A x \in Area \ {Item(c).area} : mem'[x] = mem[x]
         /\ \A o \in Offset : \/ mem'[Item(c).area][o] = mem[Item(c).area][o]
                              \/ o \in Item(c).offs /\ mem'[Item(c).area][o] = Item(c).byte
         /\ mem' = mem \/ \A o \in Item(c).offs : mem'[Item(c).area][o] = Item(c).byte
<1> DEFINE j == [job[c] EXCEPT !.done = job[c].done + 1]
<1>1. /\ MoreItems(c) /\ Current(c).kind = "write"
      /\ WriteArea(c, Item(c).area, [o \in Item(c).offs |-> Item(c).byte])
      /\ job' = [job EXCEPT ![c] = j]
      /\ UNCHANGED <<asked, nread, replies, peer, live>>
  BY DEF WriteItem
<1>2. /\ job[c] \in Job /\ job[c] # None /\ Item(c).byte \in Byte
      /\ Item(c).area \in Area /\ Item(c).offs \in SUBSET Offset
  BY <1>1, ItemDecoded
<1>3. j \in Job
  BY <1>2 DEF Job
<1> HIDE DEF j
<1>4. ConnInv'
  BY <1>1, <1>2, <1>3, JobGoesOn DEF IInv
<1>5. c \in Thread /\ StoreTypeOK
  BY DispatchConstants DEF IInv
<1> DEFINE a == Item(c).area
           os == Item(c).offs
           b == Item(c).byte
           data == [o \in os |-> b]
<1>6. /\ a \in Area /\ os \in SUBSET Offset /\ b \in Byte
      /\ data = [o \in os |-> b] /\ WriteArea(c, a, data)
  BY <1>1, <1>2
<1> HIDE DEF a, os, b, data
<1>7. /\ StoreTypeOK' /\ locked' = locked
      /\ a \in locked => mem' = mem
      /\ \A x \in Area \ {a} : mem'[x] = mem[x]
      /\ \A o \in Offset : mem'[a][o] = mem[a][o] \/ (o \in os /\ mem'[a][o] = b)
      /\ mem' = mem \/ \A o \in os : mem'[a][o] = b
  BY <1>5, <1>6, WriteKeepsStore
<1>8. IInv'
  BY <1>4, <1>7 DEF IInv
<1> QED
  BY ONLY <1>6, <1>7, <1>8, Zenon DEF a, os, b

\* The callbacks of an item.
LEMMA FireItemStep ==
  ASSUME IInv, NEW c \in Conn, FireItem(c)
  PROVE  IInv' /\ mem' = mem
<1>1. c \in Thread /\ StoreTypeOK /\ (TakeCallbacks(c) \/ RestoreCallbacks(c)) /\ UNCHANGED connVars
  BY DispatchConstants DEF IInv, FireItem
<1>2. StoreTypeOK' /\ mem' = mem
  BY <1>1, FireKeepsStore
<1>3. ConnInv'
  BY <1>1, ConnUnchanged DEF IInv
<1> QED
  BY <1>2, <1>3 DEF IInv

\* The answer to a read or write.
LEMMA FinishJobStep ==
  ASSUME IInv, NEW c \in Conn, FinishJob(c)
  PROVE  IInv' /\ mem' = mem
<1>1. /\ ConnTypeOK /\ InTurn(c) /\ job[c] # None /\ job' = [job EXCEPT ![c] = None]
      /\ Answer(c, nread[c], TRUE, job[c].got) /\ UNCHANGED <<storeVars, asked, nread, peer>>
  BY DEF IInv, ConnInv, FinishJob
<1>2. /\ job[c] \in Job /\ job[c].got \in Seq(Data) /\ nread[c] \in Nat
      /\ job' \in [Conn -> Job \cup {None}] /\ job'[c] = None
      /\ \A d \in Conn \ {c} : job'[d] = job[d]
  BY <1>1 DEF ConnTypeOK, Job
<1>3. /\ replies' \in [Conn -> Seq(Reply)] /\ live' \in [Conn -> BOOLEAN]
      /\ \A d \in Conn \ {c} : replies'[d] = replies[d] /\ live'[d] = live[d]
      /\ \/ /\ live'[c] = live[c]
            /\ replies'[c] = Append(replies[c], [ref |-> nread[c], ok |-> TRUE, body |-> job[c].got])
         \/ ~live'[c] /\ replies'[c] = replies[c]
  <2> DEFINE n == nread[c]
             g == job[c].got
  <2>1. n \in Nat /\ g \in Seq(Data) /\ Answer(c, n, TRUE, g)
    BY <1>1, <1>2
  <2> HIDE DEF n, g
  <2>2. /\ replies' \in [Conn -> Seq(Reply)] /\ live' \in [Conn -> BOOLEAN]
        /\ \A d \in Conn \ {c} : replies'[d] = replies[d] /\ live'[d] = live[d]
        /\ \/ /\ live'[c] = live[c]
              /\ replies'[c] = Append(replies[c], [ref |-> n, ok |-> TRUE, body |-> g])
           \/ ~live'[c] /\ replies'[c] = replies[c]
    BY <1>1, <2>1, AnswerEffect
  <2> QED
    BY <2>2 DEF n, g
<1>4. ConnTypeOK'
  BY <1>1, <1>2, <1>3 DEF ConnTypeOK
<1>5. \A d \in Conn \ {c} : InTurn(d)'
  BY <1>1, <1>2, <1>3, OthersInTurn DEF IInv
<1>6. /\ live[c] /\ nread[c] > 0 /\ Current(c).kind \in {"read", "write"}
      /\ Len(replies[c]) = nread[c] - 1
  BY <1>1 DEF InTurn
<1>7. InTurn(c)'
  <2>1. CASE ~live'[c] /\ replies'[c] = replies[c]
    BY <1>1, <1>2, <2>1 DEF InTurn, RefOf
  <2>2. CASE /\ live'[c] = live[c]
             /\ replies'[c] = Append(replies[c], [ref |-> nread[c], ok |-> TRUE, body |-> job[c].got])
    <3>1. Len(replies[c]) + 1 = nread[c]
      BY ONLY <1>2, <1>6
    <3>2. nread[c] = RefOf(c, Len(replies[c]) + 1)
      BY <1>6, <3>1 DEF RefOf, Current
    <3>3. /\ Len(replies'[c]) = Len(replies[c]) + 1
          /\ \A i \in 1..Len(replies'[c]) : replies'[c][i].ref = RefOf(c, i)'
      BY <1>1, <1>2, <2>2, <3>2, AppendInOrder
    <3>4. Len(replies'[c]) = nread'[c] /\ nread'[c] = nread[c] /\ nread[c] <= nread[c] /\ nread[c] - 0 = nread[c]
      <4>1. Len(replies'[c]) = nread[c]
        BY ONLY <3>1, <3>3
      <4>2. nread'[c] = nread[c] /\ nread[c] \in Nat
        BY <1>1, <1>2
      <4> QED
        BY ONLY <4>1, <4>2
    <3> QED
      BY <1>1, <1>2, <3>3, <3>4 DEF InTurn
  <2> QED
    BY <1>3, <2>1, <2>2
<1>8. StoreTypeOK' /\ mem' = mem
  BY <1>1 DEF IInv, StoreTypeOK, storeVars
<1> QED
  BY <1>4, <1>5, <1>7, <1>8 DEF IInv, ConnInv

\* Requests that are answered as soon as they are read.
LEMMA ImmediateStep ==
  ASSUME IInv, NEW c \in Conn,
         Reject(c) \/ AckOnly(c) \/ QueryRequest(c) \/ ClockRequest(c)
  PROVE  IInv' /\ mem' = mem
<1>1. nread[c] + 1 \in Nat /\ 0 \in Nat
  BY DEF IInv, ConnInv, ConnTypeOK
<1>2. CASE Reject(c)
  <2> DEFINE ref == IF Next1(c).kind = "malformed" THEN 0 ELSE nread[c] + 1
  <2>1. ref \in Nat
    BY <1>1
  <2>2. Ready(c) /\ Consume(c) /\ Answer(c, ref, FALSE, <<>>) /\ UNCHANGED <<storeVars, asked, job, peer>>
    BY <1>2 DEF Reject
  <2>3. ref = IF Next1(c).kind = "malformed" THEN 0 ELSE nread[c] + 1
    OBVIOUS
  <2> HIDE DEF ref
  <2>4. ConnInv'
    BY <2>1, <2>2, <2>3, AnswerAtOnce DEF IInv
  <2>5. StoreTypeOK' /\ mem' = mem
    BY <2>2 DEF IInv, StoreTypeOK, storeVars
  <2> QED
    BY <2>4, <2>5 DEF IInv
<1>3. CASE AckOnly(c) \/ QueryRequest(c) \/ ClockRequest(c)
  <2>1. /\ Ready(c) /\ Consume(c) /\ Answer(c, nread[c] + 1, TRUE, <<>>) /\ UNCHANGED <<asked, job, peer>>
        /\ Next1(c).kind \in {"control", "query", "clock"}
    BY <1>3 DEF AckOnly, QueryRequest, ClockRequest
  <2>2. ConnInv'
    BY <1>1, <2>1, AnswerAtOnce DEF IInv
  <2>3. StoreTypeOK' /\ mem' = mem
    <3>1. CASE AckOnly(c) \/ QueryRequest(c)
      BY <3>1 DEF AckOnly, QueryRequest, IInv, StoreTypeOK, storeVars
    <3>2. CASE ClockRequest(c)
      <4>1. Next1(c) \in Request[c]
        <5>1. /\ asked[c] \in Seq(Request[c]) /\ nread[c] < Len(asked[c]) /\ nread[c] \in Nat
          BY <2>1 DEF Ready, IInv, ConnInv, ConnTypeOK, InTurn
        <5>2. nread[c] + 1 \in 1..Len(asked[c])
          BY ONLY <5>1
        <5>3. asked[c][nread[c] + 1] \in Request[c]
          BY ONLY <5>1, <5>2, EntryCases
        <5> QED
          BY <5>3 DEF Next1
      <4>2. Next1(c).clock \in Clock
        BY <3>2, <4>1, DispatchConstants DEF ClockRequest
      <4>3. clock' = Next1(c).clock /\ UNCHANGED <<mem, locked, cpu, callbacks, subscribed, call>>
        BY <3>2 DEF ClockRequest, SetClock
      <4> QED
        BY <4>2, <4>3 DEF IInv, StoreTypeOK
    <3> QED
      BY <1>3, <3>1, <3>2
  <2> QED
    BY <2>2, <2>3 DEF IInv
<1> QED
  BY <1>2, <1>3

-----------------------------------------------------------------------------
(* The theorems                                                            *)

\* Nothing asked, nothing answered, every loop running.
LEMMA DispatchInit == Init => IInv
<1> SUFFICES ASSUME Init PROVE IInv
  OBVIOUS
<1>1. StoreTypeOK
  <2>1. <<>> \in Seq(Callback)
    OBVIOUS
  <2>2. /\ mem = [a \in Area |-> [o \in Offset |-> 0]] /\ locked = {} /\ cpu = "stop"
        /\ clock \in Clock /\ callbacks = [k \in Kinds |-> <<>>]
        /\ subscribed = [k \in Kinds |-> {}] /\ call = [t \in Thread |-> None]
    BY DEF Init, StoreInit
  <2>3. mem \in [Area -> [Offset -> Byte]]
    BY <2>2, StoreConstants
  <2> QED
    BY <2>1, <2>2, <2>3 DEF StoreTypeOK
<1>2. /\ asked = [c \in Conn |-> <<>>] /\ nread = [c \in Conn |-> 0]
      /\ job = [c \in Conn |-> None] /\ replies = [c \in Conn |-> <<>>]
      /\ peer = [c \in Conn |-> "reads"] /\ live = [c \in Conn |-> TRUE]
  BY DEF Init
<1>3. ConnTypeOK
  <2>1. <<>> \in Seq(AnyRequest) /\ <<>> \in Seq(Reply)
    OBVIOUS
  <2> QED
    BY <1>2, <2>1 DEF ConnTypeOK, Peer
<1>4. ASSUME NEW c \in Conn PROVE InTurn(c)
  <2>1. asked[c] = <<>> /\ nread[c] = 0 /\ job[c] = None /\ replies[c] = <<>> /\ live[c]
    BY <1>2
  <2>2. /\ asked[c] \in Seq(Request[c]) /\ Len(asked[c]) = 0 /\ Len(replies[c]) = 0
        /\ 1..Len(replies[c]) = {}
    <3>1. <<>> \in Seq(Request[c])
      OBVIOUS
    <3> QED
      BY <2>1, <3>1, EmptyCases
  <2>3. MaxAsk[c] \in Nat
    BY DispatchConstants
  <2> QED
    BY <2>1, <2>2, <2>3 DEF InTurn
<1> QED
  BY <1>1, <1>3, <1>4 DEF IInv, ConnInv

\* The application's steps leave the connections alone.
LEMMA AppStepKeeps ==
  ASSUME IInv, NEW t \in App, AppStep(t)
  PROVE  IInv' /\ \A a \in Area : mem'[a] = mem[a] \/ mem'[a] = [o \in Offset |-> 0]
<1>1. t \in Thread /\ StoreTypeOK /\ Configure(t) /\ UNCHANGED connVars
  BY DEF App, IInv, AppStep
<1>2. StoreTypeOK' /\ \A a \in Area : mem'[a] = mem[a] \/ mem'[a] = [o \in Offset |-> 0]
  BY <1>1, ConfigureKeepsStore
<1>3. ConnInv'
  BY <1>1, ConnUnchanged DEF IInv
<1> QED
  BY <1>2, <1>3 DEF IInv

\* The steps that bear on memory: one item written, an area purged, or none.
LEMMA DispatchStep ==
  ASSUME IInv, [Next]_vars
  PROVE  /\ IInv'
         /\ \/ mem' = mem
            \/ \E c \in Conn : MoreItems(c) /\ Current(c).kind = "write" /\ WriteItem(c)
            \/ \A a \in Area : mem'[a] = mem[a] \/ mem'[a] = [o \in Offset |-> 0]
<1>1. ASSUME NEW c \in Conn, Ask(c) \/ PeerClose(c) \/ PeerStalls(c) PROVE IInv' /\ mem' = mem
  BY <1>1, ClientStep
<1>2. ASSUME NEW c \in Conn, Loop(c)
      PROVE  IInv' /\ (mem' = mem \/ (MoreItems(c) /\ Current(c).kind = "write" /\ WriteItem(c)))
  <2>1. CASE RecvError(c)
    BY <2>1, RecvErrorStep
  <2>2. CASE Reject(c) \/ AckOnly(c) \/ QueryRequest(c) \/ ClockRequest(c)
    BY <2>2, ImmediateStep
  <2>3. CASE StartJob(c)
    BY <2>3, StartJobStep
  <2>4. CASE ReadItem(c)
    BY <2>4, ReadItemStep
  <2>5. CASE WriteItem(c)
    <3>1. IInv'
      BY <2>5, WriteItemStep
    <3>2. MoreItems(c) /\ Current(c).kind = "write"
      BY <2>5 DEF WriteItem
    <3> QED
      BY <2>5, <3>1, <3>2
  <2>6. CASE FireItem(c)
    BY <2>6, FireItemStep
  <2>7. CASE FinishJob(c)
    BY <2>7, FinishJobStep
  <2> QED
    BY <1>2, <2>1, <2>2, <2>3, <2>4, <2>5, <2>6, <2>7 DEF Loop
<1>3. ASSUME NEW t \in App, AppStep(t)
      PROVE  IInv' /\ \A a \in Area : mem'[a] = mem[a] \/ mem'[a] = [o \in Offset |-> 0]
  BY <1>3, AppStepKeeps
<1>4. CASE UNCHANGED vars
  <2>1. StoreTypeOK' /\ mem' = mem
    BY <1>4 DEF vars, storeVars, IInv, StoreTypeOK
  <2>2. ConnInv'
    BY <1>4, ConnUnchanged DEF vars, IInv
  <2> QED
    BY <2>1, <2>2 DEF IInv
<1> QED
  BY <1>1, <1>2, <1>3, <1>4 DEF Next

\* The invariant, of every behaviour of the server and its clients.
THEOREM DispatchInvariant == Spec => []IInv
<1>1. IInv /\ [Next]_vars => IInv'
  BY DispatchStep
<1> QED
  BY <1>1, DispatchInit, PTL DEF Spec

\* The types of the store and of every connection's state.
THEOREM DispatchTypeCorrect == Spec => []TypeOK
<1>1. IInv => TypeOK
  <2> SUFFICES ASSUME IInv PROVE TypeOK
    OBVIOUS
  <2>1. ASSUME NEW c \in Conn
        PROVE  /\ asked[c] \in Seq(Request[c])
               /\ nread[c] \in 0..Len(asked[c]) /\ Len(asked[c]) <= MaxAsk[c]
               /\ job[c] # None => nread[c] > 0
               /\ \A i \in 1..Len(replies[c]) : replies[c][i].ref \in 0..MaxAsk[c]
    <3>1. /\ ConnTypeOK /\ InTurn(c) /\ asked[c] \in Seq(Request[c]) /\ replies[c] \in Seq(Reply)
          /\ nread[c] \in Nat
      BY DEF IInv, ConnInv, ConnTypeOK, InTurn
    <3>2. /\ Len(asked[c]) \in Nat /\ Len(replies[c]) \in Nat /\ MaxAsk[c] \in Nat
          /\ Len(replies[c]) <= nread[c] /\ nread[c] <= Len(asked[c]) /\ Len(asked[c]) <= MaxAsk[c]
      <4>1. MaxAsk[c] \in Nat
        BY DispatchConstants
      <4>2. Len(asked[c]) \in Nat /\ Len(replies[c]) \in Nat
        BY ONLY <3>1, EntryCases
      <4>3. Len(replies[c]) <= nread[c] /\ nread[c] <= Len(asked[c]) /\ Len(asked[c]) <= MaxAsk[c]
        BY ONLY <3>1 DEF InTurn
      <4> QED
        BY ONLY <4>1, <4>2, <4>3
    <3>3. ASSUME NEW i \in 1..Len(replies[c]) PROVE replies[c][i].ref \in 0..MaxAsk[c]
      <4>1. replies[c][i].ref = 0 \/ replies[c][i].ref = i
        BY <3>1 DEF InTurn, RefOf
      <4>2. 0 \in 0..MaxAsk[c] /\ i \in 0..MaxAsk[c]
        <5>1. Len(replies[c]) <= MaxAsk[c]
          BY ONLY <3>1, <3>2
        <5> QED
          BY ONLY <3>2, <5>1, i \in 1..Len(replies[c])
      <4> QED
        BY <4>1, <4>2
    <3>4. nread[c] \in 0..Len(asked[c])
      BY <3>1, <3>2
    <3> QED
      BY <3>1, <3>2, <3>3, <3>4 DEF InTurn
  <2> QED
    BY <2>1 DEF IInv, ConnInv, ConnTypeOK, TypeOK
<1> QED
  BY <1>1, DispatchInvariant, PTL

\* Answers come in order, one for each request read and with its pdu_ref,
\* on any number of connections that share the store with any number of
\* threads: dispatch_loop answers before it reads again.
THEOREM DispatchAnswersInOrder == Spec => []AnswersInOrder
<1>1. IInv => AnswersInOrder
  BY DEF IInv, ConnInv, InTurn, RefOf, AnswersInOrder
<1> QED
  BY <1>1, DispatchInvariant, PTL

\* While an area is locked its bytes change only by being purged, whatever was
\* under way when it was locked: write_area looks at locked_areas under the
\* same lock under which it writes, for each item anew.
THEOREM DispatchLockedFrozen == Spec => LockedAreaFrozen
<1> DEFINE Frozen == \A a \in locked : mem'[a] # mem[a] => \A o \in Offset : mem'[a][o] = 0
<1>1. IInv /\ [Next]_vars => [Frozen]_vars
  <2> SUFFICES ASSUME IInv, [Next]_vars, NEW a \in locked, mem'[a] # mem[a], NEW o \in Offset
               PROVE  mem'[a][o] = 0
    OBVIOUS
  <2>1. a \in Area
    BY DEF IInv, StoreTypeOK
  <2>2. CASE mem' = mem
    BY <2>2
  <2>3. ASSUME NEW c \in Conn, WriteItem(c) PROVE FALSE
    <3>1. /\ Item(c).area \in locked => mem' = mem
          /\ \A x \in Area \ {Item(c).area} : mem'[x] = mem[x]
      BY <2>3, WriteItemStep
    <3> QED
      BY <2>1, <3>1
  <2>4. CASE \A x \in Area : mem'[x] = mem[x] \/ mem'[x] = [p \in Offset |-> 0]
    BY <2>1, <2>4
  <2> QED
    BY <2>2, <2>3, <2>4, DispatchStep
<1> QED
  BY <1>1, DispatchInvariant, PTL DEF Spec, LockedAreaFrozen

-----------------------------------------------------------------------------
(* Torn items                                                              *)

\* Everything that is read as one item was written as one value, and so is
\* what was read of it.
Even(d) == \A o, p \in DOMAIN d : d[o] = d[p]
EvenMem ==
  \A c \in Conn : \A r \in Request[c] : r.kind = "read" =>
    \A i \in 1..Len(r.items) : \A o, p \in r.items[i].offs :
      mem[r.items[i].area][o] = mem[r.items[i].area][p]
EvenJobs ==
  \A c \in Conn : job[c] # None => \A j \in 1..Len(job[c].got) : Even(job[c].got[j])
EvenInv == EvenMem /\ EvenJobs /\ NoTornItem

\* write_area covers an item or misses it, and purging makes all bytes zero.
LEMMA MemoryStaysEven ==
  ASSUME ItemsAligned, IInv, EvenMem, [Next]_vars
  PROVE  EvenMem'
<1> SUFFICES ASSUME NEW c \in Conn, NEW r \in Request[c], r.kind = "read", NEW i \in 1..Len(r.items),
                    NEW o \in r.items[i].offs, NEW p \in r.items[i].offs
             PROVE  mem'[r.items[i].area][o] = mem'[r.items[i].area][p]
  BY DEF EvenMem
<1> DEFINE a == r.items[i].area
           X == r.items[i].offs
<1>1. mem[a][o] = mem[a][p] /\ o \in X /\ p \in X
  BY DEF EvenMem
<1>2. a \in Area /\ X \in SUBSET Offset
  <2> DEFINE T == [area : Area, offs : SUBSET Offset]
             q == r.items
  <2>1. q \in Seq(T) /\ i \in 1..Len(q)
    BY DispatchConstants
  <2> HIDE DEF T, q
  <2>2. q[i] \in T
    BY ONLY <2>1, EntryCases
  <2> QED
    BY <2>2 DEF T, q
<1>3. CASE mem' = mem
  BY <1>1, <1>3
<1>4. ASSUME NEW d \in Conn, MoreItems(d), Current(d).kind = "write", WriteItem(d)
      PROVE  mem'[a][o] = mem'[a][p]
  <2> DEFINE b == Item(d).area
             os == Item(d).offs
             v == Item(d).byte
  <2>1. /\ \A x \in Area \ {b} : mem'[x] = mem[x]
        /\ \A z \in Offset : mem'[b][z] = mem[b][z] \/ (z \in os /\ mem'[b][z] = v)
        /\ mem' = mem \/ \A z \in os : mem'[b][z] = v
    BY <1>4, WriteItemStep
  <2>2. a = b => X \subseteq os \/ \A z \in X : z \notin os
    <3>1. Current(d) \in Request[d] /\ job[d].done + 1 \in 1..Len(Current(d).items)
      BY <1>4, ItemDecoded
    <3> QED
      BY <1>4, <3>1 DEF ItemsAligned, Item
  <2> HIDE DEF a, X, b, os, v
  <2>3. CASE a # b
    BY <1>1, <1>2, <2>1, <2>3
  <2>4. CASE a = b /\ X \subseteq os
    BY <1>1, <2>1, <2>4
  <2>5. CASE a = b /\ \A z \in X : z \notin os
    BY <1>1, <1>2, <2>1, <2>5
  <2> QED
    BY <2>2, <2>3, <2>4, <2>5
<1>5. CASE \A x \in Area : mem'[x] = mem[x] \/ mem'[x] = [z \in Offset |-> 0]
  <2>1. o \in Offset /\ p \in Offset
    BY <1>2
  <2>2. mem'[a] = mem[a] \/ mem'[a] = [z \in Offset |-> 0]
    BY <1>2, <1>5
  <2> HIDE DEF a
  <2>3. mem'[a][o] = mem'[a][p]
    BY <1>1, <2>1, <2>2
  <2> QED
    BY <2>3 DEF a
<1> QED
  BY <1>3, <1>4, <1>5, DispatchStep

\* Answers that were even stay so.
LEMMA SameAnswersEven ==
  ASSUME NoTornItem, replies' = replies
  PROVE  NoTornItem'
<1> SUFFICES ASSUME NEW c \in Conn, NEW i \in 1..Len(replies'[c]), NEW j \in 1..Len(replies'[c][i].body),
                    NEW o \in DOMAIN replies'[c][i].body[j], NEW p \in DOMAIN replies'[c][i].body[j]
             PROVE  replies'[c][i].body[j][o] = replies'[c][i].body[j][p]
  BY DEF NoTornItem
<1>1. i \in 1..Len(replies[c]) /\ j \in 1..Len(replies[c][i].body)
  OBVIOUS
<1>2. o \in DOMAIN replies[c][i].body[j] /\ p \in DOMAIN replies[c][i].body[j]
  OBVIOUS
<1> QED
  BY <1>1, <1>2 DEF NoTornItem

\* An answer made of even items.
LEMMA AnswerStaysEven ==
  ASSUME ConnTypeOK, NoTornItem, NEW c \in Conn, NEW ref \in Nat, NEW ok \in BOOLEAN,
         NEW body \in Seq(Data), \A j \in 1..Len(body) : Even(body[j]), Answer(c, ref, ok, body)
  PROVE  NoTornItem'
<1> DEFINE r == [ref |-> ref, ok |-> ok, body |-> body]
<1>1. /\ \A d \in Conn \ {c} : replies'[d] = replies[d]
      /\ replies'[c] = replies[c] \/ replies'[c] = Append(replies[c], r)
  BY AnswerEffect
<1>2. replies[c] \in Seq(Reply) /\ r \in Reply /\ r.body = body
  BY DEF ConnTypeOK, Reply
<1> HIDE DEF r
<1>3. \A d \in Conn : \A i \in 1..Len(replies[d]) : \A j \in 1..Len(replies[d][i].body) :
        Even(replies[d][i].body[j])
  BY DEF NoTornItem, Even
<1>4. ASSUME NEW d \in Conn, NEW i \in 1..Len(replies'[d]), NEW j \in 1..Len(replies'[d][i].body)
      PROVE  Even(replies'[d][i].body[j])
  <2>1. (i \in 1..Len(replies[d]) /\ replies'[d][i] = replies[d][i]) \/ replies'[d][i] = r
    <3>1. CASE replies'[d] = replies[d]
      BY <3>1
    <3>2. CASE d = c /\ replies'[c] = Append(replies[c], r)
      <4> DEFINE q == replies[c]
                 w == replies'[c]
      <4>1. q \in Seq(Reply) /\ r \in Reply /\ w = Append(q, r) /\ i \in 1..Len(w)
        BY <1>2, <3>2
      <4> HIDE DEF q, w
      <4>2. (i \in 1..Len(q) /\ w[i] = q[i]) \/ w[i] = r
        BY ONLY <4>1, AppendCases
      <4> QED
        BY <3>2, <4>2 DEF q, w
    <3> QED
      BY <1>1, <3>1, <3>2
  <2> QED
    BY <1>2, <1>3, <2>1
<1> QED
  BY <1>4 DEF NoTornItem, Even

\* A read job collects snapshots, an answer passes them on.
LEMMA AnswersStayEven ==
  ASSUME IInv, EvenInv, [Next]_vars
  PROVE  EvenJobs' /\ NoTornItem'
<1>1. ConnTypeOK /\ EvenMem /\ EvenJobs /\ NoTornItem
  BY DEF IInv, ConnInv, EvenInv
<1>2. CASE UNCHANGED <<job, replies>>
  <2>1. EvenJobs'
    BY <1>1, <1>2 DEF EvenJobs
  <2> QED
    BY <1>1, <1>2, <2>1, SameAnswersEven
<1>3. ASSUME NEW c \in Conn, NEW ref \in Nat, NEW ok \in BOOLEAN, Answer(c, ref, ok, <<>>), job' = job
      PROVE  EvenJobs' /\ NoTornItem'
  <2>1. <<>> \in Seq(Data) /\ \A j \in 1..Len(<<>>) : Even(<<>>[j])
    BY EmptyCases
  <2>2. NoTornItem'
    BY <1>1, <1>3, <2>1, AnswerStaysEven
  <2> QED
    BY <1>1, <1>3, <2>2 DEF EvenJobs
<1>4. ASSUME NEW c \in Conn, StartJob(c) \/ ReadItem(c) \/ WriteItem(c)
      PROVE  EvenJobs' /\ NoTornItem'
  <2>1. NoTornItem'
    <3>1. replies' = replies
      BY <1>4 DEF StartJob, ReadItem, WriteItem
    <3> QED
      BY <1>1, <3>1, SameAnswersEven
  <2>2. PICK j : job' = [job EXCEPT ![c] = j] /\ \A k \in 1..Len(j.got) : Even(j.got[k])
    <3>1. CASE StartJob(c)
      <4> DEFINE j == [done |-> 0, got |-> <<>>]
      <4>1. job' = [job EXCEPT ![c] = j]
        BY <3>1 DEF StartJob
      <4>2. 1..Len(j.got) = {}
        BY EmptyCases
      <4> QED
        BY <4>1, <4>2
    <3>2. CASE ReadItem(c)
      <4> DEFINE d == Snapshot(Item(c).area, Item(c).offs)
                 g == Append(job[c].got, d)
                 j == [done |-> job[c].done + 1, got |-> g]
      <4>1. job' = [job EXCEPT ![c] = j] /\ MoreItems(c) /\ Current(c).kind = "read"
        BY <3>2 DEF ReadItem
      <4>2. /\ job[c] \in Job /\ job[c] # None /\ Current(c) \in Request[c]
            /\ job[c].done + 1 \in 1..Len(Current(c).items)
            /\ Item(c).area \in Area /\ Item(c).offs \in SUBSET Offset
        BY <4>1, ItemDecoded
      <4>3. Even(d)
        BY <1>1, <4>1, <4>2 DEF EvenMem, Even, Snapshot, Item
      <4>4. d \in Data
        <5>1. d \in [Item(c).offs -> Byte]
          BY <4>2 DEF Snapshot, IInv, StoreTypeOK
        <5> QED
          BY <4>2, <5>1 DEF Data
      <4>5. job[c].got \in Seq(Data) /\ \A k \in 1..Len(job[c].got) : Even(job[c].got[k])
        BY <1>1, <4>2 DEF EvenJobs, Job
      <4> HIDE DEF d
      <4>6. ASSUME NEW k \in 1..Len(g) PROVE Even(g[k])
        <5>1. (k \in 1..Len(job[c].got) /\ g[k] = job[c].got[k]) \/ g[k] = d
          <6> DEFINE q == job[c].got
          <6>1. q \in Seq(Data) /\ d \in Data /\ g = Append(q, d) /\ k \in 1..Len(g)
            BY <4>4, <4>5
          <6> HIDE DEF q, g
          <6>2. (k \in 1..Len(q) /\ g[k] = q[k]) \/ g[k] = d
            BY ONLY <6>1, AppendCases
          <6> QED
            BY <6>2 DEF q
        <5> QED
          BY <4>3, <4>5, <5>1
      <4> HIDE DEF g
      <4>7. j.got = g
        OBVIOUS
      <4> HIDE DEF j
      <4> QED
        BY <4>1, <4>6, <4>7
    <3>3. CASE WriteItem(c)
      <4> DEFINE j == [job[c] EXCEPT !.done = job[c].done + 1]
      <4>1. job' = [job EXCEPT ![c] = j] /\ MoreItems(c)
        BY <3>3 DEF WriteItem
      <4>2. job[c] \in Job /\ job[c] # None
        BY <4>1, ItemDecoded
      <4>3. j.got = job[c].got
        BY <4>2 DEF Job
      <4> HIDE DEF j
      <4> QED
        BY <1>1, <4>1, <4>2, <4>3 DEF EvenJobs
    <3> QED
      BY <1>4, <3>1, <3>2, <3>3
  <2>3. job'[c] = j /\ \A d \in Conn \ {c} : job'[d] = job[d]
    BY <1>1, <2>2 DEF ConnTypeOK
  <2> QED
    BY <1>1, <2>1, <2>2, <2>3 DEF EvenJobs
<1>5. ASSUME NEW c \in Conn, FinishJob(c)
      PROVE  EvenJobs' /\ NoTornItem'
  <2> DEFINE n == nread[c]
             g == job[c].got
  <2>1. job[c] # None /\ job' = [job EXCEPT ![c] = None] /\ Answer(c, n, TRUE, g)
    BY <1>5 DEF FinishJob
  <2>2. n \in Nat /\ g \in Seq(Data) /\ \A j \in 1..Len(g) : Even(g[j])
    BY <1>1, <2>1 DEF ConnTypeOK, Job, EvenJobs
  <2>3. NoTornItem'
    <3> HIDE DEF n, g
    <3> QED
      BY <1>1, <2>1, <2>2, AnswerStaysEven
  <2>4. EvenJobs'
    BY <1>1, <2>1 DEF EvenJobs, ConnTypeOK
  <2> QED
    BY <2>3, <2>4
<1>6. ASSUME NEW c \in Conn, Reject(c) \/ AckOnly(c) \/ QueryRequest(c) \/ ClockRequest(c)
      PROVE  EvenJobs' /\ NoTornItem'
  <2>1. nread[c] + 1 \in Nat
    BY <1>1 DEF ConnTypeOK
  <2>2. PICK ref \in Nat, ok \in BOOLEAN : Answer(c, ref, ok, <<>>)
    <3>1. CASE Reject(c)
      <4> DEFINE ref == IF Next1(c).kind = "malformed" THEN 0 ELSE nread[c] + 1
      <4>1. ref \in Nat /\ Answer(c, ref, FALSE, <<>>)
        BY <2>1, <3>1 DEF Reject
      <4> HIDE DEF ref
      <4> QED
        BY <4>1
    <3>2. CASE AckOnly(c) \/ QueryRequest(c) \/ ClockRequest(c)
      <4>1. Answer(c, nread[c] + 1, TRUE, <<>>)
        BY <3>2 DEF AckOnly, QueryRequest, ClockRequest
      <4> QED
        BY <2>1, <4>1
    <3> QED
      BY <1>6, <3>1, <3>2
  <2>3. job' = job
    BY <1>6 DEF Reject, AckOnly, QueryRequest, ClockRequest
  <2> QED
    BY <1>3, <2>2, <2>3
<1>7. ASSUME NEW c \in Conn, Ask(c) \/ PeerClose(c) \/ PeerStalls(c) \/ RecvError(c) \/ FireItem(c)
      PROVE  UNCHANGED <<job, replies>>
  BY <1>7 DEF Ask, PeerClose, PeerStalls, RecvError, FireItem, connVars
<1>8. ASSUME NEW t \in App, AppStep(t)
      PROVE  UNCHANGED <<job, replies>>
  BY <1>8 DEF AppStep, connVars
<1>9. CASE UNCHANGED vars
  BY <1>2, <1>9 DEF vars, connVars
<1> QED
  BY <1>2, <1>4, <1>5, <1>6, <1>7, <1>8, <1>9 DEF Next, Loop

\* No item of an answer is torn: with writes that fill what they cover with
\* one value, and reads and writes that do not overlap in part, every item is
\* read whole, however many connections write and whatever the application
\* locks or purges in between.
THEOREM DispatchNoTornItem == ItemsAligned => (Spec => []NoTornItem)
<1> SUFFICES ASSUME ItemsAligned PROVE Spec => []NoTornItem
  OBVIOUS
<1>1. Init => EvenInv
  <2> SUFFICES ASSUME Init PROVE EvenInv
    OBVIOUS
  <2>1. /\ mem = [a \in Area |-> [o \in Offset |-> 0]]
        /\ job = [c \in Conn |-> None] /\ replies = [c \in Conn |-> <<>>]
    BY DEF Init, StoreInit
  <2>2. EvenMem
    <3> SUFFICES ASSUME NEW c \in Conn, NEW r \in Request[c], r.kind = "read", NEW i \in 1..Len(r.items),
                        NEW o \in r.items[i].offs, NEW p \in r.items[i].offs
                 PROVE  mem[r.items[i].area][o] = mem[r.items[i].area][p]
      BY DEF EvenMem
    <3> DEFINE T == [area : Area, offs : SUBSET Offset]
               q == r.items
    <3>1. q \in Seq(T) /\ i \in 1..Len(q)
      BY DispatchConstants
    <3> HIDE DEF T, q
    <3>2. q[i] \in T
      BY ONLY <3>1, EntryCases
    <3>3. r.items[i].area \in Area /\ o \in Offset /\ p \in Offset
      BY <3>2 DEF T, q
    <3> QED
      BY <2>1, <3>3
  <2>3. EvenJobs
    BY <2>1 DEF EvenJobs
  <2>4. \A c \in Conn : 1..Len(replies[c]) = {}
    BY <2>1, EmptyCases
  <2> QED
    BY <2>2, <2>3, <2>4 DEF EvenInv, NoTornItem
<1>2. IInv /\ EvenInv /\ [Next]_vars => EvenInv'
  BY MemoryStaysEven, AnswersStayEven DEF EvenInv
<1>3. EvenInv => NoTornItem
  BY DEF EvenInv
<1> QED
  BY <1>1, <1>2, <1>3, DispatchInvariant, PTL DEF Spec
=============================================================================
