-------------------------- MODULE S7SessionProofs --------------------------
(***************************************************************************)
(* Proofs about S7Session, for every number of tasks, requests and         *)
(* transports and every width of pdu_ref.                                  *)
(***************************************************************************)
EXTENDS S7Session, FairQueueProofs, FiniteSetTheorems

-----------------------------------------------------------------------------
(* The inductive invariant                                                 *)

Queueing == Reading \cup {"ready", "swapping"}
Askers == {t \in Task : pc[t] = "ready"}
Dialers == {t \in Task : pc[t] \in {"dialing", "swapping"}}

\* The mutex.  A task is in the queue at most once, and one that is inside
\* an exchange is at its head: lock() is awaited before the request is sent
\* and the guard lives until the answer is read.
QueueInv ==
  /\ \A i \in 1..Len(queue) : pc[queue[i]] \in Queueing
  /\ \A i, j \in 1..Len(queue) : queue[i] = queue[j] => i = j
  /\ \A t \in Task : pc[t] \in Reading => Owns(t)

\* The bounds of the model are never what stops an exchange or a reconnect.
BoundInv ==
  /\ sent + Cardinality(Askers) <= MaxReq
  /\ link.nr + Cardinality(Dialers) <= MaxLink

\* r was made on transport nr, and when n requests were made and pdu_ref is
\* ref, its reference is as many requests behind as were made since, up to
\* wrap-around.
MadeOn(r, nr, n, ref) ==
  /\ r \in Request
  /\ r.nr = nr
  /\ r.id <= n
  /\ \E k \in Nat : r.ref + (n - r.id) = ref + k * RefMod
Current(r) == MadeOn(r, link.nr, sent, pduRef)

\* Whatever is on the stream, or waited for, belongs to the present
\* transport; what is waited for is the latest request.
StreamInv ==
  /\ half => toPlc # <<>>
  /\ \A i \in 1..Len(toPlc) : Current(toPlc[i])
  /\ \A i \in 1..Len(toClient) : Current(toClient[i].of)
  /\ \A t \in Task : pc[t] \in Reading => Current(inflight[t]) /\ inflight[t].id = sent

HeaderOf(r) == [part |-> "header", of |-> r]
RuntOf(r) == [part |-> "runt", of |-> r]
RestsOf(r) == {[part |-> p, of |-> r] : p \in {"payload", "garbled"}}

\* The stream is empty.
Silent == toPlc = <<>> /\ toClient = <<>> /\ ~half

\* The stream holds what is left of one exchange for r, in which the reader
\* has come to the given stage.  A broken connection may have taken any end
\* of it.
OneExchange(r, stage) ==
  \/ stage = "header" /\ toPlc = <<r>> /\ ~half /\ toClient = <<>>
  \/ stage = "header" /\ toPlc = <<r>> /\ half /\ toClient = <<HeaderOf(r)>>
  \/ stage = "payload" /\ toPlc = <<r>> /\ half /\ toClient = <<>>
  \/ stage = "header" /\ toPlc = <<>> /\ ~half
       /\ toClient \in {<<>>, <<HeaderOf(r)>>, <<RuntOf(r)>>} \cup {<<HeaderOf(r), p>> : p \in RestsOf(r)}
  \/ stage = "payload" /\ toPlc = <<>> /\ ~half /\ toClient \in {<<>>} \cup {<<p>> : p \in RestsOf(r)}

\* A client that is connected and had no future dropped is in step with its
\* PLC: nothing is on the stream but the exchange of the task that owns the mutex.
InStep ==
  connected /\ ~dropped =>
    /\ (\A t \in Task : pc[t] \notin Reading) => Silent
    /\ \A t \in Task : pc[t] \in Reading => OneExchange(inflight[t], pc[t])

\* RefTellsAnswersApart without a bound on the number of requests: the answer is
\* less than RefMod requests late.
LateAnswersTold ==
  last # None /\ last.got.id # last.asked.id =>
    /\ last.got.id < last.asked.id
    /\ last.asked.id - last.got.id < RefMod => last.got.ref # last.asked.ref

IInv ==
  /\ TypeOK /\ QueueInv /\ BoundInv /\ StreamInv /\ InStep
  /\ TrustWhileConnected /\ NothingFromOldTransport /\ LateAnswersTold

-----------------------------------------------------------------------------
(* Counting tasks                                                          *)

In(f, X) == {u \in Task : f[u] \in X}

\* How the number of tasks in some stages changes when one task moves.
LEMMA CountMove ==
  ASSUME NEW f \in [Task -> Stages], NEW X, NEW t \in Task, NEW s \in Stages
  PROVE  LET g == [f EXCEPT ![t] = s] IN
         /\ Cardinality(In(f, X)) \in Nat
         /\ (f[t] \in X <=> s \in X) => Cardinality(In(g, X)) = Cardinality(In(f, X))
         /\ f[t] \notin X /\ s \in X => Cardinality(In(g, X)) = Cardinality(In(f, X)) + 1
         /\ f[t] \in X /\ s \notin X => Cardinality(In(g, X)) = Cardinality(In(f, X)) - 1
<1> DEFINE g == [f EXCEPT ![t] = s]
           A == In(f, X)
           B == In(g, X)
<1>1. IsFiniteSet(Task) /\ A \in SUBSET Task
  BY SessionConstants DEF In
<1>2. IsFiniteSet(A) /\ Cardinality(A) \in Nat
  BY <1>1, FS_Subset, FS_CardinalityType
<1>3. /\ (f[t] \in X <=> s \in X) => B = A
      /\ f[t] \notin X /\ s \in X => B = A \cup {t} /\ t \notin A
      /\ f[t] \in X /\ s \notin X => B = A \ {t} /\ t \in A
  BY DEF In
<1> HIDE DEF A, B, g
<1>4. t \notin A => Cardinality(A \cup {t}) = Cardinality(A) + 1
  BY <1>2, FS_AddElement
<1>5. t \in A => Cardinality(A \ {t}) = Cardinality(A) - 1
  BY <1>2, FS_RemoveElement
<1>6. /\ (f[t] \in X <=> s \in X) => Cardinality(B) = Cardinality(A)
      /\ f[t] \notin X /\ s \in X => Cardinality(B) = Cardinality(A) + 1
      /\ f[t] \in X /\ s \notin X => Cardinality(B) = Cardinality(A) - 1
  BY ONLY <1>3, <1>4, <1>5, Zenon
<1> QED
  BY ONLY <1>2, <1>6, Zenon DEF A, B, g

\* MayAsk and MayDial keep room for what has started: a task that moves from
\* stage to stage, using up a request or a transport, keeps the bounds.
LEMMA MoveKeepsBounds ==
  ASSUME TypeOK, BoundInv, NEW t \in Task, NEW s \in Stages, pc' = [pc EXCEPT ![t] = s],
         \/ sent' = sent /\ (s = "ready" => pc[t] = "ready" \/ MayAsk)
         \/ sent' = sent + 1 /\ pc[t] = "ready" /\ s # "ready",
         \/ link'.nr = link.nr /\ (s \in {"dialing", "swapping"} =>
                                     pc[t] \in {"dialing", "swapping"} \/ MayDial)
         \/ link'.nr = link.nr + 1 /\ pc[t] = "swapping" /\ s = "idle"
  PROVE  BoundInv' /\ sent' \in 0..MaxReq /\ link'.nr \in 1..MaxLink
<1> DEFINE D == {"dialing", "swapping"}
           a == Cardinality(In(pc, {"ready"}))
           b == Cardinality(In(pc', {"ready"}))
           c == Cardinality(In(pc, D))
           d == Cardinality(In(pc', D))
<1>1. pc \in [Task -> Stages] /\ sent \in Nat /\ link.nr \in 1..MaxLink
  BY DEF TypeOK
<1>2. /\ a \in Nat
      /\ (pc[t] = "ready" <=> s = "ready") => b = a
      /\ pc[t] # "ready" /\ s = "ready" => b = a + 1
      /\ pc[t] = "ready" /\ s # "ready" => b = a - 1
  <2> DEFINE X == {"ready"}
  <2>1. pc[t] = "ready" <=> pc[t] \in X
    OBVIOUS
  <2>2. s = "ready" <=> s \in X
    OBVIOUS
  <2> HIDE DEF X
  <2>3. /\ Cardinality(In(pc, X)) \in Nat
        /\ (pc[t] \in X <=> s \in X) => Cardinality(In(pc', X)) = Cardinality(In(pc, X))
        /\ pc[t] \notin X /\ s \in X => Cardinality(In(pc', X)) = Cardinality(In(pc, X)) + 1
        /\ pc[t] \in X /\ s \notin X => Cardinality(In(pc', X)) = Cardinality(In(pc, X)) - 1
    BY <1>1, CountMove
  <2> QED
    BY ONLY <2>1, <2>2, <2>3, Zenon DEF X
<1>3. /\ c \in Nat
      /\ (pc[t] \in D <=> s \in D) => d = c
      /\ pc[t] \notin D /\ s \in D => d = c + 1
      /\ pc[t] \in D /\ s \notin D => d = c - 1
  <2> HIDE DEF D
  <2> QED
    BY <1>1, CountMove
<1>4. sent + a <= MaxReq /\ link.nr + c <= MaxLink
  BY DEF BoundInv, Askers, Dialers, In
<1>5. (MayAsk <=> sent + a < MaxReq) /\ (MayDial <=> link.nr + c < MaxLink)
  <2>1. In(pc, {"ready"}) = {u \in Task : pc[u] = "ready"}
    BY DEF In
  <2> QED
    BY <2>1 DEF In, MayAsk, MayDial
<1> HIDE DEF a, b, c, d
<1>6. ASSUME sent' + b <= MaxReq, link'.nr + d <= MaxLink PROVE BoundInv'
  BY <1>6 DEF BoundInv, Askers, Dialers, In, b, d
<1>7. b \in Nat /\ sent' + b <= MaxReq /\ sent' \in Nat
  <2>1. b \in Nat
    <3>1. b = Cardinality(In(pc', {"ready"})) /\ pc' \in [Task -> Stages]
      BY <1>1 DEF b
    <3> QED
      BY <3>1, CountMove
  <2> QED
    BY <1>1, <1>2, <1>4, <1>5, <2>1, SessionConstants
<1>8. d \in Nat /\ link'.nr + d <= MaxLink /\ link'.nr \in Nat \ {0}
  <2>1. d \in Nat
    <3>1. d = Cardinality(In(pc', D)) /\ pc' \in [Task -> Stages]
      BY <1>1 DEF d
    <3> QED
      BY <3>1, CountMove
  <2> QED
    BY <1>1, <1>3, <1>4, <1>5, <2>1, SessionConstants
<1>9. sent' \in 0..MaxReq /\ link'.nr \in 1..MaxLink
  <2>1. MaxReq \in Nat /\ MaxLink \in Nat
    BY SessionConstants
  <2>2. sent' \in 0..MaxReq
    <3>1. \A m, n, k \in Nat : m + n <= k => m \in 0..k
      OBVIOUS
    <3> QED
      BY ONLY <1>7, <2>1, <3>1, Zenon
  <2>3. link'.nr \in 1..MaxLink
    BY ONLY <1>8, <2>1
  <2> QED
    BY <2>2, <2>3
<1>10. BoundInv'
  BY ONLY <1>6, <1>7, <1>8
<1> QED
  BY ONLY <1>9, <1>10, Zenon

-----------------------------------------------------------------------------
(* The queue of the mutex                                                  *)

\* A task that leaves the queue and goes idle.
LEMMA LeaveKeepsQueue ==
  ASSUME TypeOK, QueueInv, NEW t \in Task, pc' = [pc EXCEPT ![t] = "idle"], Leave(t)
  PROVE  queue' \in Seq(Task) /\ QueueInv'
<1>1. queue \in Seq(Task) /\ pc \in [Task -> Stages]
  BY DEF TypeOK
<1>2. /\ queue' \in Seq(Task)
      /\ \A i \in 1..Len(queue') : queue'[i] # t /\ \E j \in 1..Len(queue) : queue'[i] = queue[j]
      /\ \A i, j \in 1..Len(queue') : queue'[i] = queue'[j] => i = j
      /\ queue # <<>> /\ queue[1] # t => queue' # <<>> /\ queue'[1] = queue[1]
  <2> DEFINE w == Without(queue, t)
  <2>1. \A i, j \in 1..Len(queue) : queue[i] = queue[j] => i = j
    BY DEF QueueInv
  <2>2. /\ w \in Seq(Task)
        /\ \A i \in 1..Len(w) : w[i] # t /\ \E j \in 1..Len(queue) : w[i] = queue[j]
        /\ \A i, j \in 1..Len(w) : w[i] = w[j] => i = j
        /\ queue # <<>> /\ queue[1] # t => w # <<>> /\ w[1] = queue[1]
    BY ONLY <1>1, <2>1, WithoutProperties
  <2>3. queue' = w
    BY DEF Leave
  <2> HIDE DEF w
  <2> QED
    BY <2>2, <2>3
<1>3. ASSUME NEW i \in 1..Len(queue') PROVE pc'[queue'[i]] \in Queueing
  <2>1. PICK j \in 1..Len(queue) : queue'[i] = queue[j]
    BY <1>2
  <2>2. queue[j] \in Task /\ queue[j] # t /\ pc[queue[j]] \in Queueing
    BY <1>1, <1>2, <2>1 DEF QueueInv
  <2> QED
    BY <1>1, <2>1, <2>2
<1>4. ASSUME NEW u \in Task, pc'[u] \in Reading PROVE Owns(u)'
  <2>1. u # t /\ pc[u] \in Reading
    BY <1>1, <1>4 DEF Reading
  <2>2. queue # <<>> /\ queue[1] = u
    BY <1>1, <2>1 DEF QueueInv, Owns
  <2> QED
    BY <1>2, <2>1, <2>2 DEF Owns
<1> QED
  BY <1>2, <1>3, <1>4 DEF QueueInv

\* A task that joins the queue.
LEMMA EnqueueKeepsQueue ==
  ASSUME TypeOK, QueueInv, NEW t \in Task, pc[t] \in {"idle", "dialing"},
         NEW s \in {"ready", "swapping"}, pc' = [pc EXCEPT ![t] = s], Enqueue(t)
  PROVE  queue' \in Seq(Task) /\ QueueInv'
<1>1. queue \in Seq(Task) /\ pc \in [Task -> Stages] /\ Len(queue) \in Nat
  BY DEF TypeOK
<1>2. /\ queue' \in Seq(Task) /\ Len(queue') = Len(queue) + 1
      /\ \A i \in 1..Len(queue) : queue'[i] = queue[i]
      /\ queue'[Len(queue) + 1] = t
  BY <1>1 DEF Enqueue
<1>3. \A i \in 1..Len(queue) : queue[i] \in Task /\ queue[i] # t /\ pc[queue[i]] \in Queueing
  BY <1>1 DEF QueueInv, Queueing, Reading
<1>4. ASSUME NEW i \in 1..Len(queue') PROVE pc'[queue'[i]] \in Queueing
  <2>1. CASE i \in 1..Len(queue)
    BY <1>1, <1>2, <1>3, <2>1
  <2>2. CASE i = Len(queue) + 1
    BY <1>1, <1>2, <2>2 DEF Queueing
  <2> QED
    BY <1>1, <1>2, <2>1, <2>2
<1>5. ASSUME NEW i \in 1..Len(queue'), NEW j \in 1..Len(queue'), queue'[i] = queue'[j]
      PROVE  i = j
  <2>1. i \in 1..Len(queue) \/ i = Len(queue) + 1
    BY <1>1, <1>2
  <2>2. j \in 1..Len(queue) \/ j = Len(queue) + 1
    BY <1>1, <1>2
  <2>3. CASE i \in 1..Len(queue) /\ j \in 1..Len(queue)
    BY <1>2, <1>5, <2>3 DEF QueueInv
  <2> QED
    BY <1>2, <1>3, <1>5, <2>1, <2>2, <2>3
<1>6. ASSUME NEW u \in Task, pc'[u] \in Reading PROVE Owns(u)'
  <2>1. u # t /\ pc[u] \in Reading
    BY <1>1, <1>6 DEF Reading
  <2>2. queue # <<>> /\ queue[1] = u
    BY <1>1, <2>1 DEF QueueInv, Owns
  <2>3. 1 \in 1..Len(queue) /\ queue' # <<>>
    BY <1>1, <1>2, <2>2
  <2> QED
    BY <1>2, <2>2, <2>3 DEF Owns
<1> QED
  BY <1>2, <1>4, <1>5, <1>6 DEF QueueInv

\* A task that changes its stage where it stands.
LEMMA StageKeepsQueue ==
  ASSUME TypeOK, QueueInv, NEW t \in Task, NEW s \in Stages, pc' = [pc EXCEPT ![t] = s],
         pc[t] \in Queueing => s \in Queueing, s \in Reading => Owns(t), queue' = queue
  PROVE  queue' \in Seq(Task) /\ QueueInv'
<1>1. queue \in Seq(Task) /\ pc \in [Task -> Stages]
  BY DEF TypeOK
<1>2. ASSUME NEW i \in 1..Len(queue') PROVE pc'[queue'[i]] \in Queueing
  BY <1>1, <1>2 DEF QueueInv
<1>3. ASSUME NEW u \in Task, pc'[u] \in Reading PROVE Owns(u)'
  BY <1>1, <1>3 DEF QueueInv, Owns
<1> QED
  BY <1>1, <1>2, <1>3 DEF QueueInv

\* Only one task is inside an exchange.
LEMMA OneReader ==
  ASSUME QueueInv, NEW t \in Task, NEW u \in Task, Owns(t), pc[u] \in Reading
  PROVE  u = t
BY DEF QueueInv, Owns

-----------------------------------------------------------------------------
(* pdu_ref                                                                 *)

\* next_pdu_ref wraps to 0.
LEMMA NextRefWraps ==
  ASSUME pduRef \in 0..(RefMod - 1)
  PROVE  /\ NextRef \in 0..(RefMod - 1)
         /\ NextRef = IF pduRef + 1 = RefMod THEN 0 ELSE pduRef + 1
<1>1. CASE pduRef + 1 = RefMod
  BY <1>1, SessionConstants DEF NextRef
<1>2. CASE pduRef + 1 # RefMod
  BY <1>2, SessionConstants DEF NextRef
<1> QED
  BY <1>1, <1>2

\* A request stays one of its transport when another one is made on it.
LEMMA StillMadeOn ==
  ASSUME TypeOK, link'.nr = link.nr,
         \/ sent' = sent /\ pduRef' = pduRef
         \/ sent' = sent + 1 /\ pduRef' = NextRef
  PROVE  \A r : MadeOn(r, link.nr, sent, pduRef) => MadeOn(r, link'.nr, sent', pduRef')
<1>1. CASE sent' = sent /\ pduRef' = pduRef
  BY <1>1
<1>2. CASE sent' = sent + 1 /\ pduRef' = NextRef
  <2> SUFFICES ASSUME NEW r, MadeOn(r, link.nr, sent, pduRef)
               PROVE  MadeOn(r, link'.nr, sent', pduRef')
    OBVIOUS
  <2>1. /\ sent \in Nat /\ pduRef \in 0..(RefMod - 1) /\ RefMod \in Nat \ {0, 1}
        /\ r \in Request /\ r.id \in Nat /\ r.ref \in Nat /\ r.nr = link'.nr /\ r.id <= sent
    BY SessionConstants DEF TypeOK, MadeOn, Request
  <2>2. PICK k \in Nat : r.ref + (sent - r.id) = pduRef + k * RefMod
    BY DEF MadeOn
  <2>3. r.ref + (sent' - r.id) = (pduRef + 1) + k * RefMod
    <3>1. k * RefMod \in Nat
      BY <2>1
    <3> HIDE DEF MadeOn
    <3> DEFINE m == k * RefMod
    <3>2. r.ref + (sent - r.id) = pduRef + m /\ m \in Nat
      BY <2>2, <3>1
    <3> HIDE DEF m
    <3>3. r.ref + (sent' - r.id) = (pduRef + 1) + m
      BY <1>2, <2>1, <3>2
    <3> QED
      BY <3>3 DEF m
  <2>4. \E l \in Nat : r.ref + (sent' - r.id) = pduRef' + l * RefMod
    <3>1. CASE pduRef + 1 = RefMod
      <4>1. pduRef' = 0
        BY <1>2, <2>1, <3>1, NextRefWraps
      <4>2. (pduRef + 1) + k * RefMod = 0 + (k + 1) * RefMod /\ k + 1 \in Nat
        BY <2>1, <3>1
      <4> QED
        BY <2>3, <4>1, <4>2
    <3>2. CASE pduRef + 1 # RefMod
      <4>1. pduRef' = pduRef + 1
        BY <1>2, <2>1, <3>2, NextRefWraps
      <4> QED
        BY <2>3, <4>1
    <3> QED
      BY <3>1, <3>2
  <2>5. r.id <= sent'
    BY <1>2, <2>1
  <2> QED
    BY <2>1, <2>4, <2>5 DEF MadeOn
<1> QED
  BY <1>1, <1>2

\* Different multiples of RefMod are RefMod or more apart.
LEMMA MultiplesApart ==
  ASSUME NEW k \in Nat, NEW l \in Nat, k < l
  PROVE  k * RefMod + RefMod <= l * RefMod
<1>1. PICK d \in Nat : l = (k + 1) + d
  <2>1. l = (k + 1) + (l - k - 1) /\ l - k - 1 \in Nat
    OBVIOUS
  <2> QED
    BY <2>1
<1>2. l * RefMod = (k * RefMod + RefMod) + d * RefMod
  BY <1>1, SessionConstants
<1>3. d * RefMod \in Nat /\ k * RefMod \in Nat
  BY SessionConstants
<1> QED
  BY <1>2, <1>3, SessionConstants

\* Two requests of one transport, fewer than RefMod requests apart, have
\* different references.
LEMMA RefsApart ==
  ASSUME NEW nr, NEW n \in Nat, NEW ref \in 0..(RefMod - 1),
         NEW a, NEW b, MadeOn(a, nr, n, ref), MadeOn(b, nr, n, ref),
         a.id < b.id, b.id - a.id < RefMod
  PROVE  a.ref # b.ref
<1>1. /\ RefMod \in Nat \ {0, 1}
      /\ a.id \in Nat /\ a.ref \in Nat /\ b.id \in Nat /\ b.ref \in Nat
  BY SessionConstants DEF MadeOn, Request
<1>2. PICK k \in Nat : a.ref + (n - a.id) = ref + k * RefMod
  BY DEF MadeOn
<1>3. PICK l \in Nat : b.ref + (n - b.id) = ref + l * RefMod
  BY DEF MadeOn
<1> DEFINE x == k * RefMod
           y == l * RefMod
<1>4. x \in Nat /\ y \in Nat
  BY <1>1
<1>5. (k < l => x + RefMod <= y) /\ (l < k => y + RefMod <= x) /\ (k = l => x = y)
  BY MultiplesApart
<1>6. a.ref + (n - a.id) = ref + x /\ b.ref + (n - b.id) = ref + y
  BY <1>2, <1>3
<1> HIDE DEF x, y
<1>7. ASSUME a.ref = b.ref PROVE FALSE
  <2>1. x = y + (b.id - a.id)
    BY <1>1, <1>4, <1>6, <1>7
  <2> QED
    BY <1>1, <1>4, <1>5, <2>1
<1> QED
  BY <1>7

-----------------------------------------------------------------------------
(* What the steps have in common                                           *)

Verdicts == TrustWhileConnected /\ NothingFromOldTransport /\ LateAnswersTold

\* An empty stream is well formed.
LEMMA NothingSent == <<>> \in Seq(Request) /\ <<>> \in Seq(Piece)
OBVIOUS

\* A payload follows its header.
LEMMA SecondPiece == ASSUME NEW h, NEW p PROVE Append(<<h>>, p) = <<h, p>>
<1> DEFINE a == Append(<<h>>, p)
           b == <<h, p>>
<1>1. <<h>> \in Seq({h, p}) /\ Len(<<h>>) = 1 /\ <<h>>[1] = h
  OBVIOUS
<1>2. a \in Seq({h, p}) /\ Len(a) = 2 /\ a[1] = h /\ a[2] = p
  BY <1>1
<1>3. b \in Seq({h, p}) /\ Len(b) = 2 /\ b[1] = h /\ b[2] = p
  OBVIOUS
<1> HIDE DEF a, b
<1>4. a = b
  BY <1>2, <1>3
<1> QED
  BY <1>4 DEF a, b

\* The end of an operation: the guard is dropped.
LEMMA FinishControl ==
  ASSUME IInv, NEW t \in Task, Finish(t)
  PROVE  /\ pc' = [pc EXCEPT ![t] = "idle"] /\ pc' \in [Task -> Stages]
         /\ queue' \in Seq(Task) /\ QueueInv'
         /\ inflight' \in [Task -> Request \cup {None}]
         /\ pc'[t] = "idle"
         /\ \A u \in Task \ {t} : pc'[u] = pc[u] /\ inflight'[u] = inflight[u]
<1>1. TypeOK /\ QueueInv /\ pc \in [Task -> Stages] /\ inflight \in [Task -> Request \cup {None}]
  BY DEF IInv, TypeOK
<1>2. pc' = [pc EXCEPT ![t] = "idle"] /\ inflight' = [inflight EXCEPT ![t] = None] /\ Leave(t)
  BY DEF Finish
<1>3. queue' \in Seq(Task) /\ QueueInv'
  BY <1>1, <1>2, LeaveKeepsQueue
<1> QED
  BY <1>1, <1>2, <1>3 DEF Stages

\* A step that leaves the stream alone and begins no exchange.
LEMMA StreamKept ==
  ASSUME IInv, link'.nr = link.nr, UNCHANGED stream,
         \/ sent' = sent /\ pduRef' = pduRef
         \/ sent' = sent + 1 /\ pduRef' = NextRef /\ \A u \in Task : pc'[u] \notin Reading,
         \A u \in Task : pc'[u] \in Reading => pc[u] \in Reading /\ inflight'[u] = inflight[u]
  PROVE  StreamInv'
<1>1. \A r : MadeOn(r, link.nr, sent, pduRef) => MadeOn(r, link'.nr, sent', pduRef')
  BY StillMadeOn DEF IInv
<1>2. toPlc' = toPlc /\ toClient' = toClient /\ half' = half
  BY DEF stream
<1>3. ASSUME NEW u \in Task, pc'[u] \in Reading
      PROVE  MadeOn(inflight'[u], link'.nr, sent', pduRef') /\ inflight'[u].id = sent'
  BY <1>1, <1>3 DEF IInv, StreamInv, Current
<1> QED
  BY <1>1, <1>2, <1>3 DEF IInv, StreamInv, Current

\* A step that leaves the stream and the task inside an exchange alone.
LEMMA InStepKept ==
  ASSUME IInv, UNCHANGED <<stream, connected, dropped>>,
         \A u \in Task : pc'[u] \in Reading \/ pc[u] \in Reading =>
                           pc'[u] = pc[u] /\ inflight'[u] = inflight[u]
  PROVE  InStep'
<1>1. toPlc' = toPlc /\ toClient' = toClient /\ half' = half
      /\ connected' = connected /\ dropped' = dropped
  BY DEF stream
<1>2. ASSUME connected /\ ~dropped
      PROVE  /\ (\A t \in Task : pc'[t] \notin Reading) => Silent'
             /\ \A t \in Task : pc'[t] \in Reading => OneExchange(inflight[t], pc[t])'
  BY <1>1, <1>2 DEF IInv, InStep, Silent, OneExchange
<1> QED
  BY <1>1, <1>2 DEF InStep

\* What was found about the exchange completed last stays.
LEMMA VerdictsKept ==
  ASSUME IInv, last' = last
  PROVE  Verdicts'
BY DEF IInv, Verdicts, TrustWhileConnected, NothingFromOldTransport, LateAnswersTold

-----------------------------------------------------------------------------
(* Operations                                                              *)

\* lock() of an operation.
LEMMA StartOpStep == ASSUME IInv, NEW t \in Task, StartOp(t) PROVE IInv'
<1>1. TypeOK /\ QueueInv /\ BoundInv /\ pc \in [Task -> Stages]
  BY DEF IInv, TypeOK
<1>2. /\ pc[t] = "idle" /\ MayAsk /\ pc' = [pc EXCEPT ![t] = "ready"] /\ Enqueue(t)
      /\ UNCHANGED <<inflight, pduRef, connected, link, stream, sent, dropped, last>>
  BY DEF StartOp
<1>3. pc' \in [Task -> Stages] /\ pc'[t] = "ready" /\ \A u \in Task \ {t} : pc'[u] = pc[u]
  BY <1>1, <1>2 DEF Stages
<1>4. queue' \in Seq(Task) /\ QueueInv'
  BY <1>1, <1>2, EnqueueKeepsQueue
<1>5. BoundInv'
  BY <1>1, <1>2, MoveKeepsBounds DEF Stages
<1>6. TypeOK'
  BY <1>1, <1>2, <1>3, <1>4 DEF TypeOK, stream
<1>7. StreamInv'
  BY <1>1, <1>2, <1>3, StreamKept DEF Reading
<1>8. InStep'
  BY <1>1, <1>2, <1>3, InStepKept DEF Reading
<1>9. Verdicts'
  BY <1>2, VerdictsKept
<1> QED
  BY <1>4, <1>5, <1>6, <1>7, <1>8, <1>9 DEF IInv, Verdicts

\* send_s7: the task owns the mutex, so nobody is inside an exchange, and if
\* the client was in step, the request is now all there is on the stream.
LEMMA SendStep == ASSUME IInv, NEW t \in Task, Send(t) PROVE IInv'
<1> DEFINE r == [id |-> sent + 1, ref |-> NextRef, nr |-> link.nr]
<1>1. /\ TypeOK /\ QueueInv /\ BoundInv /\ pc \in [Task -> Stages]
      /\ inflight \in [Task -> Request \cup {None}] /\ pduRef \in 0..(RefMod - 1)
      /\ sent \in Nat /\ link.nr \in 1..MaxLink /\ toPlc \in Seq(Request)
      /\ toClient \in Seq(Piece)
  BY DEF IInv, TypeOK
<1>2. /\ pc[t] = "ready" /\ Owns(t) /\ pc' = [pc EXCEPT ![t] = "header"]
      /\ inflight' = [inflight EXCEPT ![t] = r]
      /\ toPlc' = IF link.state = "up" THEN Append(toPlc, r) ELSE toPlc
      /\ pduRef' = NextRef /\ sent' = sent + 1
      /\ UNCHANGED <<queue, connected, link, toClient, half, dropped, last>>
  BY DEF Send
<1>3. /\ pc' \in [Task -> Stages] /\ pc'[t] = "header"
      /\ \A u \in Task \ {t} : pc'[u] = pc[u]
  BY <1>1, <1>2 DEF Stages
<1>4. \A u \in Task : pc[u] \notin Reading
  BY <1>1, <1>2, OneReader DEF Reading
<1>5. \A u \in Task : pc'[u] \in Reading => u = t
  BY <1>3, <1>4
<1>6. queue' \in Seq(Task) /\ QueueInv'
  BY <1>1, <1>2, StageKeepsQueue DEF Queueing, Reading, Stages
<1>7. BoundInv' /\ sent' \in 0..MaxReq
  BY <1>1, <1>2, MoveKeepsBounds DEF Stages
<1>8. r \in Request /\ MadeOn(r, link'.nr, sent', pduRef')
  <2>1. NextRef \in 0..(RefMod - 1)
    BY <1>1, NextRefWraps
  <2>2. r \in Request
    BY <1>1, <1>2, <1>7, <2>1, SessionConstants DEF Request
  <2>3. r.ref + (sent' - r.id) = pduRef' + 0 * RefMod
    BY <1>1, <1>2, <2>1, SessionConstants
  <2> QED
    BY <1>1, <1>2, <2>2, <2>3 DEF MadeOn
<1> HIDE DEF r
<1>9. inflight' \in [Task -> Request \cup {None}] /\ inflight'[t] = r /\ toPlc' \in Seq(Request)
  BY <1>1, <1>2, <1>8
<1>10. TypeOK'
  <2>1. pduRef' \in 0..(RefMod - 1)
    BY <1>1, <1>2, NextRefWraps
  <2> QED
    BY <1>1, <1>2, <1>3, <1>6, <1>7, <1>9, <2>1 DEF TypeOK
<1>11. StreamInv'
  <2>1. \A q : MadeOn(q, link.nr, sent, pduRef) => MadeOn(q, link'.nr, sent', pduRef')
    BY <1>1, <1>2, StillMadeOn
  <2>2. half' => toPlc' # <<>>
    <3>1. half' = half /\ (half => toPlc # <<>>)
      BY <1>2 DEF IInv, StreamInv
    <3>2. toPlc' = toPlc \/ toPlc' = Append(toPlc, r)
      BY <1>2
    <3>3. Append(toPlc, r) # <<>>
      <4>1. Len(Append(toPlc, r)) = Len(toPlc) + 1 /\ Len(toPlc) \in Nat
        BY <1>1, <1>8
      <4>2. Len(<<>>) = 0
        OBVIOUS
      <4> QED
        BY <4>1, <4>2
    <3> QED
      BY <3>1, <3>2, <3>3
  <2>3. ASSUME NEW i \in 1..Len(toPlc') PROVE MadeOn(toPlc'[i], link'.nr, sent', pduRef')
    <3>1. CASE toPlc' = toPlc
      BY <2>1, <3>1 DEF IInv, StreamInv, Current
    <3>2. CASE toPlc' = Append(toPlc, r)
      <4>1. CASE i \in 1..Len(toPlc)
        BY <1>1, <2>1, <3>2, <4>1 DEF IInv, StreamInv, Current
      <4>2. CASE i = Len(toPlc) + 1
        BY <1>1, <1>8, <3>2, <4>2
      <4> QED
        BY <1>1, <3>2, <4>1, <4>2
    <3> QED
      BY <1>2, <3>1, <3>2
  <2>4. ASSUME NEW i \in 1..Len(toClient') PROVE MadeOn(toClient'[i].of, link'.nr, sent', pduRef')
    BY <1>2, <2>1 DEF IInv, StreamInv, Current
  <2>5. r.id = sent'
    BY <1>1, <1>2 DEF r
  <2> QED
    BY <1>5, <1>8, <1>9, <2>2, <2>3, <2>4, <2>5 DEF StreamInv, Current
<1>12. InStep'
  <2> SUFFICES ASSUME connected', ~dropped'
               PROVE  /\ (\A u \in Task : pc'[u] \notin Reading) => Silent'
                      /\ \A u \in Task : pc'[u] \in Reading => OneExchange(inflight[u], pc[u])'
    BY DEF InStep
  <2>1. toPlc = <<>> /\ toClient = <<>> /\ ~half
    BY <1>2, <1>4 DEF IInv, InStep, Silent
  <2>2. (toPlc' = <<>> \/ toPlc' = <<r>>) /\ toClient' = <<>> /\ ~half'
    BY <1>2, <2>1
  <2>3. OneExchange(inflight[t], pc[t])'
    BY <1>3, <1>9, <2>2 DEF OneExchange
  <2> QED
    BY <1>3, <1>5, <2>3 DEF Reading
<1>13. Verdicts'
  BY <1>2, VerdictsKept
<1> QED
  BY <1>6, <1>7, <1>10, <1>11, <1>12, <1>13 DEF IInv, Verdicts

\* send_s7 fails: the reference is used up, the stream is as before.
LEMMA SendErrorStep == ASSUME IInv, NEW t \in Task, SendError(t) PROVE IInv'
<1>1. /\ TypeOK /\ QueueInv /\ BoundInv /\ pc \in [Task -> Stages] /\ pduRef \in 0..(RefMod - 1)
      /\ link \in [nr : 1..MaxLink, state : LinkStates]
  BY DEF IInv, TypeOK
<1>2. /\ pc[t] = "ready" /\ Owns(t) /\ Finish(t)
      /\ link' = [link EXCEPT !.state = "failing"] /\ pduRef' = NextRef /\ sent' = sent + 1
      /\ UNCHANGED <<connected, stream, dropped, last>>
  BY DEF SendError
<1>3. /\ pc' = [pc EXCEPT ![t] = "idle"] /\ pc' \in [Task -> Stages]
      /\ queue' \in Seq(Task) /\ QueueInv' /\ inflight' \in [Task -> Request \cup {None}]
      /\ pc'[t] = "idle" /\ \A u \in Task \ {t} : pc'[u] = pc[u] /\ inflight'[u] = inflight[u]
  BY <1>2, FinishControl
<1>4. \A u \in Task : pc[u] \notin Reading /\ pc'[u] \notin Reading
  BY <1>1, <1>2, <1>3, OneReader DEF Reading
<1>5. link'.nr = link.nr /\ link' \in [nr : 1..MaxLink, state : LinkStates]
  BY <1>1, <1>2 DEF LinkStates
<1>6. BoundInv' /\ sent' \in 0..MaxReq
  BY <1>1, <1>2, <1>3, <1>5, MoveKeepsBounds DEF Stages
<1>7. TypeOK'
  <2>1. pduRef' \in 0..(RefMod - 1)
    BY <1>1, <1>2, NextRefWraps
  <2> QED
    BY <1>1, <1>2, <1>3, <1>5, <1>6, <2>1 DEF TypeOK, stream
<1>8. StreamInv'
  BY <1>2, <1>4, <1>5, StreamKept
<1>9. InStep'
  BY <1>2, <1>4, InStepKept
<1>10. Verdicts'
  BY <1>2, VerdictsKept
<1> QED
  BY <1>3, <1>6, <1>7, <1>8, <1>9, <1>10 DEF IInv, Verdicts

-----------------------------------------------------------------------------
(* recv_s7                                                                 *)

\* read_exact takes the next piece of the stream, which belongs to the
\* present transport.
LEMMA TakePiece ==
  ASSUME IInv, toClient # <<>>, toClient' = Tail(toClient),
         UNCHANGED <<toPlc, half, sent, pduRef, link>>,
         \A u \in Task : pc'[u] \in Reading => pc[u] \in Reading /\ inflight'[u] = inflight[u]
  PROVE  /\ StreamInv' /\ toClient' \in Seq(Piece)
         /\ Head(toClient) \in Piece /\ Current(Head(toClient).of)
<1>1. toClient \in Seq(Piece) /\ Len(toClient) \in Nat \ {0}
  <2>1. toClient \in Seq(Piece)
    BY DEF IInv, TypeOK
  <2> QED
    BY <2>1
<1>2. /\ toClient' \in Seq(Piece) /\ Len(toClient') = Len(toClient) - 1
      /\ \A i \in 1..Len(toClient') : toClient'[i] = toClient[i + 1]
      /\ Head(toClient) = toClient[1]
  BY <1>1
<1>3. \A i \in 1..Len(toClient) : Current(toClient[i].of)
  BY DEF IInv, StreamInv
<1>4. ASSUME NEW i \in 1..Len(toClient') PROVE Current(toClient[i].of)'
  <2>1. i + 1 \in 1..Len(toClient) /\ toClient'[i] = toClient[i + 1]
    BY <1>1, <1>2
  <2> QED
    BY <1>3, <2>1 DEF Current
<1>5. Head(toClient) \in Piece /\ Current(Head(toClient).of)
  BY <1>1, <1>2, <1>3
<1>6. \A i \in 1..Len(toPlc') : Current(toPlc[i])'
  BY DEF IInv, StreamInv, Current
<1>7. ASSUME NEW u \in Task, pc'[u] \in Reading
      PROVE  Current(inflight[u])' /\ inflight'[u].id = sent'
  BY <1>7 DEF IInv, StreamInv, Current
<1>8. half' => toPlc' # <<>>
  BY DEF IInv, StreamInv
<1> QED
  BY <1>2, <1>4, <1>5, <1>6, <1>7, <1>8 DEF StreamInv

\* The four bytes of the TPKT header.
LEMMA ReadHeaderStep == ASSUME IInv, NEW t \in Task, ReadHeader(t) PROVE IInv'
<1> DEFINE s == IF Head(toClient).part = "header" THEN "payload" ELSE "swallow"
<1>1. /\ TypeOK /\ QueueInv /\ BoundInv /\ pc \in [Task -> Stages]
      /\ inflight \in [Task -> Request \cup {None}]
  BY DEF IInv, TypeOK
<1>2. /\ pc[t] = "header" /\ toClient # <<>> /\ pc' = [pc EXCEPT ![t] = s]
      /\ toClient' = Tail(toClient) /\ Head(toClient).part # "runt"
      /\ UNCHANGED <<queue, inflight, pduRef, connected, link, toPlc, half, sent, dropped, last>>
  BY DEF ReadHeader
<1>3. /\ s \in Reading /\ s \in Stages /\ s \in Queueing /\ s \notin {"ready", "dialing", "swapping"}
      /\ pc' \in [Task -> Stages] /\ pc'[t] = s /\ \A u \in Task \ {t} : pc'[u] = pc[u]
  BY <1>1, <1>2 DEF Reading, Stages, Queueing
<1>4. Owns(t) /\ pc[t] \in Reading
  BY <1>1, <1>2 DEF QueueInv, Reading
<1>5. \A u \in Task : pc'[u] \in Reading => u = t
  BY <1>1, <1>3, <1>4, OneReader
<1>6. queue' \in Seq(Task) /\ QueueInv'
  <2> HIDE DEF s
  <2> QED
    BY <1>1, <1>2, <1>3, <1>4, StageKeepsQueue
<1>7. BoundInv'
  <2> HIDE DEF s
  <2> QED
    BY <1>1, <1>2, <1>3, MoveKeepsBounds
<1>8. StreamInv' /\ toClient' \in Seq(Piece)
  BY <1>2, <1>4, <1>5, TakePiece
<1>9. TypeOK'
  BY <1>1, <1>2, <1>3, <1>6, <1>8 DEF TypeOK
<1>10. InStep'
  <2> SUFFICES ASSUME connected, ~dropped
               PROVE  OneExchange(inflight[t], pc[t])'
    BY <1>2, <1>3, <1>5 DEF InStep
  <2> DEFINE r == inflight[t]
             h == HeaderOf(r)
             u == RuntOf(r)
  <2>1. OneExchange(r, "header")
    BY <1>2, <1>4 DEF IInv, InStep
  <2>2. h.part = "header" /\ u.part = "runt"
    BY DEF HeaderOf, RuntOf
  <2> HIDE DEF h, u, s
  <2>3. /\ Head(<<h>>) = h /\ Tail(<<h>>) = <<>> /\ Head(<<u>>) = u
        /\ \A p : Head(<<h, p>>) = h /\ Tail(<<h, p>>) = <<p>>
    OBVIOUS
  <2>4. \/ toPlc = <<r>> /\ half /\ toClient = <<h>>
        \/ toPlc = <<>> /\ ~half /\ toClient \in {<<h>>} \cup {<<h, p>> : p \in RestsOf(r)}
    BY <1>2, <2>1, <2>2, <2>3 DEF OneExchange, h, u
  <2>5. /\ Head(toClient) = h
        /\ \/ toPlc' = <<r>> /\ half' /\ toClient' = <<>>
           \/ toPlc' = <<>> /\ ~half' /\ toClient' \in {<<>>} \cup {<<p>> : p \in RestsOf(r)}
    BY <1>2, <2>3, <2>4
  <2>6. pc'[t] = "payload"
    BY <1>3, <2>2, <2>5 DEF s
  <2>7. inflight'[t] = r
    BY <1>2
  <2> QED
    BY <2>5, <2>6, <2>7 DEF OneExchange
<1>11. Verdicts'
  BY <1>2, VerdictsKept
<1> QED
  BY <1>6, <1>7, <1>8, <1>9, <1>10, <1>11 DEF IInv, Verdicts

\* A payload taken for a header: the client was out of step already.
LEMMA SwallowStep == ASSUME IInv, NEW t \in Task, Swallow(t) PROVE IInv'
<1>1. TypeOK /\ QueueInv /\ BoundInv
  BY DEF IInv
<1>2. /\ pc[t] = "swallow" /\ toClient # <<>> /\ toClient' = Tail(toClient)
      /\ UNCHANGED <<pc, queue, inflight, pduRef, connected, link, toPlc, half, sent, dropped, last>>
  BY DEF Swallow
<1>3. QueueInv' /\ BoundInv'
  BY <1>1, <1>2 DEF QueueInv, BoundInv, Askers, Dialers, Owns
<1>4. StreamInv' /\ toClient' \in Seq(Piece)
  BY <1>2, TakePiece
<1>5. TypeOK'
  BY <1>1, <1>2, <1>4 DEF TypeOK
<1>6. ~(connected /\ ~dropped)
  BY <1>2 DEF IInv, InStep, Reading, OneExchange
<1>7. InStep'
  BY <1>2, <1>6 DEF InStep
<1>8. Verdicts'
  BY <1>2, VerdictsKept
<1> QED
  BY <1>3, <1>4, <1>5, <1>7, <1>8 DEF IInv, Verdicts

\* The answer: it was sent on the present transport, and if the client is
\* in step, for the request of t; a late one has another reference.
LEMMA ReadPayloadStep == ASSUME IInv, NEW t \in Task, ReadPayload(t) PROVE IInv'
<1> DEFINE a == inflight[t]
           g == Head(toClient).of
<1>1. /\ TypeOK /\ QueueInv /\ BoundInv /\ pc \in [Task -> Stages]
      /\ inflight \in [Task -> Request \cup {None}] /\ sent \in Nat /\ pduRef \in 0..(RefMod - 1)
      /\ connected \in BOOLEAN /\ dropped \in BOOLEAN
  <2>1. TypeOK /\ QueueInv /\ BoundInv
    BY DEF IInv
  <2>2. sent \in 0..MaxReq
    BY <2>1 DEF TypeOK
  <2>3. sent \in Nat
    BY ONLY <2>2
  <2> QED
    BY <2>1, <2>3 DEF TypeOK
<1>2. /\ pc[t] = "payload" /\ toClient # <<>> /\ toClient' = Tail(toClient)
      /\ last' = [asked |-> a, got |-> g, connected |-> connected, dropped |-> dropped]
      /\ UNCHANGED <<pduRef, connected, link, toPlc, half, sent, dropped>>
  BY DEF ReadPayload
<1>3. PICK s \in {"idle", "ready"} :
        /\ pc' = [pc EXCEPT ![t] = s] /\ (s = "ready" => MayAsk)
        /\ queue' \in Seq(Task) /\ QueueInv'
        /\ inflight' = [inflight EXCEPT ![t] = None]
  <2>1. CASE Finish(t)
    BY <2>1, FinishControl DEF Finish
  <2>2. CASE /\ MayAsk /\ pc' = [pc EXCEPT ![t] = "ready"]
             /\ inflight' = [inflight EXCEPT ![t] = None] /\ queue' = queue
    <3>1. queue' \in Seq(Task) /\ QueueInv'
      BY <1>1, <2>2, StageKeepsQueue DEF Stages, Reading, Queueing
    <3> QED
      BY <2>2, <3>1
  <2> QED
    BY <2>1, <2>2 DEF ReadPayload
<1>4. /\ pc' \in [Task -> Stages] /\ pc'[t] = s /\ s \notin Reading /\ s \in Stages
      /\ \A u \in Task \ {t} : pc'[u] = pc[u]
      /\ inflight' \in [Task -> Request \cup {None}]
  BY <1>1, <1>3 DEF Stages, Reading
<1>5. Owns(t) /\ pc[t] \in Reading
  BY <1>1, <1>2 DEF QueueInv, Reading
<1>6. \A u \in Task : pc'[u] \notin Reading
  BY <1>1, <1>4, <1>5, OneReader
<1>7. BoundInv'
  BY <1>1, <1>2, <1>3, <1>4, MoveKeepsBounds
<1>8. StreamInv' /\ toClient' \in Seq(Piece) /\ Head(toClient) \in Piece /\ Current(g)
  BY <1>2, <1>6, TakePiece
<1>9. Current(a) /\ a.id = sent
  BY <1>5 DEF IInv, StreamInv
<1>10. a \in Request /\ g \in Request
  BY <1>8, <1>9 DEF Current, MadeOn
<1>11. connected /\ ~dropped => (\E p \in RestsOf(a) : toClient = <<p>>) /\ toPlc = <<>> /\ ~half
  BY <1>2, <1>5 DEF IInv, InStep, OneExchange
<1>12. connected /\ ~dropped => g = a
  BY <1>11 DEF RestsOf
<1>13. InStep'
  <2>1. \A x : Tail(<<x>>) = <<>>
    OBVIOUS
  <2>2. connected /\ ~dropped => toPlc' = <<>> /\ toClient' = <<>> /\ ~half'
    BY <1>2, <1>11, <2>1
  <2> QED
    BY <1>2, <1>6, <2>2 DEF InStep, Silent
<1> HIDE DEF a, g
<1>14. /\ last' # None => last'.asked = a /\ last'.got = g /\ last'.connected = connected
                          /\ last'.dropped = dropped
       /\ last' \in [asked : Request, got : Request, connected : BOOLEAN, dropped : BOOLEAN]
  BY <1>1, <1>2, <1>10
<1>15. TypeOK'
  BY <1>1, <1>2, <1>3, <1>4, <1>8, <1>14 DEF TypeOK
<1>16. TrustWhileConnected' /\ NothingFromOldTransport'
  BY <1>8, <1>9, <1>12, <1>14 DEF TrustWhileConnected, NothingFromOldTransport, Current, MadeOn
<1>17. LateAnswersTold'
  <2>1. g.id <= a.id /\ g.id \in Nat /\ a.id \in Nat
    <3>1. g.id \in 1..MaxReq /\ a.id \in 1..MaxReq
      BY ONLY <1>10 DEF Request
    <3>2. g.id <= a.id
      BY ONLY <1>8, <1>9 DEF Current, MadeOn
    <3> QED
      BY ONLY <3>1, <3>2
  <2>2. g.id # a.id => g.id < a.id
    BY <2>1
  <2>3. ASSUME g.id < a.id, a.id - g.id < RefMod PROVE g.ref # a.ref
    BY ONLY <1>1, <1>8, <1>9, <2>3, RefsApart, Zenon DEF Current
  <2> QED
    BY <1>14, <2>2, <2>3 DEF LateAnswersTold
<1> QED
  BY <1>3, <1>7, <1>8, <1>13, <1>15, <1>16, <1>17 DEF IInv

\* An answer that does not decode: it is off the stream, which stays in step.
LEMMA UnexpectedStep == ASSUME IInv, NEW t \in Task, Unexpected(t) PROVE IInv'
<1>1. TypeOK /\ QueueInv /\ BoundInv
  BY DEF IInv
<1>2. /\ toClient # <<>> /\ toClient' = Tail(toClient) /\ Finish(t)
      /\ \/ pc[t] = "header" /\ Head(toClient).part = "runt"
         \/ pc[t] = "payload" /\ Head(toClient).part = "garbled"
      /\ UNCHANGED <<pduRef, connected, link, toPlc, half, sent, dropped, last>>
  BY DEF Unexpected
<1>3. /\ pc' = [pc EXCEPT ![t] = "idle"] /\ pc' \in [Task -> Stages]
      /\ queue' \in Seq(Task) /\ QueueInv' /\ inflight' \in [Task -> Request \cup {None}]
      /\ pc'[t] = "idle" /\ \A u \in Task \ {t} : pc'[u] = pc[u] /\ inflight'[u] = inflight[u]
  BY <1>2, FinishControl
<1>4. Owns(t) /\ pc[t] \in Reading
  BY <1>1, <1>2 DEF QueueInv, Reading
<1>5. \A u \in Task : pc'[u] \notin Reading
  BY <1>1, <1>3, <1>4, OneReader DEF Reading
<1>6. BoundInv'
  BY <1>1, <1>2, <1>3, MoveKeepsBounds DEF Stages
<1>7. StreamInv' /\ toClient' \in Seq(Piece)
  BY <1>2, <1>5, TakePiece
<1>8. TypeOK'
  BY <1>1, <1>2, <1>3, <1>7 DEF TypeOK
<1>9. InStep'
  <2> SUFFICES ASSUME connected, ~dropped PROVE toPlc = <<>> /\ ~half /\ toClient' = <<>>
    BY <1>2, <1>5 DEF InStep, Silent
  <2> DEFINE r == inflight[t]
             h == HeaderOf(r)
  <2>1. OneExchange(r, pc[t])
    BY <1>4 DEF IInv, InStep
  <2>2. h.part = "header"
    BY DEF HeaderOf
  <2>3. \A p : Head(<<h>>) = h /\ Head(<<h, p>>) = h /\ Tail(<<p>>) = <<>>
    OBVIOUS
  <2> HIDE DEF h, r
  <2>4. Head(toClient) # h \/ pc[t] # "header"
    BY <1>2, <2>2
  <2>5. toPlc = <<>> /\ ~half /\ \E p : toClient = <<p>>
    BY <1>2, <2>1, <2>3, <2>4 DEF OneExchange, h
  <2> QED
    BY <1>2, <2>3, <2>5
<1>10. Verdicts'
  BY <1>2, VerdictsKept
<1> QED
  BY <1>3, <1>6, <1>7, <1>8, <1>9, <1>10 DEF IInv, Verdicts

\* A read fails: what may still come is no concern of a client that says it
\* is not connected.
LEMMA ReadErrorStep == ASSUME IInv, NEW t \in Task, ReadError(t) PROVE IInv'
<1>1. TypeOK /\ QueueInv /\ BoundInv
  BY DEF IInv
<1>2. /\ pc[t] \in Reading /\ connected' = FALSE /\ Finish(t)
      /\ UNCHANGED <<pduRef, link, stream, sent, dropped, last>>
  BY DEF ReadError
<1>3. /\ pc' = [pc EXCEPT ![t] = "idle"] /\ pc' \in [Task -> Stages]
      /\ queue' \in Seq(Task) /\ QueueInv' /\ inflight' \in [Task -> Request \cup {None}]
      /\ pc'[t] = "idle" /\ \A u \in Task \ {t} : pc'[u] = pc[u] /\ inflight'[u] = inflight[u]
  BY <1>2, FinishControl
<1>4. BoundInv'
  BY <1>1, <1>2, <1>3, MoveKeepsBounds DEF Stages
<1>5. TypeOK'
  BY <1>1, <1>2, <1>3 DEF TypeOK, stream
<1>6. StreamInv'
  BY <1>2, <1>3, StreamKept DEF Reading
<1>7. InStep'
  BY <1>2 DEF InStep
<1>8. Verdicts'
  BY <1>2, VerdictsKept
<1> QED
  BY <1>3, <1>4, <1>5, <1>6, <1>7, <1>8 DEF IInv, Verdicts

\* A future dropped outside recv_s7 leaves the stream in step; one dropped
\* inside is what `dropped` records.
LEMMA DropFutureStep == ASSUME IInv, NEW t \in Task, DropFuture(t) PROVE IInv'
<1>1. /\ TypeOK /\ QueueInv /\ BoundInv /\ pc \in [Task -> Stages] /\ pduRef \in 0..(RefMod - 1)
      /\ dropped \in BOOLEAN /\ sent \in 0..MaxReq
  BY DEF IInv, TypeOK
<1>2. /\ pc[t] \in Reading \cup {"ready", "dialing", "swapping"} /\ Finish(t)
      /\ dropped' = (dropped \/ pc[t] \in Reading)
      /\ UNCHANGED <<connected, link, stream, last>>
      /\ \/ pduRef' = pduRef /\ sent' = sent
         \/ pc[t] = "ready" /\ Owns(t) /\ pduRef' = NextRef /\ sent' = sent + 1
  BY DEF DropFuture
<1>3. /\ pc' = [pc EXCEPT ![t] = "idle"] /\ pc' \in [Task -> Stages]
      /\ queue' \in Seq(Task) /\ QueueInv' /\ inflight' \in [Task -> Request \cup {None}]
      /\ pc'[t] = "idle" /\ \A u \in Task \ {t} : pc'[u] = pc[u] /\ inflight'[u] = inflight[u]
  BY <1>2, FinishControl
<1>4. BoundInv' /\ sent' \in 0..MaxReq
  BY <1>1, <1>2, <1>3, MoveKeepsBounds DEF Stages
<1>5. TypeOK'
  <2>1. pduRef' \in 0..(RefMod - 1)
    BY <1>1, <1>2, NextRefWraps
  <2>2. dropped' \in BOOLEAN
    BY <1>2
  <2> QED
    BY <1>1, <1>2, <1>3, <1>4, <2>1, <2>2 DEF TypeOK, stream
<1>6. StreamInv'
  <2>1. \A u \in Task : pc'[u] \in Reading => pc[u] \in Reading /\ inflight'[u] = inflight[u]
    BY <1>3 DEF Reading
  <2>2. pc[t] = "ready" /\ Owns(t) => \A u \in Task : pc'[u] \notin Reading
    BY <1>1, <1>3, OneReader DEF Reading
  <2> QED
    BY <1>2, <2>1, <2>2, StreamKept
<1>7. InStep'
  <2>1. CASE pc[t] \in Reading
    BY <1>2, <2>1 DEF InStep
  <2>2. CASE pc[t] \notin Reading
    <3>1. dropped' = dropped
      BY <1>1, <1>2, <2>2
    <3> QED
      BY <1>2, <1>3, <2>2, <3>1, InStepKept DEF Reading
  <2> QED
    BY <2>1, <2>2
<1>8. Verdicts'
  BY <1>2, VerdictsKept
<1> QED
  BY <1>3, <1>4, <1>5, <1>6, <1>7, <1>8 DEF IInv, Verdicts

-----------------------------------------------------------------------------
(* reconnect                                                               *)

\* reconnect dials without the mutex.
LEMMA StartReconnectStep == ASSUME IInv, NEW t \in Task, StartReconnect(t) PROVE IInv'
<1>1. TypeOK /\ QueueInv /\ BoundInv /\ pc \in [Task -> Stages]
  BY DEF IInv, TypeOK
<1>2. /\ pc[t] = "idle" /\ MayDial /\ pc' = [pc EXCEPT ![t] = "dialing"]
      /\ UNCHANGED <<queue, inflight, pduRef, connected, link, stream, sent, dropped, last>>
  BY DEF StartReconnect
<1>3. pc' \in [Task -> Stages] /\ pc'[t] = "dialing" /\ \A u \in Task \ {t} : pc'[u] = pc[u]
  BY <1>1, <1>2 DEF Stages
<1>4. queue' \in Seq(Task) /\ QueueInv'
  BY <1>1, <1>2, StageKeepsQueue DEF Stages, Reading, Queueing
<1>5. BoundInv'
  BY <1>1, <1>2, MoveKeepsBounds DEF Stages
<1>6. TypeOK'
  BY <1>1, <1>2, <1>3, <1>4 DEF TypeOK, stream
<1>7. StreamInv'
  BY <1>1, <1>2, <1>3, StreamKept DEF Reading
<1>8. InStep'
  BY <1>1, <1>2, <1>3, InStepKept DEF Reading
<1>9. Verdicts'
  BY <1>2, VerdictsKept
<1> QED
  BY <1>4, <1>5, <1>6, <1>7, <1>8, <1>9 DEF IInv, Verdicts

\* A dial that fails changes nothing.
LEMMA DialErrorStep == ASSUME IInv, NEW t \in Task, DialError(t) PROVE IInv'
<1>1. TypeOK /\ QueueInv /\ BoundInv
  BY DEF IInv
<1>2. /\ pc[t] = "dialing" /\ Finish(t)
      /\ UNCHANGED <<pduRef, connected, link, stream, sent, dropped, last>>
  BY DEF DialError
<1>3. /\ pc' = [pc EXCEPT ![t] = "idle"] /\ pc' \in [Task -> Stages]
      /\ queue' \in Seq(Task) /\ QueueInv' /\ inflight' \in [Task -> Request \cup {None}]
      /\ pc'[t] = "idle" /\ \A u \in Task \ {t} : pc'[u] = pc[u] /\ inflight'[u] = inflight[u]
  BY <1>2, FinishControl
<1>4. BoundInv'
  BY <1>1, <1>2, <1>3, MoveKeepsBounds DEF Stages
<1>5. TypeOK'
  BY <1>1, <1>2, <1>3 DEF TypeOK, stream
<1>6. StreamInv'
  BY <1>2, <1>3, StreamKept DEF Reading
<1>7. InStep'
  BY <1>2, <1>3, InStepKept DEF Reading
<1>8. Verdicts'
  BY <1>2, VerdictsKept
<1> QED
  BY <1>3, <1>4, <1>5, <1>6, <1>7, <1>8 DEF IInv, Verdicts

\* The new transport is up and waits for the mutex.
LEMMA DialOkStep == ASSUME IInv, NEW t \in Task, DialOk(t) PROVE IInv'
<1>1. TypeOK /\ QueueInv /\ BoundInv /\ pc \in [Task -> Stages]
  BY DEF IInv, TypeOK
<1>2. /\ pc[t] = "dialing" /\ pc' = [pc EXCEPT ![t] = "swapping"] /\ Enqueue(t)
      /\ UNCHANGED <<inflight, pduRef, connected, link, stream, sent, dropped, last>>
  BY DEF DialOk
<1>3. pc' \in [Task -> Stages] /\ pc'[t] = "swapping" /\ \A u \in Task \ {t} : pc'[u] = pc[u]
  BY <1>1, <1>2 DEF Stages
<1>4. queue' \in Seq(Task) /\ QueueInv'
  BY <1>1, <1>2, EnqueueKeepsQueue
<1>5. BoundInv'
  BY <1>1, <1>2, MoveKeepsBounds DEF Stages
<1>6. TypeOK'
  BY <1>1, <1>2, <1>3, <1>4 DEF TypeOK, stream
<1>7. StreamInv'
  BY <1>1, <1>2, <1>3, StreamKept DEF Reading
<1>8. InStep'
  BY <1>1, <1>2, <1>3, InStepKept DEF Reading
<1>9. Verdicts'
  BY <1>2, VerdictsKept
<1> QED
  BY <1>4, <1>5, <1>6, <1>7, <1>8, <1>9 DEF IInv, Verdicts

\* Inner is replaced under the mutex, when nobody is inside an exchange.
LEMMA SwapStep == ASSUME IInv, NEW t \in Task, Swap(t) PROVE IInv'
<1>1. /\ TypeOK /\ QueueInv /\ BoundInv /\ pc \in [Task -> Stages]
      /\ link \in [nr : 1..MaxLink, state : LinkStates]
  BY DEF IInv, TypeOK
<1>2. /\ pc[t] = "swapping" /\ Owns(t) /\ Finish(t)
      /\ toPlc' = <<>> /\ toClient' = <<>> /\ half' = FALSE
      /\ pduRef' = 1 /\ connected' = TRUE /\ dropped' = FALSE
      /\ UNCHANGED <<sent, last>>
  BY DEF Swap
<1>3. /\ pc' = [pc EXCEPT ![t] = "idle"] /\ pc' \in [Task -> Stages]
      /\ queue' \in Seq(Task) /\ QueueInv' /\ inflight' \in [Task -> Request \cup {None}]
      /\ pc'[t] = "idle" /\ \A u \in Task \ {t} : pc'[u] = pc[u] /\ inflight'[u] = inflight[u]
  BY <1>2, FinishControl
<1>4. \A u \in Task : pc'[u] \notin Reading
  BY <1>1, <1>2, <1>3, OneReader DEF Reading
<1>5. PICK st \in {"up", "gone"} : link' = [nr |-> link.nr + 1, state |-> st]
  BY DEF Swap
<1>6. link'.nr = link.nr + 1 /\ link'.state = st /\ st \in LinkStates
  BY <1>5 DEF LinkStates
<1>7. BoundInv' /\ link'.nr \in 1..MaxLink
  BY <1>1, <1>2, <1>3, <1>6, MoveKeepsBounds DEF Stages
<1>8. link' \in [nr : 1..MaxLink, state : LinkStates]
  BY <1>5, <1>6, <1>7
<1>9. TypeOK'
  <2>1. RefMod \in Nat \ {0, 1}
    BY SessionConstants
  <2>2. 1 \in 0..(RefMod - 1)
    BY ONLY <2>1
  <2>3. pduRef' \in 0..(RefMod - 1)
    BY <1>2, <2>2
  <2> QED
    BY <1>1, <1>2, <1>3, <1>8, <2>3, NothingSent DEF TypeOK
<1>10. StreamInv'
  <2>1. 1..Len(toPlc') = {} /\ 1..Len(toClient') = {}
    BY ONLY <1>2, EmptyCases
  <2> QED
    BY <1>2, <1>4, <2>1 DEF StreamInv
<1>11. InStep'
  BY <1>2, <1>4 DEF InStep, Silent
<1>12. Verdicts'
  BY <1>2, VerdictsKept
<1> QED
  BY <1>3, <1>7, <1>9, <1>10, <1>11, <1>12 DEF IInv, Verdicts

-----------------------------------------------------------------------------
(* The PLC and the network                                                 *)

\* A step of the network leaves the client alone.
LEMMA NetworkStep ==
  ASSUME IInv, link'.nr = link.nr,
         UNCHANGED <<pc, queue, inflight, pduRef, connected, sent, dropped, last>>
  PROVE  /\ QueueInv' /\ BoundInv' /\ Verdicts'
         /\ \A r : Current(r) => MadeOn(r, link'.nr, sent', pduRef')
         /\ \A u \in Task : pc'[u] \in Reading =>
              MadeOn(inflight'[u], link'.nr, sent', pduRef') /\ inflight'[u].id = sent'
<1>1. QueueInv'
  BY DEF IInv, QueueInv, Owns
<1>2. BoundInv'
  <2>1. Askers' = Askers /\ Dialers' = Dialers
    BY DEF Askers, Dialers
  <2> QED
    BY <2>1 DEF IInv, BoundInv
<1>3. Verdicts'
  BY VerdictsKept
<1> QED
  BY <1>1, <1>2, <1>3 DEF IInv, StreamInv, Current

\* In step, what the network does to the one exchange that is going on is all
\* that matters.
LEMMA NetworkInStep ==
  ASSUME IInv, UNCHANGED <<pc, inflight, connected, dropped>>,
         connected /\ ~dropped /\ Silent => Silent',
         ASSUME NEW t \in Task, pc[t] \in Reading, OneExchange(inflight[t], pc[t])
         PROVE  OneExchange(inflight[t], pc[t])'
  PROVE  InStep'
BY DEF IInv, InStep

\* The head of the answer to the oldest request.
LEMMA PlcHeaderStep == ASSUME IInv, PlcHeader PROVE IInv'
<1> DEFINE x == HeaderOf(Head(toPlc))
<1>1. TypeOK /\ toPlc \in Seq(Request) /\ toClient \in Seq(Piece)
  BY DEF IInv, TypeOK
<1>2. /\ toPlc # <<>> /\ ~half /\ half' = TRUE /\ toClient' = Append(toClient, x)
      /\ UNCHANGED <<pc, queue, inflight, pduRef, connected, link, toPlc, sent, dropped, last>>
  BY DEF PlcHeader, HeaderOf
<1>3. /\ QueueInv' /\ BoundInv' /\ Verdicts'
      /\ \A r : Current(r) => MadeOn(r, link'.nr, sent', pduRef')
      /\ \A u \in Task : pc'[u] \in Reading =>
           MadeOn(inflight'[u], link'.nr, sent', pduRef') /\ inflight'[u].id = sent'
  BY <1>2, NetworkStep
<1>4. Head(toPlc) \in Request /\ Current(Head(toPlc))
  <2>1. 1 \in 1..Len(toPlc) /\ Head(toPlc) = toPlc[1] /\ Head(toPlc) \in Request
    BY <1>1, <1>2, TailCases
  <2> QED
    BY <2>1 DEF IInv, StreamInv
<1>5. x \in Piece /\ x.of = Head(toPlc)
  BY <1>4 DEF HeaderOf, Piece
<1> HIDE DEF x
<1>6. TypeOK'
  <2>1. toClient' \in Seq(Piece)
    BY <1>1, <1>2, <1>5
  <2> QED
    BY <1>1, <1>2, <2>1 DEF TypeOK
<1>7. StreamInv'
  <2>1. ASSUME NEW i \in 1..Len(toClient') PROVE MadeOn(toClient'[i].of, link'.nr, sent', pduRef')
    <3>1. (i \in 1..Len(toClient) /\ toClient'[i] = toClient[i]) \/ toClient'[i] = x
      <4>1. toClient \in Seq(Piece) /\ x \in Piece /\ toClient' = Append(toClient, x)
        BY Zenon, <1>1, <1>2, <1>5
      <4>2. PICK q, n : q = toClient /\ n = toClient'
        OBVIOUS
      <4>3. q \in Seq(Piece) /\ n = Append(q, x) /\ i \in 1..Len(n)
        BY Zenon, <2>1, <4>1, <4>2
      <4>4. (i \in 1..Len(q) /\ n[i] = q[i]) \/ n[i] = x
        BY ONLY <4>1, <4>3, AppendCases
      <4> QED
        BY Zenon, <4>2, <4>4
    <3>2. \A j \in 1..Len(toClient) : Current(toClient[j].of)
      BY DEF IInv, StreamInv
    <3> QED
      BY <1>3, <1>4, <1>5, <3>1, <3>2
  <2>2. ASSUME NEW i \in 1..Len(toPlc') PROVE MadeOn(toPlc'[i], link'.nr, sent', pduRef')
    BY <1>2, <1>3 DEF IInv, StreamInv
  <2> QED
    BY <1>2, <1>3, <2>1, <2>2 DEF StreamInv, Current
<1>8. InStep'
  <2>1. ASSUME NEW t \in Task, pc[t] \in Reading, OneExchange(inflight[t], pc[t])
        PROVE  OneExchange(inflight[t], pc[t])'
    <3> DEFINE r == inflight[t]
    <3>1. pc[t] = "header" /\ toPlc = <<r>> /\ toClient = <<>>
      BY <1>2, <2>1 DEF OneExchange
    <3>2. \A y : Append(<<>>, y) = <<y>>
      OBVIOUS
    <3>3. toClient' = <<HeaderOf(r)>>
      BY <1>2, <3>1, <3>2 DEF x
    <3> QED
      BY <1>2, <3>1, <3>3 DEF OneExchange
  <2> QED
    BY Zenon, <1>2, <2>1, NetworkInStep DEF Silent
<1> QED
  BY <1>3, <1>6, <1>7, <1>8 DEF IInv, Verdicts

\* The rest of it, or all there is of it.
LEMMA PlcEndStep == ASSUME IInv, PlcPayload \/ PlcRunt PROVE IInv'
<1>1. TypeOK /\ toPlc \in Seq(Request) /\ toClient \in Seq(Piece)
  BY DEF IInv, TypeOK
<1>2. PICK x :
        /\ (half /\ x \in RestsOf(Head(toPlc))) \/ (~half /\ x = RuntOf(Head(toPlc)))
        /\ half \/ toPlc # <<>>
        /\ half' = FALSE /\ toClient' = Append(toClient, x) /\ toPlc' = Tail(toPlc)
        /\ UNCHANGED <<pc, queue, inflight, pduRef, connected, link, sent, dropped, last>>
  <2>1. half \in BOOLEAN
    BY <1>1 DEF TypeOK
  <2>2. CASE PlcPayload
    BY <2>2 DEF PlcPayload, RestsOf
  <2>3. CASE PlcRunt
    BY <2>1, <2>3 DEF PlcRunt, RuntOf
  <2> QED
    BY Zenon, <2>2, <2>3
<1>3. /\ QueueInv' /\ BoundInv' /\ Verdicts'
      /\ \A r : Current(r) => MadeOn(r, link'.nr, sent', pduRef')
      /\ \A u \in Task : pc'[u] \in Reading =>
           MadeOn(inflight'[u], link'.nr, sent', pduRef') /\ inflight'[u].id = sent'
  BY <1>2, NetworkStep
<1>4. toPlc # <<>> /\ Head(toPlc) \in Request /\ Current(Head(toPlc))
  <2>1. toPlc # <<>>
    BY <1>2 DEF IInv, StreamInv
  <2>2. 1 \in 1..Len(toPlc) /\ Head(toPlc) = toPlc[1] /\ Head(toPlc) \in Request
    BY <1>1, <2>1, TailCases
  <2> QED
    BY <2>1, <2>2 DEF IInv, StreamInv
<1>5. x \in Piece /\ x.of = Head(toPlc)
  <2>1. PICK p \in {"payload", "garbled", "runt"} : x = [part |-> p, of |-> Head(toPlc)]
    BY <1>2 DEF RestsOf, RuntOf
  <2> QED
    BY <1>4, <2>1 DEF Piece
<1>6. TypeOK'
  <2>1. toClient' \in Seq(Piece) /\ toPlc' \in Seq(Request)
    BY <1>1, <1>2, <1>4, <1>5
  <2> QED
    BY Zenon, <1>1, <1>2, <2>1 DEF TypeOK
<1>7. StreamInv'
  <2>1. ASSUME NEW i \in 1..Len(toClient') PROVE MadeOn(toClient'[i].of, link'.nr, sent', pduRef')
    <3>1. (i \in 1..Len(toClient) /\ toClient'[i] = toClient[i]) \/ toClient'[i] = x
      <4>1. toClient \in Seq(Piece) /\ x \in Piece /\ toClient' = Append(toClient, x)
        BY Zenon, <1>1, <1>2, <1>5
      <4>2. PICK q, n : q = toClient /\ n = toClient'
        OBVIOUS
      <4>3. q \in Seq(Piece) /\ n = Append(q, x) /\ i \in 1..Len(n)
        BY Zenon, <2>1, <4>1, <4>2
      <4>4. (i \in 1..Len(q) /\ n[i] = q[i]) \/ n[i] = x
        BY ONLY <4>1, <4>3, AppendCases
      <4> QED
        BY Zenon, <4>2, <4>4
    <3>2. \A j \in 1..Len(toClient) : Current(toClient[j].of)
      BY DEF IInv, StreamInv
    <3> QED
      BY <1>3, <1>4, <1>5, <3>1, <3>2
  <2>2. ASSUME NEW i \in 1..Len(toPlc') PROVE MadeOn(toPlc'[i], link'.nr, sent', pduRef')
    <3>1. i + 1 \in 1..Len(toPlc) /\ toPlc'[i] = toPlc[i + 1]
      BY <1>1, <1>2, <1>4, TailCases
    <3> QED
      BY <1>3, <3>1 DEF IInv, StreamInv
  <2> QED
    BY <1>2, <1>3, <2>1, <2>2 DEF StreamInv, Current
<1>8. InStep'
  <2>1. ASSUME NEW t \in Task, pc[t] \in Reading, OneExchange(inflight[t], pc[t])
        PROVE  OneExchange(inflight[t], pc[t])'
    <3> DEFINE r == inflight[t]
    <3>1. toPlc = <<r>> /\ toPlc' = <<>>
      <4>1. toPlc = <<r>>
        BY <1>2, <2>1 DEF OneExchange
      <4>2. Tail(<<r>>) = <<>>
        OBVIOUS
      <4> QED
        BY <1>2, <4>1, <4>2
    <3>2. (half /\ x \in RestsOf(r)) \/ (~half /\ x = RuntOf(r))
      <4>1. Head(<<r>>) = r
        OBVIOUS
      <4> QED
        BY <1>2, <3>1, <4>1
    <3>3. CASE pc[t] = "header" /\ half /\ toClient = <<HeaderOf(r)>>
      <4>1. toClient' = <<HeaderOf(r), x>>
        BY <1>2, <3>3, SecondPiece
      <4> QED
        BY Zenon, <1>2, <3>1, <3>2, <3>3, <4>1 DEF OneExchange
    <3>4. CASE ~(pc[t] = "header" /\ half) /\ toClient = <<>>
      <4>1. \A y : Append(<<>>, y) = <<y>>
        OBVIOUS
      <4>2. toClient' = <<x>>
        BY <1>2, <3>4, <4>1
      <4> QED
        BY <1>2, <2>1, <3>1, <3>2, <3>4, <4>2 DEF OneExchange
    <3> QED
      BY <1>2, <2>1, <3>1, <3>3, <3>4 DEF OneExchange
  <2> QED
    BY Zenon, <1>2, <2>1, NetworkInStep DEF Silent
<1> QED
  BY <1>3, <1>6, <1>7, <1>8 DEF IInv, Verdicts

\* The peer stops reading.
LEMMA StallStep == ASSUME IInv, Stall PROVE IInv'
<1>1. TypeOK /\ link \in [nr : 1..MaxLink, state : LinkStates]
  BY DEF IInv, TypeOK
<1>2. /\ link' = [link EXCEPT !.state = "stalled"]
      /\ UNCHANGED <<pc, queue, inflight, pduRef, connected, stream, sent, dropped, last>>
  BY DEF Stall
<1>3. link'.nr = link.nr /\ link' \in [nr : 1..MaxLink, state : LinkStates]
  BY <1>1, <1>2 DEF LinkStates
<1>4. QueueInv' /\ BoundInv' /\ Verdicts'
  BY <1>2, <1>3, NetworkStep
<1>5. TypeOK'
  BY <1>1, <1>2, <1>3 DEF TypeOK, stream
<1>6. StreamInv'
  BY <1>2, <1>3, StreamKept
<1>7. InStep'
  BY <1>2, InStepKept
<1> QED
  BY <1>4, <1>5, <1>6, <1>7 DEF IInv, Verdicts

\* The peer closes or resets: what was on its way may be lost, but nothing
\* of an earlier exchange appears.
LEMMA BreakStep == ASSUME IInv, Break PROVE IInv'
<1>1. /\ TypeOK /\ toPlc \in Seq(Request) /\ toClient \in Seq(Piece)
      /\ link \in [nr : 1..MaxLink, state : LinkStates]
  BY DEF IInv, TypeOK
<1>2. /\ link' = [link EXCEPT !.state = "gone"] /\ toPlc' = <<>> /\ half' = FALSE
      /\ toClient' = toClient \/ toClient' = <<>>
      /\ UNCHANGED <<pc, queue, inflight, pduRef, connected, sent, dropped, last>>
  BY DEF Break
<1>3. link'.nr = link.nr /\ link' \in [nr : 1..MaxLink, state : LinkStates]
  BY <1>1, <1>2 DEF LinkStates
<1>4. /\ QueueInv' /\ BoundInv' /\ Verdicts'
      /\ \A r : Current(r) => MadeOn(r, link'.nr, sent', pduRef')
      /\ \A u \in Task : pc'[u] \in Reading =>
           MadeOn(inflight'[u], link'.nr, sent', pduRef') /\ inflight'[u].id = sent'
  BY <1>2, <1>3, NetworkStep
<1>5. TypeOK'
  <2>1. toClient' \in Seq(Piece) /\ toPlc' \in Seq(Request)
    BY <1>1, <1>2, NothingSent
  <2> QED
    BY <1>1, <1>2, <1>3, <2>1 DEF TypeOK
<1>6. StreamInv'
  <2>1. ASSUME NEW i \in 1..Len(toClient') PROVE MadeOn(toClient'[i].of, link'.nr, sent', pduRef')
    <3>1. toClient' = toClient
      BY <1>2
    <3> QED
      BY <1>4, <3>1 DEF IInv, StreamInv
  <2> QED
    BY <1>2, <1>4, <2>1 DEF StreamInv, Current
<1>7. InStep'
  <2>1. ASSUME NEW t \in Task, pc[t] \in Reading, OneExchange(inflight[t], pc[t])
        PROVE  OneExchange(inflight[t], pc[t])'
    BY <1>2, <2>1 DEF OneExchange
  <2> QED
    BY <1>2, <2>1, NetworkInStep DEF Silent
<1> QED
  BY <1>4, <1>5, <1>6, <1>7 DEF IInv, Verdicts

-----------------------------------------------------------------------------
(* The theorems                                                            *)

\* from_transport: connected, in step, nothing asked yet.
LEMMA SessionInit == Init => IInv
<1> SUFFICES ASSUME Init PROVE IInv
  OBVIOUS
<1>1. /\ pc = [t \in Task |-> "idle"] /\ queue = <<>> /\ inflight = [t \in Task |-> None]
      /\ pduRef = 1 /\ connected = TRUE /\ link = [nr |-> 1, state |-> "up"]
      /\ toPlc = <<>> /\ toClient = <<>> /\ half = FALSE
      /\ sent = 0 /\ dropped = FALSE /\ last = None
  BY DEF Init
<1>2. \A t \in Task : pc[t] \notin Reading /\ pc[t] = "idle"
  BY <1>1 DEF Reading
<1>3. TypeOK
  <2>1. 1 \in 0..(RefMod - 1) /\ 0 \in 0..MaxReq /\ 1 \in 1..MaxLink
    <3>1. RefMod \in Nat \ {0, 1} /\ MaxReq \in Nat /\ MaxLink \in Nat \ {0}
      BY SessionConstants
    <3> QED
      BY ONLY <3>1
  <2>2. link \in [nr : 1..MaxLink, state : LinkStates]
    BY <1>1, <2>1 DEF LinkStates
  <2>3. pc \in [Task -> Stages] /\ inflight \in [Task -> Request \cup {None}]
    BY <1>1 DEF Stages
  <2>4. <<>> \in Seq(Task)
    OBVIOUS
  <2>5. queue \in Seq(Task)
    BY <1>1, <2>4
  <2> QED
    BY <1>1, <2>1, <2>2, <2>3, <2>5, NothingSent DEF TypeOK
<1>4. QueueInv
  <2>1. 1..Len(queue) = {}
    BY ONLY <1>1, EmptyCases
  <2> QED
    BY <1>2, <2>1 DEF QueueInv
<1>5. BoundInv
  <2>1. Askers = {} /\ Dialers = {}
    BY <1>2 DEF Askers, Dialers
  <2>2. Cardinality(Askers) = 0 /\ Cardinality(Dialers) = 0
    BY <2>1, FS_EmptySet
  <2>3. MaxReq \in Nat /\ MaxLink \in Nat \ {0}
    BY SessionConstants
  <2>4. sent = 0 /\ link.nr = 1
    BY <1>1
  <2> QED
    BY ONLY <2>2, <2>3, <2>4 DEF BoundInv
<1>6. StreamInv /\ InStep
  <2>1. 1..Len(toPlc) = {} /\ 1..Len(toClient) = {}
    BY ONLY <1>1, EmptyCases
  <2>2. StreamInv
    BY <1>1, <1>2, <2>1 DEF StreamInv
  <2> QED
    BY <1>1, <1>2, <2>2 DEF InStep, Silent
<1>7. TrustWhileConnected /\ NothingFromOldTransport /\ LateAnswersTold
  BY <1>1 DEF TrustWhileConnected, NothingFromOldTransport, LateAnswersTold
<1> QED
  BY <1>3, <1>4, <1>5, <1>6, <1>7 DEF IInv

\* Every step keeps the invariant.
LEMMA SessionNext == IInv /\ [Next]_vars => IInv'
<1> SUFFICES ASSUME IInv, [Next]_vars PROVE IInv'
  OBVIOUS
<1>1. ASSUME NEW t \in Task, StartOp(t) PROVE IInv'
  BY <1>1, StartOpStep
<1>2. ASSUME NEW t \in Task, Send(t) PROVE IInv'
  BY <1>2, SendStep
<1>3. ASSUME NEW t \in Task, SendError(t) PROVE IInv'
  BY <1>3, SendErrorStep
<1>4. ASSUME NEW t \in Task, ReadHeader(t) PROVE IInv'
  BY <1>4, ReadHeaderStep
<1>5. ASSUME NEW t \in Task, ReadPayload(t) PROVE IInv'
  BY <1>5, ReadPayloadStep
<1>6. ASSUME NEW t \in Task, Unexpected(t) \/ Swallow(t) PROVE IInv'
  BY <1>6, UnexpectedStep, SwallowStep
<1>7. ASSUME NEW t \in Task, ReadError(t) PROVE IInv'
  BY <1>7, ReadErrorStep
<1>8. ASSUME NEW t \in Task, DropFuture(t) PROVE IInv'
  BY <1>8, DropFutureStep
<1>9. ASSUME NEW t \in Task, StartReconnect(t) \/ DialError(t) \/ DialOk(t) \/ Swap(t) PROVE IInv'
  BY <1>9, StartReconnectStep, DialErrorStep, DialOkStep, SwapStep
<1>10. CASE PlcHeader \/ PlcPayload \/ PlcRunt \/ Stall \/ Break
  BY <1>10, PlcHeaderStep, PlcEndStep, StallStep, BreakStep
<1>11. CASE UNCHANGED vars
  <2>1. /\ link'.nr = link.nr /\ link' = link /\ UNCHANGED <<stream, connected, dropped>>
        /\ UNCHANGED <<pc, queue, inflight, pduRef, connected, sent, dropped, last>>
    BY <1>11 DEF vars, stream
  <2>2. QueueInv' /\ BoundInv' /\ Verdicts'
    BY <2>1, NetworkStep
  <2>3. TypeOK'
    BY <2>1 DEF IInv, TypeOK, stream
  <2>4. StreamInv'
    BY <2>1, StreamKept
  <2>5. InStep'
    BY <2>1, InStepKept
  <2> QED
    BY <2>2, <2>3, <2>4, <2>5 DEF IInv, Verdicts
<1> QED
  BY <1>1, <1>2, <1>3, <1>4, <1>5, <1>6, <1>7, <1>8, <1>9, <1>10, <1>11 DEF Next

\* The invariant, of every behaviour of the client, its PLC and its callers.
THEOREM SessionInvariant == Spec => []IInv
BY SessionInit, SessionNext, PTL DEF Spec

\* The state of Inner and of the stream keeps its types; sent and link.nr
\* never pass the bounds, which therefore stop no exchange that has begun.
THEOREM SessionTypeCorrect == Spec => []TypeOK
<1>1. IInv => TypeOK
  BY DEF IInv
<1> QED
  BY <1>1, SessionInvariant, PTL

\* The mutex of `Inner` works as a mutex: two tasks are never inside an
\* exchange together, and a task that is owns the lock.
THEOREM SessionExclusive ==
  Spec => [](\A t, u \in Task : pc[t] \in Reading /\ pc[u] \in Reading => t = u)
<1>1. IInv => \A t, u \in Task : pc[t] \in Reading /\ pc[u] \in Reading => t = u
  BY DEF IInv, QueueInv, Owns
<1> QED
  BY <1>1, SessionInvariant, PTL

\* While is_connected() and no future was dropped inside recv_s7, an exchange
\* returns the answer to its own request, for any number of tasks sharing
\* the client, of requests and of reconnects, and any width of pdu_ref.
THEOREM SessionTrust == Spec => []TrustWhileConnected
<1>1. IInv => TrustWhileConnected
  BY DEF IInv
<1> QED
  BY <1>1, SessionInvariant, PTL

\* Nothing of an abandoned transport is taken for an answer after reconnect,
\* connected or not, dropped futures or not.
THEOREM SessionFreshTransport == Spec => []NothingFromOldTransport
<1>1. IInv => NothingFromOldTransport
  BY DEF IInv
<1> QED
  BY <1>1, SessionInvariant, PTL

\* An answer that is not the caller's own is to an earlier request, and unless
\* it is RefMod requests late or more, its reference gives it away: what a
\* comparison of pdu_ref in recv_s7 could catch, for any number of requests.
THEOREM SessionLateAnswers == Spec => []LateAnswersTold
<1>1. IInv => LateAnswersTold
  BY DEF IInv
<1> QED
  BY <1>1, SessionInvariant, PTL

\* With no more requests than references (2^16 in the code), references of
\* different requests of a transport never coincide.
THEOREM SessionRefs == MaxReq <= RefMod => (Spec => []RefTellsAnswersApart)
<1> SUFFICES ASSUME MaxReq <= RefMod PROVE Spec => []RefTellsAnswersApart
  OBVIOUS
<1>1. IInv => RefTellsAnswersApart
  <2> SUFFICES ASSUME IInv, last # None, last.got.id # last.asked.id
               PROVE  last.got.ref # last.asked.ref
    BY DEF RefTellsAnswersApart
  <2>1. last.got.id \in 1..MaxReq /\ last.asked.id \in 1..MaxReq
    BY DEF IInv, TypeOK, Request
  <2>2. MaxReq \in Nat /\ RefMod \in Nat
    BY SessionConstants
  <2>3. last.asked.id - last.got.id < RefMod
    BY ONLY MaxReq <= RefMod, <2>1, <2>2
  <2> QED
    BY <2>3 DEF IInv, LateAnswersTold
<1> QED
  BY <1>1, SessionInvariant, PTL
=============================================================================
