-------------------------- MODULE MultiVarsProofs ---------------------------
(***************************************************************************)
(* Proofs about MultiVars, for every list of items, every PDU size and     *)
(* every limit of items per PDU.                                           *)
(***************************************************************************)
EXTENDS MultiVars, FairQueueProofs, SequenceTheorems, WellFoundedInduction

(* Numbers                                                                 *)

\* Every set of numbers has a least one: what no step of a loop breaks first is never
\* broken.
LEMMA LeastOf ==
  ASSUME NEW N \in SUBSET Nat, N # {}
  PROVE  \E x \in N : \A y \in N : x <= y
<1>1. PICK R : R = OpToRel(<, Nat)
  OBVIOUS
<1>2. \A x, y \in Nat : x < y => <<x, y>> \in R
  BY <1>1 DEF OpToRel
<1>3. PICK x \in N : \A y \in N : ~(<<y, x>> \in R)
  <2>1. IsWellFoundedOn(R, Nat)
    BY <1>1, NatLessThanWellFounded
  <2> QED
    BY <2>1, WFMin
<1>4. \A y \in N : x <= y
  <2> SUFFICES ASSUME NEW y \in N PROVE x <= y
    OBVIOUS
  <2>1. x \in Nat /\ y \in Nat /\ ~(y < x)
    BY <1>2, <1>3
  <2> QED
    BY ONLY <2>1
<1> QED
  BY <1>4

-----------------------------------------------------------------------------
(* Sums of lists                                                           *)

\* A list of n numbers and its sums.
SumsOf(g, n, f) ==
  /\ f \in [0..n -> Nat] /\ f[0] = 0
  /\ \A k \in 1..n : f[k] = f[k - 1] + g[k]

\* Every list has its sums: there is no shortest one without.
LEMMA SumsExist ==
  ASSUME NEW g \in Seq(Nat)
  PROVE  \A n \in 0..Len(g) : \E f : SumsOf(g, n, f)
<1> DEFINE N == {n \in 0..Len(g) : ~\E f : SumsOf(g, n, f)}
<1> SUFFICES ASSUME N # {} PROVE FALSE
  OBVIOUS
<1>1. Len(g) \in Nat /\ \A k \in 1..Len(g) : g[k] \in Nat
  OBVIOUS
<1>2. N \in SUBSET Nat
  BY <1>1
<1>3. PICK m \in N : \A y \in N : m <= y
  BY <1>2, LeastOf
<1>4. m \in 0..Len(g) /\ m \in Nat
  BY <1>2
<1>5. CASE m = 0
  <2>1. SumsOf(g, 0, [k \in 0..0 |-> 0])
    BY DEF SumsOf
  <2> QED
    BY <1>5, <2>1
<1>6. CASE m # 0
  <2>1. m - 1 \in 0..Len(g) /\ ~(m <= m - 1)
    BY <1>1, <1>4, <1>6
  <2>2. PICK f : SumsOf(g, m - 1, f)
    BY <1>3, <2>1
  <2> DEFINE h == [k \in 0..m |-> IF k = m THEN f[m - 1] + g[m] ELSE f[k]]
  <2>3. f \in [0..(m - 1) -> Nat] /\ f[0] = 0 /\ \A k \in 1..(m - 1) : f[k] = f[k - 1] + g[k]
    BY <2>2 DEF SumsOf
  <2>4. m - 1 \in 0..(m - 1) /\ m \in 1..Len(g) /\ f[m - 1] + g[m] \in Nat
    BY <1>1, <1>4, <1>6, <2>3
  <2>5. h \in [0..m -> Nat] /\ h[0] = 0
    BY <1>4, <1>6, <2>3, <2>4
  <2>6. ASSUME NEW k \in 1..m PROVE h[k] = h[k - 1] + g[k]
    <3>1. k - 1 \in 0..m /\ k - 1 # m /\ k \in 0..m /\ h[k - 1] = f[k - 1]
      BY <1>4
    <3>2. CASE k = m
      BY <3>1, <3>2
    <3>3. CASE k # m
      <4>1. k \in 1..(m - 1)
        BY <1>4, <3>3
      <4> QED
        BY <2>3, <3>1, <3>3, <4>1
    <3> QED
      BY <3>2, <3>3
  <2> HIDE DEF h
  <2>7. SumsOf(g, m, h)
    BY <2>5, <2>6 DEF SumsOf
  <2> QED
    BY <2>7
<1> QED
  BY <1>5, <1>6

\* Sums gives them.
LEMMA SumsAre ==
  ASSUME NEW g \in Seq(Nat)
  PROVE  SumsOf(g, Len(g), Sums(g))
<1> DEFINE D(s) == [n \in 0..Len(g) |-> IF n = 0 THEN 0 ELSE s[n - 1] + g[n]]
<1>1. Len(g) \in Nat /\ Len(g) \in 0..Len(g)
  OBVIOUS
<1>2. PICK f : SumsOf(g, Len(g), f)
  BY <1>1, SumsExist
<1>3. f = D(f)
  BY <1>1, <1>2 DEF SumsOf
<1>4. PICK s : s = Sums(g)
  OBVIOUS
<1>5. s = D(s)
  BY <1>3, <1>4 DEF Sums
<1> DEFINE N == {n \in 0..Len(g) : s[n] # f[n]}
<1>6. N = {}
  <2> SUFFICES ASSUME N # {} PROVE FALSE
    OBVIOUS
  <2>1. N \in SUBSET Nat
    BY <1>1
  <2>2. PICK m \in N : \A y \in N : m <= y
    BY <2>1, LeastOf
  <2>3. m \in 0..Len(g) /\ m \in Nat /\ s[m] # f[m]
    BY <2>1
  <2>4. s[m] = (IF m = 0 THEN 0 ELSE s[m - 1] + g[m]) /\ f[m] = (IF m = 0 THEN 0 ELSE f[m - 1] + g[m])
    BY <1>3, <1>5, <2>3
  <2>5. m # 0
    BY <2>3, <2>4
  <2>6. m - 1 \in 0..Len(g) /\ ~(m <= m - 1)
    BY <1>1, <2>3, <2>5
  <2>7. s[m - 1] = f[m - 1]
    BY <2>2, <2>6
  <2> QED
    BY <2>3, <2>4, <2>7
<1>7. DOMAIN s = 0..Len(g) /\ s = [n \in DOMAIN s |-> s[n]]
  BY <1>5
<1>8. DOMAIN f = 0..Len(g) /\ f = [n \in DOMAIN f |-> f[n]]
  BY <1>3
<1>9. s = f
  BY <1>6, <1>7, <1>8
<1> QED
  BY <1>2, <1>4, <1>9

\* The sums of numbers only grow.
LEMMA SumsMonotone ==
  ASSUME NEW g, NEW n \in Nat, NEW f, SumsOf(g, n, f), \A k \in 1..n : g[k] \in Nat,
         NEW i \in 0..n, NEW j \in 0..n, i <= j
  PROVE  f[i] <= f[j]
<1> DEFINE N == {k \in i..n : ~(f[i] <= f[k])}
<1>1. f \in [0..n -> Nat] /\ \A k \in 1..n : f[k] = f[k - 1] + g[k]
  BY DEF SumsOf
<1>2. N = {}
  <2> SUFFICES ASSUME N # {} PROVE FALSE
    OBVIOUS
  <2>1. N \in SUBSET Nat
    OBVIOUS
  <2>2. PICK m \in N : \A y \in N : m <= y
    BY <2>1, LeastOf
  <2>3. m \in Nat /\ i <= m /\ m <= n /\ ~(f[i] <= f[m])
    OBVIOUS
  <2>4. f[i] \in Nat /\ i \in Nat
    BY <1>1
  <2>5. i # m
    BY <2>3, <2>4
  <2>6. m \in 1..n /\ m - 1 \in i..n /\ m - 1 \in 0..n /\ ~(m <= m - 1)
    BY <2>3, <2>4, <2>5
  <2>7. f[i] <= f[m - 1]
    BY <2>2, <2>6
  <2>8. PICK a, b, c : a = f[i] /\ b = f[m - 1] /\ c = g[m]
    OBVIOUS
  <2>9. a \in Nat /\ b \in Nat /\ c \in Nat /\ a <= b /\ f[m] = b + c
    BY <1>1, <2>4, <2>6, <2>7, <2>8
  <2>10. a <= b + c
    BY ONLY <2>9
  <2> QED
    BY <2>3, <2>8, <2>9, <2>10
<1>3. j \in i..n
  OBVIOUS
<1> QED
  BY <1>2, <1>3

\* The inductive invariant.  While the call runs there are items left, and
\* the batch being built is within the limit; an exchange is never empty
\* because the inner loop takes the first item unconditionally.  As long as
\* nothing failed, the items acknowledged are exactly those before start.
IInv ==
  /\ TypeOK
  /\ BatchesPartition
  /\ end - start <= MaxItems
  /\ outcome = "running" => start < Len(items)
  /\ outcome = "ok" => start = Len(items)
  /\ outcome # "err" => Len(acked) = start
  /\ \A i \in 1..Len(acked) : acked[i] = i

\* A call starts with nothing sent; an empty list is done at once.
LEMMA MultiVarsInit == Init => IInv
<1> SUFFICES ASSUME Init PROVE IInv
  OBVIOUS
<1>1. items \in Seq(Nat) /\ Len(items) \in Nat
  BY MultiVarsConstants DEF Init
<1>2. TypeOK
  BY <1>1 DEF Init, TypeOK
<1>3. BatchesPartition
  BY DEF Init, BatchesPartition
<1>4. /\ end - start <= MaxItems
      /\ outcome # "err" => Len(acked) = start
      /\ \A i \in 1..Len(acked) : acked[i] = i
  BY MultiVarsConstants DEF Init
<1>5. /\ outcome = "running" => start < Len(items)
      /\ outcome = "ok" => start = Len(items)
  BY <1>1 DEF Init
<1> QED
  BY <1>2, <1>3, <1>4, <1>5 DEF IInv

\* A batch that is sent is not empty.
LEMMA SentNotEmpty ==
  ASSUME IInv, outcome = "running", ~Fits
  PROVE  start < end /\ end - start <= MaxItems /\ start \in Nat /\ end \in Nat
<1>1. /\ items \in Seq(Nat) /\ Len(items) \in Nat /\ start \in Nat /\ end \in Nat
      /\ start <= end /\ end <= Len(items) /\ start < Len(items)
  BY MultiVarsConstants DEF IInv, TypeOK
<1>2. end # start
  BY <1>1, MultiVarsConstants DEF Fits
<1> QED
  BY <1>1, <1>2 DEF IInv

\* Sending the batch extends the partition.
LEMMA SentKeepsPartition ==
  ASSUME IInv, outcome = "running", ~Fits, batches' = Append(batches, <<start, end>>)
  PROVE  /\ batches' \in Seq(Nat \X Nat)
         /\ batches' # <<>> /\ batches'[Len(batches')] = <<start, end>>
         /\ \A i \in 1..Len(batches') :
              /\ batches'[i][1] = IF i = 1 THEN 0 ELSE batches'[i - 1][2]
              /\ batches'[i][1] < batches'[i][2]
              /\ batches'[i][2] - batches'[i][1] <= MaxItems
<1>1. start < end /\ end - start <= MaxItems /\ start \in Nat /\ end \in Nat
  BY SentNotEmpty
<1>2. /\ batches \in Seq(Nat \X Nat) /\ Len(batches) \in Nat
      /\ start = IF batches = <<>> THEN 0 ELSE batches[Len(batches)][2]
  BY DEF IInv, TypeOK, BatchesPartition
<1>3. /\ batches' \in Seq(Nat \X Nat) /\ Len(batches') = Len(batches) + 1
      /\ batches'[Len(batches) + 1] = <<start, end>>
      /\ \A i \in 1..Len(batches) : batches'[i] = batches[i]
  BY <1>1, <1>2
<1>4. ASSUME NEW i \in 1..Len(batches')
      PROVE  /\ batches'[i][1] = IF i = 1 THEN 0 ELSE batches'[i - 1][2]
             /\ batches'[i][1] < batches'[i][2]
             /\ batches'[i][2] - batches'[i][1] <= MaxItems
  <2>1. CASE i \in 1..Len(batches)
    <3>1. batches'[i] = batches[i]
      BY <1>3, <2>1
    <3>2. ASSUME i # 1 PROVE batches'[i - 1] = batches[i - 1]
      <4>1. i - 1 \in 1..Len(batches)
        BY <1>2, <2>1, <3>2
      <4> QED
        BY <1>3, <4>1
    <3> QED
      BY <2>1, <3>1, <3>2 DEF IInv, BatchesPartition
  <2>2. CASE i = Len(batches) + 1
    <3>1. batches'[i] = <<start, end>>
      BY <1>3, <2>2
    <3>2. CASE batches = <<>>
      BY <1>1, <1>2, <2>2, <3>1, <3>2
    <3>3. CASE batches # <<>>
      <4>1. Len(batches) \in 1..Len(batches) /\ i # 1 /\ i - 1 = Len(batches)
        BY <1>2, <2>2, <3>3
      <4>2. batches'[i - 1] = batches[Len(batches)]
        BY <1>3, <4>1
      <4> QED
        BY <1>1, <1>2, <3>1, <3>3, <4>1, <4>2
    <3> QED
      BY <3>2, <3>3
  <2>3. i \in 1..Len(batches) \/ i = Len(batches) + 1
    <3>1. i \in 1..(Len(batches) + 1) /\ Len(batches) \in Nat
      BY <1>2, <1>3
    <3> QED
      BY <3>1
  <2> QED
    BY <2>1, <2>2, <2>3
<1>5. batches' # <<>> /\ batches'[Len(batches')] = <<start, end>>
  <2>1. Len(batches') # 0
    BY <1>2, <1>3
  <2>2. batches' # <<>>
    BY <2>1
  <2>3. batches'[Len(batches')] = <<start, end>>
    BY <1>3
  <2> QED
    BY <2>2, <2>3
<1> QED
  BY <1>3, <1>4, <1>5

InOrder(a) == \A i \in 1..Len(a) : a[i] = i

\* Appending the positions that follow keeps acknowledgements in order.
LEMMA AckedInOrder ==
  ASSUME NEW a \in Seq(Nat), NEW k \in Nat, InOrder(a)
  PROVE  /\ a \o Positions(Len(a), k) \in Seq(Nat)
         /\ Len(a \o Positions(Len(a), k)) = Len(a) + k
         /\ InOrder(a \o Positions(Len(a), k))
<1> DEFINE s == Len(a)
           c == Positions(s, k)
<1>1. s \in Nat /\ c \in Seq(Nat) /\ Len(c) = k /\ \A i \in 1..k : c[i] = s + i
  BY DEF Positions
<1> HIDE DEF c
<1>2. /\ a \o c \in Seq(Nat) /\ Len(a \o c) = s + k
      /\ \A i \in 1..(s + k) : (a \o c)[i] = IF i <= s THEN a[i] ELSE c[i - s]
  BY <1>1, ConcatProperties
<1>3. ASSUME NEW i \in 1..(s + k) PROVE (a \o c)[i] = i
  <2>1. CASE i <= s
    BY <1>1, <1>2, <2>1 DEF InOrder
  <2>2. CASE i > s
    <3>1. i - s \in 1..k
      BY <1>1, <2>2
    <3> QED
      BY <1>1, <1>2, <2>2, <3>1
  <2>3. i <= s \/ i > s
    BY <1>1
  <2> QED
    BY <2>1, <2>2, <2>3
<1>4. InOrder(a \o c)
  BY <1>2, <1>3 DEF InOrder
<1> QED
  BY <1>2, <1>4 DEF c

-----------------------------------------------------------------------------
(* The steps                                                               *)

\* Taking one more item into the batch.
LEMMA AddItemStep == IInv /\ AddItem => IInv'
<1> SUFFICES ASSUME IInv, AddItem PROVE IInv'
  OBVIOUS
<1>1. /\ items \in Seq(Nat) /\ Len(items) \in Nat /\ start \in Nat /\ end \in Nat
      /\ start <= end /\ end < Len(items) /\ end - start < MaxItems
  BY MultiVarsConstants DEF IInv, TypeOK, AddItem, Fits
<1>2. items[end + 1] \in Nat
  BY <1>1
<1>3. ReqSize(items[end + 1]) \in Nat /\ RespSize(items[end + 1]) \in Nat
  BY <1>2 DEF ReqSize, RespSize, AddrItem, DataItem
<1>4. TypeOK'
  <2>1. /\ mode' = mode /\ items' = items /\ pdu' = pdu /\ start' = start
        /\ batches' = batches /\ acked' = acked /\ outcome' = outcome
    BY DEF AddItem, input
  <2>2. req' \in Nat /\ resp' \in Nat
    <3>1. req \in Nat /\ resp \in Nat
      BY DEF IInv, TypeOK
    <3>2. req' = req + ReqSize(items[end + 1]) /\ resp' = resp + RespSize(items[end + 1])
      BY DEF AddItem
    <3> QED
      BY <1>3, <3>1, <3>2
  <2>3. start \in 0..Len(items) /\ end' \in start..Len(items)
    BY <1>1 DEF AddItem
  <2> QED
    BY <2>1, <2>2, <2>3 DEF IInv, TypeOK
<1>5. BatchesPartition'
  BY DEF IInv, BatchesPartition, AddItem
<1> QED
  <2>1. end' - start' <= MaxItems /\ items' = items /\ start' = start
        /\ outcome' = outcome /\ acked' = acked
    BY <1>1, MultiVarsConstants DEF AddItem, input
  <2> QED
    BY <1>4, <1>5, <2>1 DEF IInv

\* A successful exchange.
LEMMA ExchangeStep == IInv /\ Exchange => IInv'
<1> SUFFICES ASSUME IInv, Exchange PROVE IInv'
  OBVIOUS
<1>1. outcome = "running" /\ ~Fits /\ batches' = Append(batches, <<start, end>>)
  BY DEF Exchange
<1>2. start < end /\ end - start <= MaxItems /\ start \in Nat /\ end \in Nat /\ end - start \in Nat
  BY <1>1, SentNotEmpty
<1>3. /\ acked' \in Seq(Nat) /\ Len(acked') = end
      /\ InOrder(acked')
  <2>1. acked \in Seq(Nat) /\ Len(acked) = start /\ InOrder(acked)
    BY <1>1 DEF IInv, TypeOK, InOrder
  <2>2. acked' = acked \o Positions(Len(acked), end - start)
    BY <2>1 DEF Exchange
  <2>3. acked' \in Seq(Nat) /\ Len(acked') = Len(acked) + (end - start) /\ InOrder(acked')
    BY <1>2, <2>1, <2>2, AckedInOrder
  <2>4. start + (end - start) = end
    BY <1>2
  <2> QED
    BY <2>1, <2>3, <2>4
<1>4. /\ Len(items) \in Nat /\ end <= Len(items) /\ items' = items
      /\ start' = end /\ end' = end /\ outcome' = IF end = Len(items) THEN "ok" ELSE "running"
  BY <1>2, MultiVarsConstants DEF IInv, TypeOK, Exchange, input
<1>5. BatchesPartition' /\ batches' \in Seq(Nat \X Nat)
  <2>1. /\ batches' \in Seq(Nat \X Nat)
        /\ batches' # <<>> /\ batches'[Len(batches')] = <<start, end>>
        /\ \A i \in 1..Len(batches') :
             /\ batches'[i][1] = IF i = 1 THEN 0 ELSE batches'[i - 1][2]
             /\ batches'[i][1] < batches'[i][2]
             /\ batches'[i][2] - batches'[i][1] <= MaxItems
    BY <1>1, SentKeepsPartition
  <2> QED
    BY <1>4, <2>1 DEF BatchesPartition
<1>6. TypeOK'
  BY <1>2, <1>3, <1>4, <1>5 DEF IInv, TypeOK, Exchange, input
<1> QED
  BY <1>2, <1>3, <1>4, <1>5, <1>6, MultiVarsConstants DEF IInv, InOrder

\* A failed exchange ends the call.
LEMMA ExchangeFailsStep == IInv /\ ExchangeFails => IInv'
<1> SUFFICES ASSUME IInv, ExchangeFails PROVE IInv'
  OBVIOUS
<1>1. outcome = "running" /\ ~Fits /\ batches' = Append(batches, <<start, end>>)
  BY DEF ExchangeFails
<1>2. start < end /\ end - start <= MaxItems /\ start \in Nat /\ end \in Nat
  BY <1>1, SentNotEmpty
<1>3. acked' \in Seq(Nat) /\ InOrder(acked')
  <2>1. acked \in Seq(Nat) /\ Len(acked) = start /\ InOrder(acked)
    BY <1>1 DEF IInv, TypeOK, InOrder
  <2>2. PICK k \in 0..(end - start - 1) : acked' = acked \o Positions(start, k)
    BY DEF ExchangeFails
  <2>3. k \in Nat
    BY <1>2
  <2> QED
    BY <2>1, <2>2, <2>3, AckedInOrder
<1>4. outcome' = "err" /\ UNCHANGED <<input, start, end, req, resp>>
  BY DEF ExchangeFails
<1>5. BatchesPartition' /\ batches' \in Seq(Nat \X Nat)
  BY <1>1, <1>4, SentKeepsPartition DEF BatchesPartition
<1>6. TypeOK'
  BY <1>3, <1>4, <1>5 DEF IInv, TypeOK, input
<1> QED
  BY <1>3, <1>4, <1>5, <1>6 DEF IInv, input, InOrder

\* Every step keeps the invariant.
LEMMA MultiVarsNext == IInv /\ [Next]_vars => IInv'
<1> SUFFICES ASSUME IInv, [Next]_vars PROVE IInv'
  OBVIOUS
<1>1. CASE UNCHANGED vars
  BY <1>1 DEF vars, input, IInv, TypeOK, BatchesPartition
<1> QED
  BY <1>1, AddItemStep, ExchangeStep, ExchangeFailsStep DEF Next

-----------------------------------------------------------------------------
(* The theorems                                                            *)

\* The loop variables of both calls always stay in range.
THEOREM MultiVarsTypeCorrect == Spec => []TypeOK
<1>1. IInv => TypeOK
  BY DEF IInv
<1> QED
  BY <1>1, MultiVarsInit, MultiVarsNext, PTL DEF Spec

\* The batches cut the items in order, without gap, overlap or empty batch.
THEOREM MultiVarsPartition == Spec => []BatchesPartition
<1>1. IInv => BatchesPartition
  BY DEF IInv
<1> QED
  BY <1>1, MultiVarsInit, MultiVarsNext, PTL DEF Spec

\* Ok is returned only when every item was acknowledged, in input order.
THEOREM MultiVarsOkMeansAllAcked == Spec => []OkMeansAllAcked
<1>1. IInv => OkMeansAllAcked
  <2> SUFFICES ASSUME IInv PROVE OkMeansAllAcked
    OBVIOUS
  <2>1. acked \in Seq(Nat) /\ \A i \in 1..Len(acked) : acked[i] = i
    BY DEF IInv, TypeOK
  <2>2. acked = [i \in 1..Len(acked) |-> i]
    BY <2>1
  <2> QED
    BY <2>2 DEF IInv, OkMeansAllAcked
<1> QED
  BY <1>1, MultiVarsInit, MultiVarsNext, PTL DEF Spec

-----------------------------------------------------------------------------
(* What the batches take                                                   *)

ReqSums == Sums([i \in DOMAIN items |-> ReqSize(items[i])])
RespSums == Sums([i \in DOMAIN items |-> RespSize(items[i])])

\* The budgets count what the present batch takes, and a batch of several items, sent or
\* not, is within them; the first item of a batch may be beyond.
Budgets ==
  /\ req = ReqSums[end] - ReqSums[start] /\ resp = RespSums[end] - RespSums[start]
  /\ end - start > 1 => pdu > 12 /\ req <= pdu - 12 /\ resp <= pdu - 12
  /\ \A i \in 1..Len(batches) :
       /\ batches[i][1] \in 0..Len(items) /\ batches[i][2] \in 0..Len(items)
       /\ batches[i][2] - batches[i][1] > 1 =>
            /\ ReqSums[batches[i][2]] - ReqSums[batches[i][1]] <= pdu - 12
            /\ RespSums[batches[i][2]] - RespSums[batches[i][1]] <= pdu - 12

\* The sizes the code computes are numbers, and a request item has 12 bytes or more.
LEMMA SizesTyped ==
  ASSUME NEW n \in Nat
  PROVE  ReqSize(n) \in Nat /\ RespSize(n) \in Nat /\ ReqSize(n) >= 12
<1>1. n % 2 \in Nat
  OBVIOUS
<1>2. DataItem(n) \in Nat
  BY <1>1 DEF DataItem
<1> QED
  BY <1>2 DEF ReqSize, RespSize, AddrItem

\* What one more item adds.
LEMMA SumsGrow ==
  ASSUME IInv
  PROVE  /\ SumsOf([i \in DOMAIN items |-> ReqSize(items[i])], Len(items), ReqSums)
         /\ SumsOf([i \in DOMAIN items |-> RespSize(items[i])], Len(items), RespSums)
<1>1. items \in Seq(Nat) /\ Len(items) \in Nat /\ DOMAIN items = 1..Len(items)
  BY MultiVarsConstants DEF IInv, TypeOK
<1>2. \A i \in DOMAIN items : items[i] \in Nat
  BY <1>1
<1>3. \A i \in DOMAIN items : ReqSize(items[i]) \in Nat /\ RespSize(items[i]) \in Nat
  BY <1>2, SizesTyped
<1> DEFINE g == [i \in DOMAIN items |-> ReqSize(items[i])]
           h == [i \in DOMAIN items |-> RespSize(items[i])]
<1>4. g \in Seq(Nat) /\ Len(g) = Len(items)
  BY <1>1, <1>3
<1>5. h \in Seq(Nat) /\ Len(h) = Len(items)
  BY <1>1, <1>3
<1> QED
  BY <1>4, <1>5, SumsAre DEF ReqSums, RespSums

\* The sums at the two ends of a batch are numbers.
LEMMA SumsTyped ==
  ASSUME IInv, NEW i \in 0..Len(items)
  PROVE  ReqSums[i] \in Nat /\ RespSums[i] \in Nat
BY SumsGrow DEF SumsOf

\* At first nothing is counted.
LEMMA BudgetsStart == Init => Budgets
<1> SUFFICES ASSUME Init PROVE Budgets
  OBVIOUS
<1>1. IInv
  BY MultiVarsInit
<1>2. 0 \in 0..Len(items)
  BY <1>1, MultiVarsConstants DEF IInv, TypeOK
<1>3. ReqSums[0] \in Nat /\ RespSums[0] \in Nat
  BY <1>1, <1>2, SumsTyped
<1> QED
  BY <1>3 DEF Init, Budgets

\* The inner loop takes one more item only when both budgets have room for it.
LEMMA AddItemBudgets == IInv /\ Budgets /\ AddItem => Budgets'
<1> SUFFICES ASSUME IInv, Budgets, AddItem PROVE Budgets'
  OBVIOUS
<1>1. /\ items \in Seq(Nat) /\ Len(items) \in Nat /\ start \in Nat /\ end \in Nat /\ pdu \in Nat
      /\ start <= end /\ end < Len(items) /\ req \in Nat /\ resp \in Nat
  BY MultiVarsConstants DEF IInv, TypeOK, AddItem, Fits
<1>2. /\ mode' = mode /\ items' = items /\ pdu' = pdu /\ start' = start /\ end' = end + 1
      /\ batches' = batches /\ req' = req + ReqSize(items[end + 1]) /\ resp' = resp + RespSize(items[end + 1])
  BY DEF AddItem, input
<1>3. ReqSums' = ReqSums /\ RespSums' = RespSums
  BY <1>2 DEF ReqSums, RespSums, ReqSize, RespSize, Sums
<1>4. PICK q : q = ReqSize(items[end + 1])
  OBVIOUS
<1>5. PICK p : p = RespSize(items[end + 1])
  OBVIOUS
<1>6. q \in Nat /\ p \in Nat /\ q >= 12
  <2>1. items[end + 1] \in Nat
    BY <1>1
  <2> QED
    BY <1>4, <1>5, <2>1, SizesTyped
<1>7. ReqSums[end + 1] = ReqSums[end] + q /\ RespSums[end + 1] = RespSums[end] + p
  <2>1. end + 1 \in 1..Len(items) /\ end + 1 \in DOMAIN items /\ (end + 1) - 1 = end
    BY <1>1
  <2> QED
    BY <1>4, <1>5, <2>1, SumsGrow DEF SumsOf
<1>8. ReqSums[end] \in Nat /\ ReqSums[start] \in Nat /\ RespSums[end] \in Nat /\ RespSums[start] \in Nat
  <2>1. end \in 0..Len(items) /\ start \in 0..Len(items)
    BY <1>1
  <2> QED
    BY <2>1, SumsTyped
<1>9. req' = ReqSums'[end'] - ReqSums'[start'] /\ resp' = RespSums'[end'] - RespSums'[start']
  <2>1. req = ReqSums[end] - ReqSums[start] /\ resp = RespSums[end] - RespSums[start]
    BY DEF Budgets
  <2>2. PICK a, b, c, d : a = ReqSums[end] /\ b = ReqSums[start] /\ c = RespSums[end] /\ d = RespSums[start]
    OBVIOUS
  <2>3. req + q = (a + q) - b /\ resp + p = (c + p) - d
    <3>1. a \in Nat /\ b \in Nat /\ c \in Nat /\ d \in Nat /\ req = a - b /\ resp = c - d
      BY <1>8, <2>1, <2>2
    <3> QED
      BY ONLY <1>6, <3>1
  <2> QED
    BY <1>2, <1>3, <1>4, <1>5, <1>7, <2>2, <2>3
<1>10. end' - start' > 1 => pdu' > 12 /\ req' <= pdu' - 12 /\ resp' <= pdu' - 12
  <2> SUFFICES ASSUME end' - start' > 1 PROVE pdu' > 12 /\ req' <= pdu' - 12 /\ resp' <= pdu' - 12
    OBVIOUS
  <2>1. end # start
    BY <1>1, <1>2
  <2>2. req + q <= Room /\ resp + p <= Room
    BY <1>4, <1>5, <2>1 DEF AddItem, Fits
  <2>3. pdu > 12
    BY <1>1, <1>6, <2>2 DEF Room
  <2>4. Room = pdu - 12
    BY <2>3 DEF Room
  <2> QED
    BY <1>2, <1>4, <1>5, <2>2, <2>3, <2>4
<1> QED
  BY <1>2, <1>3, <1>9, <1>10 DEF Budgets

\* A batch that is sent, whether the exchange succeeds or not, is within the budgets.
LEMMA SentBudgets ==
  ASSUME IInv, Budgets, UNCHANGED input, batches' = Append(batches, <<start, end>>)
  PROVE  /\ ReqSums' = ReqSums /\ RespSums' = RespSums
         /\ \A i \in 1..Len(batches') :
              /\ batches'[i][1] \in 0..Len(items') /\ batches'[i][2] \in 0..Len(items')
              /\ batches'[i][2] - batches'[i][1] > 1 =>
                /\ ReqSums'[batches'[i][2]] - ReqSums'[batches'[i][1]] <= pdu' - 12
                /\ RespSums'[batches'[i][2]] - RespSums'[batches'[i][1]] <= pdu' - 12
<1>1. mode' = mode /\ items' = items /\ pdu' = pdu
  BY DEF input
<1>2. ReqSums' = ReqSums /\ RespSums' = RespSums
  BY <1>1 DEF ReqSums, RespSums, ReqSize, RespSize, Sums
<1>3. batches \in Seq(Nat \X Nat) /\ <<start, end>> \in Nat \X Nat
  BY MultiVarsConstants DEF IInv, TypeOK
<1>4. \A i \in 1..Len(batches') : (i \in 1..Len(batches) /\ batches'[i] = batches[i]) \/ batches'[i] = <<start, end>>
  BY <1>3, AppendCases
<1>5. ASSUME NEW i \in 1..Len(batches')
      PROVE  batches'[i][1] \in 0..Len(items) /\ batches'[i][2] \in 0..Len(items)
  <2>1. CASE i \in 1..Len(batches) /\ batches'[i] = batches[i]
    BY <2>1 DEF Budgets
  <2>2. CASE batches'[i] = <<start, end>>
    <3>1. start \in 0..Len(items) /\ end \in start..Len(items) /\ Len(items) \in Nat
      BY MultiVarsConstants DEF IInv, TypeOK
    <3>2. end \in 0..Len(items)
      BY ONLY <3>1
    <3> QED
      BY <2>2, <3>1, <3>2
  <2> QED
    BY <1>4, <2>1, <2>2
<1>6. ASSUME NEW i \in 1..Len(batches'), batches'[i][2] - batches'[i][1] > 1
      PROVE  /\ ReqSums[batches'[i][2]] - ReqSums[batches'[i][1]] <= pdu - 12
             /\ RespSums[batches'[i][2]] - RespSums[batches'[i][1]] <= pdu - 12
  <2>1. CASE i \in 1..Len(batches) /\ batches'[i] = batches[i]
    BY <1>6, <2>1 DEF Budgets
  <2>2. CASE batches'[i] = <<start, end>>
    BY <1>6, <2>2 DEF Budgets
  <2> QED
    BY <1>4, <2>1, <2>2
<1> QED
  BY <1>1, <1>2, <1>5, <1>6

\* After an exchange nothing is counted.
LEMMA ExchangeBudgets == IInv /\ Budgets /\ Exchange => Budgets'
<1> SUFFICES ASSUME IInv, Budgets, Exchange PROVE Budgets'
  OBVIOUS
<1>1. /\ UNCHANGED input /\ batches' = Append(batches, <<start, end>>)
      /\ start' = end /\ end' = end /\ req' = 0 /\ resp' = 0
  BY DEF Exchange
<1>2. end \in 0..Len(items) /\ end \in Nat
  BY MultiVarsConstants DEF IInv, TypeOK
<1>3. ReqSums[end] \in Nat /\ RespSums[end] \in Nat
  BY <1>2, SumsTyped
<1>4. ReqSums' = ReqSums /\ RespSums' = RespSums
  BY <1>1, SentBudgets
<1>5. req' = ReqSums'[end'] - ReqSums'[start'] /\ resp' = RespSums'[end'] - RespSums'[start']
  BY <1>1, <1>3, <1>4
<1>6. ~(end' - start' > 1)
  BY <1>1, <1>2
<1> QED
  BY <1>1, <1>5, <1>6, SentBudgets DEF Budgets

\* A failed exchange leaves the loop variables as they are.
LEMMA ExchangeFailsBudgets == IInv /\ Budgets /\ ExchangeFails => Budgets'
<1> SUFFICES ASSUME IInv, Budgets, ExchangeFails PROVE Budgets'
  OBVIOUS
<1>1. /\ UNCHANGED input /\ batches' = Append(batches, <<start, end>>)
      /\ start' = start /\ end' = end /\ req' = req /\ resp' = resp /\ pdu' = pdu
  BY DEF ExchangeFails, input
<1>2. ReqSums' = ReqSums /\ RespSums' = RespSums
  BY <1>1, SentBudgets
<1> QED
  BY <1>1, <1>2, SentBudgets DEF Budgets

\* Every step keeps the budgets.
LEMMA BudgetsNext == IInv /\ Budgets /\ [Next]_vars => Budgets'
<1> SUFFICES ASSUME IInv, Budgets, [Next]_vars PROVE Budgets'
  OBVIOUS
<1>1. CASE UNCHANGED vars
  <2>1. /\ mode' = mode /\ items' = items /\ pdu' = pdu /\ start' = start /\ end' = end
        /\ batches' = batches /\ req' = req /\ resp' = resp
    BY <1>1 DEF vars, input
  <2>2. ReqSums' = ReqSums /\ RespSums' = RespSums
    BY <2>1 DEF ReqSums, RespSums, ReqSize, RespSize, Sums
  <2> QED
    BY <2>1, <2>2 DEF Budgets
<1> QED
  BY <1>1, AddItemBudgets, ExchangeBudgets, ExchangeFailsBudgets DEF Next

\* What a batch of several items takes on the wire.
LEMMA SentFits ==
  ASSUME IInv, Budgets, NEW i \in 1..Len(batches), batches[i][2] - batches[i][1] > 1
  PROVE  RequestBytes(batches[i]) <= pdu /\ ResponseBytes(batches[i]) <= pdu + 2
<1> DEFINE b == batches[i]
<1>1. /\ b[1] \in 0..Len(items) /\ b[2] \in 0..Len(items)
      /\ ReqSums[b[2]] - ReqSums[b[1]] <= pdu - 12 /\ RespSums[b[2]] - RespSums[b[1]] <= pdu - 12
  BY DEF Budgets
<1>2. pdu \in Nat
  BY MultiVarsConstants DEF IInv, TypeOK
<1>3. RequestBytes(b) = 10 + 2 + (ReqSums[b[2]] - ReqSums[b[1]])
  BY DEF RequestBytes, Total, ReqSums
<1>4. ResponseBytes(b) = 12 + 2 + (RespSums[b[2]] - RespSums[b[1]])
  BY DEF ResponseBytes, Total, RespSums
<1> HIDE DEF b
<1>5. ReqSums[b[1]] \in Nat /\ ReqSums[b[2]] \in Nat /\ RespSums[b[1]] \in Nat /\ RespSums[b[2]] \in Nat
  BY <1>1, SumsTyped
<1>6. PICK u, v, x, y : u = ReqSums[b[1]] /\ v = ReqSums[b[2]] /\ x = RespSums[b[1]] /\ y = RespSums[b[2]]
  OBVIOUS
<1>7. u \in Nat /\ v \in Nat /\ x \in Nat /\ y \in Nat /\ v - u <= pdu - 12 /\ y - x <= pdu - 12
  BY <1>1, <1>5, <1>6
<1>8. 10 + 2 + (v - u) <= pdu /\ 12 + 2 + (y - x) <= pdu + 2
  BY ONLY <1>2, <1>7
<1> QED
  BY <1>3, <1>4, <1>6, <1>8 DEF b

\* A request that does not fit in the PDU has one item: read_multi_vars and
\* write_multi_vars never put a second one into it, whatever the items and the PDU.
THEOREM MultiVarsRequestsFit == Spec => []RequestsFit
<1>1. IInv /\ Budgets => RequestsFit
  BY SentFits DEF RequestsFit
<1> QED
  BY <1>1, MultiVarsInit, MultiVarsNext, BudgetsStart, BudgetsNext, PTL DEF Spec

\* An answer to a batch of several items is at most two bytes too long.
THEOREM MultiVarsResponsesNearlyFit == Spec => []ResponsesNearlyFit
<1>1. IInv /\ Budgets => ResponsesNearlyFit
  BY SentFits DEF ResponsesNearlyFit
<1> QED
  BY <1>1, MultiVarsInit, MultiVarsNext, BudgetsStart, BudgetsNext, PTL DEF Spec

-----------------------------------------------------------------------------
(* The greedy loop                                                         *)

\* Another way to cut the items is never ahead of the loop, and the loop never needs
\* more batches.
Ahead ==
  outcome # "err" =>
    \A cuts \in Seq(0..Len(items)) :
      Cuts(cuts) => Len(batches) <= Len(cuts) /\ EndOf(cuts, Len(batches)) <= start

\* A part of a batch takes no more than the batch.
LEMMA PartTakesLess ==
  ASSUME IInv, NEW a \in 0..Len(items), NEW b \in 0..Len(items), NEW i \in 0..Len(items),
         NEW j \in 0..Len(items), a <= i, j <= b
  PROVE  /\ ReqSums[j] - ReqSums[i] <= ReqSums[b] - ReqSums[a]
         /\ RespSums[j] - RespSums[i] <= RespSums[b] - RespSums[a]
<1>1. items \in Seq(Nat) /\ Len(items) \in Nat /\ DOMAIN items = 1..Len(items)
  BY MultiVarsConstants DEF IInv, TypeOK
<1>2. \A k \in 1..Len(items) : items[k] \in Nat
  BY <1>1
<1>3. \A k \in 1..Len(items) : ReqSize(items[k]) \in Nat /\ RespSize(items[k]) \in Nat
  BY <1>2, SizesTyped
<1> DEFINE g == [k \in DOMAIN items |-> ReqSize(items[k])]
           h == [k \in DOMAIN items |-> RespSize(items[k])]
<1>4. \A k \in 1..Len(items) : g[k] \in Nat /\ h[k] \in Nat
  BY <1>1, <1>3
<1>5. SumsOf(g, Len(items), ReqSums) /\ SumsOf(h, Len(items), RespSums)
  BY SumsGrow
<1> HIDE DEF g, h
<1>6. ReqSums[a] <= ReqSums[i] /\ ReqSums[j] <= ReqSums[b]
  BY <1>1, <1>4, <1>5, SumsMonotone
<1>7. RespSums[a] <= RespSums[i] /\ RespSums[j] <= RespSums[b]
  BY <1>1, <1>4, <1>5, SumsMonotone
<1>8. PICK q, r, s, t : q = ReqSums[a] /\ r = ReqSums[i] /\ s = ReqSums[j] /\ t = ReqSums[b]
  OBVIOUS
<1>9. PICK u, v, x, y : u = RespSums[a] /\ v = RespSums[i] /\ x = RespSums[j] /\ y = RespSums[b]
  OBVIOUS
<1>10. /\ q \in Nat /\ r \in Nat /\ s \in Nat /\ t \in Nat /\ q <= r /\ s <= t
       /\ u \in Nat /\ v \in Nat /\ x \in Nat /\ y \in Nat /\ u <= v /\ x <= y
  BY <1>6, <1>7, <1>8, <1>9, SumsTyped
<1>11. s - r <= t - q /\ x - v <= y - u
  BY ONLY <1>10
<1> QED
  BY <1>8, <1>9, <1>11

\* A batch is sent when no batch the limits allow goes further.
LEMMA SentGoesFar ==
  ASSUME IInv, Budgets, outcome = "running", ~Fits, NEW a \in 0..Len(items), NEW b \in 0..Len(items),
         a <= start, Allowed(a, b)
  PROVE  b <= end
<1> SUFFICES ASSUME ~(b <= end) PROVE FALSE
  OBVIOUS
<1>1. /\ items \in Seq(Nat) /\ Len(items) \in Nat /\ start \in Nat /\ end \in Nat /\ a \in Nat /\ b \in Nat
      /\ start <= end /\ end < b /\ b <= Len(items) /\ MaxItems \in Nat
  BY MultiVarsConstants DEF IInv, TypeOK
<1>2. end < Len(items) /\ end - start < MaxItems
  BY <1>1 DEF Allowed
<1>3. end # start
  BY <1>2 DEF Fits
<1>4. b - a > 1 /\ end + 1 <= b
  BY <1>1, <1>3
<1>5. ReqSums[b] - ReqSums[a] <= Room /\ RespSums[b] - RespSums[a] <= Room
  BY <1>4 DEF Allowed, Total, ReqSums, RespSums
<1>6. end + 1 \in 0..Len(items) /\ start \in 0..Len(items) /\ end \in 0..Len(items)
  BY <1>1
<1>7. /\ ReqSums[end + 1] - ReqSums[start] <= ReqSums[b] - ReqSums[a]
      /\ RespSums[end + 1] - RespSums[start] <= RespSums[b] - RespSums[a]
  BY <1>4, <1>6, PartTakesLess
<1>8. PICK q, r : q = ReqSize(items[end + 1]) /\ r = RespSize(items[end + 1])
  OBVIOUS
<1>9. q \in Nat /\ r \in Nat
  <2>1. items[end + 1] \in Nat
    BY <1>1
  <2> QED
    BY <1>8, <2>1, SizesTyped
<1>10. ReqSums[end + 1] = ReqSums[end] + q /\ RespSums[end + 1] = RespSums[end] + r
  <2>1. end + 1 \in 1..Len(items) /\ end + 1 \in DOMAIN items /\ (end + 1) - 1 = end
    BY <1>1
  <2> QED
    BY <1>8, <2>1, SumsGrow DEF SumsOf
<1>11. PICK s, t, u, v : s = ReqSums[start] /\ t = ReqSums[end] /\ u = RespSums[start] /\ v = RespSums[end]
  OBVIOUS
<1>12. PICK x, y : x = ReqSums[b] - ReqSums[a] /\ y = RespSums[b] - RespSums[a]
  OBVIOUS
<1>13. x \in Int /\ y \in Int /\ Room \in Nat
  <2>1. ReqSums[a] \in Nat /\ ReqSums[b] \in Nat /\ RespSums[a] \in Nat /\ RespSums[b] \in Nat
    BY SumsTyped
  <2>2. pdu \in Nat
    BY MultiVarsConstants DEF IInv, TypeOK
  <2>3. Room \in Nat
    BY <2>2 DEF Room
  <2>4. x \in Int
    BY <1>12, <2>1
  <2>5. y \in Int
    BY <1>12, <2>1
  <2> QED
    BY <2>3, <2>4, <2>5
<1>14. req + q <= Room /\ resp + r <= Room
  <2>1. s \in Nat /\ t \in Nat /\ u \in Nat /\ v \in Nat /\ req = t - s /\ resp = v - u
    BY <1>6, <1>11, SumsTyped DEF Budgets
  <2>2. (t + q) - s <= x /\ (v + r) - u <= y /\ x <= Room /\ y <= Room
    BY <1>5, <1>7, <1>10, <1>11, <1>12
  <2> QED
    BY ONLY <1>9, <1>13, <2>1, <2>2
<1> QED
  BY <1>2, <1>8, <1>14 DEF Fits

\* Every step keeps the loop ahead of every other way to cut the items.
LEMMA AheadNext == IInv /\ Budgets /\ Ahead /\ [Next]_vars => Ahead'
<1> SUFFICES ASSUME IInv, Budgets, Ahead, [Next]_vars PROVE Ahead'
  OBVIOUS
<1>1. ASSUME NEW cuts, UNCHANGED input PROVE Cuts(cuts)' <=> Cuts(cuts)
  BY <1>1 DEF Cuts, EndOf, Allowed, Total, Sums, ReqSize, RespSize, Room, input
<1>2. CASE UNCHANGED <<input, batches, start, outcome>>
  <2>1. items' = items /\ batches' = batches /\ start' = start /\ outcome' = outcome /\ UNCHANGED input
    BY <1>2 DEF input
  <2>2. \A cuts : Cuts(cuts)' <=> Cuts(cuts)
    BY <1>1, <2>1
  <2> QED
    BY <2>1, <2>2 DEF Ahead, EndOf
<1>3. CASE Exchange
  <2>1. /\ outcome = "running" /\ ~Fits /\ batches' = Append(batches, <<start, end>>) /\ start' = end
        /\ items' = items /\ UNCHANGED input
    BY <1>3 DEF Exchange, input
  <2> SUFFICES ASSUME NEW cuts \in Seq(0..Len(items)), Cuts(cuts)
               PROVE  Len(batches') <= Len(cuts) /\ EndOf(cuts, Len(batches')) <= end
    <3>1. \A cuts : Cuts(cuts)' <=> Cuts(cuts)
      BY <1>1, <2>1
    <3> QED
      BY <2>1, <3>1 DEF Ahead, EndOf
  <2> DEFINE n == Len(batches)
  <2>2. n \in Nat /\ Len(batches') = n + 1
    BY <2>1, MultiVarsConstants, AppendCases DEF IInv, TypeOK
  <2>3. n <= Len(cuts) /\ EndOf(cuts, n) <= start /\ Len(cuts) \in Nat
    BY <2>1 DEF Ahead
  <2>4. /\ Len(items) \in Nat /\ start \in Nat /\ start < Len(items)
    BY <2>1, MultiVarsConstants DEF IInv, TypeOK
  <2> HIDE DEF n
  <2>5. n # Len(cuts)
    BY <2>3, <2>4 DEF Cuts
  <2>6. n + 1 \in 1..Len(cuts) /\ (n + 1) - 1 = n
    BY <2>2, <2>3, <2>5
  <2>7. Allowed(EndOf(cuts, n), EndOf(cuts, n + 1))
    BY <2>6 DEF Cuts
  <2>8. EndOf(cuts, n) \in 0..Len(items) /\ EndOf(cuts, n + 1) \in 0..Len(items)
    BY <2>2, <2>3, <2>4, <2>6 DEF EndOf
  <2>9. EndOf(cuts, n + 1) <= end
    BY <2>1, <2>3, <2>7, <2>8, SentGoesFar
  <2> QED
    BY <2>2, <2>6, <2>9
<1>4. CASE ExchangeFails
  BY <1>4 DEF ExchangeFails, Ahead
<1>5. CASE AddItem
  BY <1>2, <1>5 DEF AddItem
<1>6. CASE UNCHANGED vars
  BY <1>2, <1>6 DEF vars
<1> QED
  BY <1>3, <1>4, <1>5, <1>6 DEF Next

\* At first nothing is sent.
LEMMA AheadStart == Init => Ahead
<1> SUFFICES ASSUME Init, NEW cuts \in Seq(0..Len(items)) PROVE Len(batches) <= Len(cuts) /\ EndOf(cuts, Len(batches)) <= start
  BY DEF Ahead
<1>1. batches = <<>> /\ start = 0 /\ Len(cuts) \in Nat
  BY DEF Init
<1> QED
  BY <1>1 DEF EndOf

\* The batches are one way to cut the items.
LEMMA BatchesAreCuts ==
  ASSUME IInv, Budgets, outcome = "ok"
  PROVE  Cuts([i \in 1..Len(batches) |-> batches[i][2]])
<1> DEFINE ends == [i \in 1..Len(batches) |-> batches[i][2]]
<1>1. /\ batches \in Seq(Nat \X Nat) /\ Len(batches) \in Nat /\ start = Len(items) /\ pdu \in Nat
      /\ start = (IF batches = <<>> THEN 0 ELSE batches[Len(batches)][2])
  BY MultiVarsConstants DEF IInv, TypeOK, BatchesPartition
<1>2. ends \in Seq(Nat) /\ Len(ends) = Len(batches)
  BY <1>1
<1>3. \A n \in 1..Len(batches) : EndOf(ends, n) = batches[n][2]
  BY <1>1 DEF EndOf
<1>4. EndOf(ends, Len(ends)) = Len(items)
  <2>1. CASE batches = <<>>
    BY <1>1, <1>2, <2>1 DEF EndOf
  <2>2. CASE batches # <<>>
    <3>1. Len(batches) \in 1..Len(batches)
      BY <1>1, <2>2
    <3> QED
      BY <1>1, <1>2, <1>3, <2>2, <3>1
  <2> QED
    BY <2>1, <2>2
<1>5. ASSUME NEW n \in 1..Len(ends) PROVE Allowed(EndOf(ends, n - 1), EndOf(ends, n))
  <2>1. n \in 1..Len(batches) /\ n \in Nat
    BY <1>2
  <2>2. EndOf(ends, n) = batches[n][2]
    BY <1>3, <2>1
  <2>3. EndOf(ends, n - 1) = batches[n][1]
    <3>1. batches[n][1] = IF n = 1 THEN 0 ELSE batches[n - 1][2]
      BY <2>1 DEF IInv, BatchesPartition
    <3>2. CASE n = 1
      BY <3>1, <3>2 DEF EndOf
    <3>3. CASE n # 1
      <4>1. n - 1 \in 1..Len(batches)
        BY <1>1, <2>1, <3>3
      <4> QED
        BY <1>3, <3>1, <3>3, <4>1
    <3> QED
      BY <3>2, <3>3
  <2> DEFINE i == batches[n][1]
             j == batches[n][2]
  <2>4. /\ i \in 0..Len(items) /\ j \in 0..Len(items) /\ i < j /\ j - i <= MaxItems
        /\ j - i > 1 => ReqSums[j] - ReqSums[i] <= pdu - 12 /\ RespSums[j] - RespSums[i] <= pdu - 12
    BY <2>1 DEF IInv, BatchesPartition, Budgets
  <2> HIDE DEF i, j, ends
  <2>5. pdu - 12 <= Room /\ Room \in Nat
    BY <1>1 DEF Room
  <2>6. i <= j
    BY <1>1, <2>4
  <2>7. ASSUME j - i > 1 PROVE ReqSums[j] - ReqSums[i] <= Room /\ RespSums[j] - RespSums[i] <= Room
    <3>1. PICK u, v, x, y : u = ReqSums[i] /\ v = ReqSums[j] /\ x = RespSums[i] /\ y = RespSums[j]
      OBVIOUS
    <3>2. u \in Nat /\ v \in Nat /\ x \in Nat /\ y \in Nat /\ v - u <= pdu - 12 /\ y - x <= pdu - 12
      BY <2>4, <2>7, <3>1, SumsTyped
    <3>3. v - u <= Room /\ y - x <= Room
      BY ONLY <1>1, <2>5, <3>2
    <3> QED
      BY <3>1, <3>3
  <2>8. Allowed(i, j)
    BY <2>4, <2>6, <2>7 DEF Allowed, Total, ReqSums, RespSums
  <2> QED
    BY <2>2, <2>3, <2>8 DEF i, j
<1> QED
  BY <1>4, <1>5 DEF Cuts

\* read_multi_vars and write_multi_vars make as few exchanges as their size limits
\* allow: the batches are a way to cut the items, and none has fewer.
THEOREM MultiVarsFewest ==
  Spec => [](outcome = "ok" =>
               /\ Cuts([i \in 1..Len(batches) |-> batches[i][2]])
               /\ \A cuts \in Seq(0..Len(items)) : Cuts(cuts) => Len(batches) <= Len(cuts))
<1>1. IInv /\ Budgets /\ Ahead =>
        (outcome = "ok" =>
           /\ Cuts([i \in 1..Len(batches) |-> batches[i][2]])
           /\ \A cuts \in Seq(0..Len(items)) : Cuts(cuts) => Len(batches) <= Len(cuts))
  BY BatchesAreCuts DEF Ahead
<1> QED
  BY <1>1, AheadStart, AheadNext, MultiVarsInit, MultiVarsNext, BudgetsStart, BudgetsNext, PTL DEF Spec
=============================================================================
