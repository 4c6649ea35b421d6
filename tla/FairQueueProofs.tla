-------------------------- MODULE FairQueueProofs --------------------------
(* What joining and leaving do to a queue, for every queue.                *)
EXTENDS FairQueue, TLAPS

\* The entries of an empty queue.
LEMMA EmptyCases == Len(<<>>) = 0 /\ 1..Len(<<>>) = {}
OBVIOUS

\* The entries of any queue.
LEMMA EntryCases ==
  ASSUME NEW S, NEW q \in Seq(S)
  PROVE  Len(q) \in Nat /\ \A i \in 1..Len(q) : q[i] \in S
OBVIOUS

\* The entries of a queue that x has joined.
LEMMA AppendCases ==
  ASSUME NEW S, NEW q \in Seq(S), NEW x \in S
  PROVE  /\ Append(q, x) \in Seq(S) /\ Append(q, x) # <<>>
         /\ Len(Append(q, x)) = Len(q) + 1 /\ Len(q) \in Nat
         /\ \A i \in 1..Len(q) : Append(q, x)[i] = q[i]
         /\ Append(q, x)[Len(q) + 1] = x
         /\ \A i \in 1..Len(Append(q, x)) :
              (i \in 1..Len(q) /\ Append(q, x)[i] = q[i]) \/ Append(q, x)[i] = x
<1> DEFINE a == Append(q, x)
<1>1. /\ a \in Seq(S) /\ a # <<>> /\ Len(a) = Len(q) + 1 /\ Len(q) \in Nat
      /\ \A i \in 1..Len(q) : a[i] = q[i]
      /\ a[Len(q) + 1] = x
  OBVIOUS
<1> HIDE DEF a
<1>2. ASSUME NEW i \in 1..Len(a) PROVE (i \in 1..Len(q) /\ a[i] = q[i]) \/ a[i] = x
  <2>1. i \in 1..Len(q) \/ i = Len(q) + 1
    BY <1>1
  <2> QED
    BY <1>1, <2>1
<1> QED
  BY <1>1, <1>2 DEF a

\* The entries of a queue that its head has left.
LEMMA TailCases ==
  ASSUME NEW S, NEW q \in Seq(S), q # <<>>
  PROVE  /\ 1 \in 1..Len(q) /\ Head(q) = q[1] /\ Head(q) \in S /\ Tail(q) \in Seq(S)
         /\ \A i \in 1..Len(Tail(q)) : i + 1 \in 1..Len(q) /\ Tail(q)[i] = q[i + 1]
<1> DEFINE b == Tail(q)
<1>1. /\ Len(q) \in Nat \ {0} /\ Head(q) = q[1] /\ Head(q) \in S
      /\ b \in Seq(S) /\ Len(b) = Len(q) - 1
      /\ \A i \in 1..Len(b) : b[i] = q[i + 1]
  <2>1. Len(q) \in Nat \ {0}
    OBVIOUS
  <2> QED
    BY <2>1
<1> HIDE DEF b
<1>2. 1 \in 1..Len(q) /\ \A i \in 1..Len(b) : i + 1 \in 1..Len(q)
  BY <1>1
<1> QED
  BY <1>1, <1>2 DEF b

\* The type and length of a concatenation.
LEMMA ConcatCases ==
  ASSUME NEW S, NEW a \in Seq(S), NEW b \in Seq(S)
  PROVE  /\ a \o b \in Seq(S) /\ Len(a \o b) = Len(a) + Len(b)
         /\ \A i \in 1..Len(a) : (a \o b)[i] = a[i]
         /\ \A i \in 1..Len(b) : (a \o b)[Len(a) + i] = b[i]
<1>1. Len(a \o b) = Len(a) + Len(b)
  OBVIOUS
<1>2. a \o b \in Seq(S)
  OBVIOUS
<1>3. \A i \in 1..Len(a) : (a \o b)[i] = a[i]
  OBVIOUS
<1>4. \A i \in 1..Len(b) : (a \o b)[Len(a) + i] = b[i]
  OBVIOUS
<1> QED
  BY <1>1, <1>2, <1>3, <1>4

\* What DropAt keeps of a sequence.
LEMMA DropAtProperties ==
  ASSUME NEW S, NEW s \in Seq(S), NEW k \in 1..Len(s)
  PROVE  /\ DropAt(s, k) \in Seq(S)
         /\ Len(DropAt(s, k)) = Len(s) - 1
         /\ \A i \in 1..(Len(s) - 1) :
              DropAt(s, k)[i] = IF i < k THEN s[i] ELSE s[i + 1]
<1> DEFINE a == SubSeq(s, 1, k - 1)
           b == SubSeq(s, k + 1, Len(s))
<1>1. /\ a \in Seq(S) /\ Len(a) = k - 1 /\ \A i \in 1..(k - 1) : a[i] = s[i]
      /\ b \in Seq(S) /\ Len(b) = Len(s) - k /\ \A i \in 1..(Len(s) - k) : b[i] = s[k + i]
  OBVIOUS
<1> HIDE DEF a, b
<1>2. /\ a \o b \in Seq(S) /\ Len(a \o b) = Len(s) - 1
      /\ \A i \in 1..(Len(s) - 1) : (a \o b)[i] = IF i < k THEN a[i] ELSE b[i - k + 1]
  <2>1. a \o b \in Seq(S) /\ Len(a \o b) = Len(s) - 1
    <3>1. a \o b \in Seq(S) /\ Len(a \o b) = Len(a) + Len(b)
      BY <1>1, ConcatCases
    <3>2. Len(a) + Len(b) = Len(s) - 1
      BY <1>1
    <3> QED
      BY <3>1, <3>2
  <2>2. \A i \in 1..(Len(a) + Len(b)) :
          (a \o b)[i] = IF i <= Len(a) THEN a[i] ELSE b[i - Len(a)]
    BY <1>1
  <2>3. \A i \in 1..(Len(s) - 1) :
          (i <= Len(a) <=> i < k) /\ i - Len(a) = i - k + 1 /\ i \in 1..(Len(a) + Len(b))
    BY <1>1
  <2> QED
    BY <2>1, <2>2, <2>3
<1>3. ASSUME NEW i \in 1..(Len(s) - 1)
      PROVE  (a \o b)[i] = IF i < k THEN s[i] ELSE s[i + 1]
  <2>1. CASE i < k
    BY <1>1, <1>2, <2>1
  <2>2. CASE ~(i < k)
    <3>1. i - k + 1 \in 1..(Len(s) - k) /\ k + (i - k + 1) = i + 1
      BY <2>2
    <3> QED
      BY <1>1, <1>2, <2>2, <3>1
  <2> QED
    BY <2>1, <2>2
<1> QED
  BY <1>2, <1>3 DEF DropAt, a, b

\* A task whose future is dropped disappears from the queue; the others stay,
\* once each and in their order: the head changes only if it was the task.
LEMMA WithoutProperties ==
  ASSUME NEW S, NEW q \in Seq(S), NEW t,
         \A i, j \in 1..Len(q) : q[i] = q[j] => i = j
  PROVE  /\ Without(q, t) \in Seq(S)
         /\ \A i \in 1..Len(Without(q, t)) :
              Without(q, t)[i] # t /\ \E j \in 1..Len(q) : Without(q, t)[i] = q[j]
         /\ \A i, j \in 1..Len(Without(q, t)) :
              Without(q, t)[i] = Without(q, t)[j] => i = j
         /\ q = <<>> => Without(q, t) = <<>>
         /\ q # <<>> /\ q[1] # t => Without(q, t) # <<>> /\ Without(q, t)[1] = q[1]
<1>1. CASE Places(q, t) = {}
  BY <1>1 DEF Without, Places
<1>2. CASE Places(q, t) # {}
  <2> DEFINE k == CHOOSE i \in Places(q, t) : TRUE
             w == DropAt(q, k)
  <2>1. k \in 1..Len(q) /\ q[k] = t
    BY <1>2 DEF Places
  <2> HIDE DEF k
  <2>2. /\ w \in Seq(S) /\ Len(w) = Len(q) - 1 /\ Len(q) \in Nat
        /\ \A i \in 1..(Len(q) - 1) : w[i] = IF i < k THEN q[i] ELSE q[i + 1]
    <3>1. Len(q) \in Nat
      OBVIOUS
    <3>2. /\ DropAt(q, k) \in Seq(S) /\ Len(DropAt(q, k)) = Len(q) - 1
          /\ \A i \in 1..(Len(q) - 1) :
               DropAt(q, k)[i] = IF i < k THEN q[i] ELSE q[i + 1]
      BY ONLY q \in Seq(S), <2>1, DropAtProperties, Zenon
    <3> QED
      BY <3>1, <3>2, Zenon
  <2>3. Without(q, t) = w
    BY <1>2 DEF Without, k
  <2> HIDE DEF w
  <2> DEFINE at(n) == IF n < k THEN n ELSE n + 1
  <2>4. \A i \in 1..Len(w) : at(i) \in 1..Len(q) /\ at(i) # k /\ w[i] = q[at(i)]
    BY <2>1, <2>2
  <2>5. \A i, j \in 1..Len(w) : at(i) = at(j) => i = j
    BY <2>1, <2>2
  <2> HIDE DEF at
  <2>6. \A i \in 1..Len(w) : w[i] # t /\ \E j \in 1..Len(q) : w[i] = q[j]
    BY <2>1, <2>4
  <2>7. \A i, j \in 1..Len(w) : w[i] = w[j] => i = j
    BY <2>4, <2>5
  <2>8. q # <<>>
    BY <2>1
  <2>9. ASSUME q[1] # t PROVE w # <<>> /\ w[1] = q[1]
    <3>1. 1 < k /\ 1 \in 1..(Len(q) - 1)
      BY <2>1, <2>2, <2>9
    <3> QED
      BY <3>1, <2>2
  <2>10. q # <<>> /\ q[1] # t => w # <<>> /\ w[1] = q[1]
    BY <2>9, Zenon
  <2> QED
    BY ONLY <2>2, <2>3, <2>6, <2>7, <2>8, <2>10, Zenon
<1> QED
  BY <1>1, <1>2

-----------------------------------------------------------------------------
(* Parts of sequences                                                      *)

\* Equal sequences.
LEMMA SameSeq ==
  ASSUME NEW S, NEW a \in Seq(S), NEW b \in Seq(S), Len(a) = Len(b), \A i \in 1..Len(a) : a[i] = b[i]
  PROVE  a = b
OBVIOUS

\* The bytes from j up to e.
LEMMA PartOf ==
  ASSUME NEW S, NEW d \in Seq(S), NEW j \in Nat, NEW e \in Nat, j <= e, e <= Len(d)
  PROVE  /\ SubSeq(d, j + 1, e) \in Seq(S) /\ Len(SubSeq(d, j + 1, e)) = e - j
         /\ \A i \in 1..(e - j) : SubSeq(d, j + 1, e)[i] = d[j + i]
OBVIOUS

\* The first e bytes.
LEMMA FirstOf ==
  ASSUME NEW S, NEW d \in Seq(S), NEW e \in Nat, e <= Len(d)
  PROVE  /\ SubSeq(d, 1, e) \in Seq(S) /\ Len(SubSeq(d, 1, e)) = e
         /\ \A i \in 1..e : SubSeq(d, 1, e)[i] = d[i]
OBVIOUS

\* All of them.
LEMMA AllOf == ASSUME NEW S, NEW d \in Seq(S) PROVE SubSeq(d, 1, Len(d)) = d
OBVIOUS

\* The first j bytes and those from there up to e are the first e.
LEMMA JoinParts ==
  ASSUME NEW S, NEW d \in Seq(S), NEW j \in Nat, NEW e \in Nat, j <= e, e <= Len(d)
  PROVE  SubSeq(d, 1, j) \o SubSeq(d, j + 1, e) = SubSeq(d, 1, e)
<1> DEFINE a == SubSeq(d, 1, j)
           b == SubSeq(d, j + 1, e)
           c == SubSeq(d, 1, e)
<1>1. a \in Seq(S) /\ Len(a) = j /\ \A i \in 1..j : a[i] = d[i]
  BY FirstOf
<1>2. b \in Seq(S) /\ Len(b) = e - j /\ \A i \in 1..(e - j) : b[i] = d[j + i]
  BY PartOf
<1>3. c \in Seq(S) /\ Len(c) = e /\ \A i \in 1..e : c[i] = d[i]
  BY FirstOf
<1> HIDE DEF a, b, c
<1> DEFINE w == a \o b
<1>0. w = a \o b
  OBVIOUS
<1> HIDE DEF w
<1>4. /\ w \in Seq(S) /\ Len(w) = Len(a) + Len(b)
      /\ \A i \in 1..Len(a) : w[i] = a[i]
      /\ \A i \in 1..Len(b) : w[Len(a) + i] = b[i]
  <2>1. a \in Seq(S) /\ b \in Seq(S)
    BY ONLY <1>1, <1>2
  <2> QED
    BY ONLY <1>0, <2>1, ConcatCases
<1>5. Len(w) = e
  BY ONLY <1>1, <1>2, <1>4, j \in Nat, e \in Nat
<1>6. ASSUME NEW i \in 1..e PROVE w[i] = c[i]
  <2>1. CASE i \in 1..j
    BY ONLY <1>1, <1>3, <1>4, <2>1, i \in 1..e
  <2>2. CASE i \notin 1..j
    <3>1. i - j \in 1..(e - j) /\ j + (i - j) = i
      BY ONLY <2>2, j \in Nat, e \in Nat, i \in 1..e
    <3>2. b[i - j] = d[i] /\ w[i] = b[i - j]
      BY ONLY <1>1, <1>2, <1>4, <3>1
    <3> QED
      BY ONLY <1>3, <3>2, i \in 1..e
  <2> QED
    BY ONLY <2>1, <2>2
<1>7. w = c
  BY ONLY <1>3, <1>4, <1>5, <1>6, SameSeq
<1> QED
  BY <1>7 DEF a, b, c, w
=============================================================================
