---------------------------- MODULE S7PoolProofs ----------------------------
(***************************************************************************)
(* Proofs about S7Pool, for every number of tasks, every max_size and      *)
(* every supply of connections.                                            *)
(***************************************************************************)
EXTENDS S7Pool, FairQueueProofs, FiniteSetTheorems

\* A task is in the semaphore's queue at most once and waits while it is.
QueueInv ==
  /\ \A i \in 1..Len(waiters) : pc[waiters[i]] = "waiting"
  /\ \A i, j \in 1..Len(waiters) : waiters[i] = waiters[j] => i = j

\* A task has a connection exactly while it owns a guard.
HeldInv == \A t \in Task : held[t] # NoConn <=> pc[t] = "using"

\* The inductive invariant.  BoundedConnections alone is not inductive: a new
\* connect is safe because the idle queue is empty at that moment and every
\* connected task holds one of the max_size permits (PermitsConserved), and
\* the permits stay conserved because a release wakes one waiting task that
\* holds none (QueueInv).
IInv ==
  /\ TypeOK
  /\ QueueInv
  /\ HeldInv
  /\ PermitsConserved
  /\ BoundedConnections

-----------------------------------------------------------------------------
(* Counting tasks                                                          *)

\* The sets of tasks the invariant counts are finite.
LEMMA CountedSets ==
  /\ IsFiniteSet(PermitHolders) /\ Cardinality(PermitHolders) \in Nat
  /\ IsFiniteSet(Connected) /\ Cardinality(Connected) \in Nat
<1>1. PermitHolders \in SUBSET Task /\ Connected \in SUBSET Task
  BY DEF PermitHolders, Connected
<1>2. IsFiniteSet(PermitHolders) /\ IsFiniteSet(Connected)
  BY <1>1, FS_Subset, PoolConstants
<1> QED
  BY <1>2, FS_CardinalityType

\* The same for the sets after a step.
LEMMA CountedSetsNext ==
  /\ IsFiniteSet(PermitHolders') /\ Cardinality(PermitHolders') \in Nat
  /\ IsFiniteSet(Connected') /\ Cardinality(Connected') \in Nat
<1>1. PermitHolders' \in SUBSET Task /\ Connected' \in SUBSET Task
  BY DEF PermitHolders, Connected
<1>2. IsFiniteSet(PermitHolders') /\ IsFiniteSet(Connected')
  BY <1>1, FS_Subset, PoolConstants
<1> QED
  BY <1>2, FS_CardinalityType

-----------------------------------------------------------------------------
(* Giving a permit back                                                    *)

\* ReleasePermit, from whichever stage t is in, keeps the queue and the
\* permits in order: the permit is either free or with the next waiter.
LEMMA ReleaseKeepsPermits ==
  ASSUME TypeOK, QueueInv, PermitsConserved,
         NEW t \in Task, HasPermit(t), ReleasePermit(t)
  PROVE  /\ pc' \in [Task -> Stages]
         /\ permits' \in 0..MaxSize
         /\ waiters' \in Seq(Task)
         /\ QueueInv'
         /\ PermitsConserved'
         /\ Connected' = Connected \ {t}
         /\ \A u \in Task : pc'[u] = "using" <=> (u # t /\ pc[u] = "using")
<1> USE PoolConstants, CountedSets, CountedSetsNext
<1>1. CASE waiters = <<>>
  <2>1. PermitHolders' = PermitHolders \ {t} /\ t \in PermitHolders
    BY <1>1 DEF ReleasePermit, PermitHolders, HasPermit, TypeOK, Stages
  <2>2. Cardinality(PermitHolders') = Cardinality(PermitHolders) - 1
    BY <2>1, FS_RemoveElement
  <2>3. PermitsConserved' /\ permits' \in 0..MaxSize
    BY <1>1, <2>2 DEF ReleasePermit, PermitsConserved, TypeOK
  <2>4. QueueInv'
    BY <1>1 DEF ReleasePermit, QueueInv
  <2>5. pc' \in [Task -> Stages] /\ waiters' \in Seq(Task)
    BY <1>1 DEF ReleasePermit, TypeOK, Stages
  <2>6. Connected' = Connected \ {t}
    BY <1>1 DEF ReleasePermit, Connected, TypeOK, Stages
  <2>7. \A u \in Task : pc'[u] = "using" <=> (u # t /\ pc[u] = "using")
    BY <1>1 DEF ReleasePermit, TypeOK, Stages
  <2> QED
    BY <2>3, <2>4, <2>5, <2>6, <2>7
<1>2. CASE waiters # <<>>
  <2> DEFINE w == Head(waiters)
  <2>1. /\ w \in Task /\ w = waiters[1] /\ 1 \in 1..Len(waiters)
        /\ Tail(waiters) \in Seq(Task) /\ Len(Tail(waiters)) = Len(waiters) - 1
        /\ \A i \in 1..Len(Tail(waiters)) : Tail(waiters)[i] = waiters[i + 1]
    BY <1>2 DEF TypeOK
  <2>2. pc[w] = "waiting" /\ w # t
    BY <2>1 DEF QueueInv, HasPermit
  <2> HIDE DEF w
  <2>3. /\ pc' = [pc EXCEPT ![t] = "out", ![w] = "granted"]
        /\ waiters' = Tail(waiters) /\ permits' = permits
    BY <1>2 DEF ReleasePermit, w
  <2>4. /\ pc' \in [Task -> Stages]
        /\ pc'[t] = "out" /\ pc'[w] = "granted"
        /\ \A u \in Task \ {t, w} : pc'[u] = pc[u]
    BY <2>1, <2>2, <2>3 DEF TypeOK, Stages
  <2>5. t \in PermitHolders /\ w \notin PermitHolders \ {t}
    BY <2>2 DEF PermitHolders, HasPermit
  <2>6. PermitHolders' = (PermitHolders \ {t}) \cup {w}
    BY <2>1, <2>2, <2>4 DEF PermitHolders, HasPermit, TypeOK
  <2>7. IsFiniteSet(PermitHolders \ {t})
        /\ Cardinality(PermitHolders \ {t}) = Cardinality(PermitHolders) - 1
    BY <2>5, FS_RemoveElement
  <2>8. Cardinality(PermitHolders') = Cardinality(PermitHolders)
    <3>1. Cardinality((PermitHolders \ {t}) \cup {w}) = Cardinality(PermitHolders \ {t}) + 1
      BY <2>5, <2>7, FS_AddElement
    <3> QED
      BY <3>1, <2>6, <2>7
  <2>9. PermitsConserved' /\ permits' \in 0..MaxSize
    BY <1>2, <2>3, <2>8 DEF PermitsConserved, TypeOK
  <2>10. QueueInv'
    <3>1. ASSUME NEW i \in 1..Len(waiters')
          PROVE  pc'[waiters'[i]] = "waiting"
      <4>1. i + 1 \in 1..Len(waiters) /\ waiters'[i] = waiters[i + 1]
        BY <2>1, <2>3 DEF TypeOK
      <4>2. waiters[i + 1] \in Task /\ pc[waiters[i + 1]] = "waiting"
        BY <4>1 DEF QueueInv, TypeOK
      <4>3. waiters[i + 1] # w /\ waiters[i + 1] # t
        <5>1. i + 1 # 1
          OBVIOUS
        <5> QED
          BY <5>1, <2>1, <4>1, <4>2 DEF QueueInv, HasPermit, TypeOK
      <4> QED
        BY <2>4, <4>1, <4>2, <4>3
    <3>2. ASSUME NEW i \in 1..Len(waiters'), NEW j \in 1..Len(waiters'),
                 waiters'[i] = waiters'[j]
          PROVE  i = j
      <4>1. /\ i + 1 \in 1..Len(waiters) /\ waiters'[i] = waiters[i + 1]
            /\ j + 1 \in 1..Len(waiters) /\ waiters'[j] = waiters[j + 1]
        BY <2>1, <2>3 DEF TypeOK
      <4>2. i + 1 = j + 1
        BY <3>2, <4>1 DEF QueueInv
      <4> QED
        BY <4>2
    <3> QED
      BY <3>1, <3>2 DEF QueueInv
  <2>11. Connected' = Connected \ {t}
    BY <2>1, <2>2, <2>4 DEF Connected
  <2>12. \A u \in Task : pc'[u] = "using" <=> (u # t /\ pc[u] = "using")
    BY <2>1, <2>2, <2>4
  <2> QED
    BY <2>1, <2>3, <2>4, <2>9, <2>10, <2>11, <2>12
<1> QED
  BY <1>1, <1>2

-----------------------------------------------------------------------------
(* Acquiring and lending                                                   *)

\* A step that leaves the permits, the queue and the set of permit holders
\* alone, and moves no waiting task, keeps QueueInv and PermitsConserved.
LEMMA HoldersUnchanged ==
  ASSUME QueueInv, PermitsConserved, TypeOK,
         UNCHANGED <<permits, waiters>>,
         NEW t \in Task, HasPermit(t),
         NEW s \in Stages \ {"out", "waiting"}, pc' = [pc EXCEPT ![t] = s]
  PROVE  QueueInv' /\ PermitsConserved' /\ pc' \in [Task -> Stages]
<1>1. PermitHolders' = PermitHolders
  BY DEF PermitHolders, HasPermit, TypeOK
<1>2. \A i \in 1..Len(waiters) : waiters[i] \in Task /\ waiters[i] # t
  BY DEF QueueInv, HasPermit, TypeOK
<1>3. QueueInv'
  BY <1>2 DEF QueueInv, TypeOK
<1> QED
  BY <1>1, <1>3 DEF PermitsConserved, TypeOK

\* A waiting or idle task has no connection, so a step that changes only the
\* stages of tasks that do not use one keeps who has one as it is.
LEMMA HeldUnchanged ==
  ASSUME IInv, UNCHANGED <<idle, held>>,
         \A u \in Task : pc'[u] = "using" <=> pc[u] = "using"
  PROVE  HeldInv'
BY DEF IInv, HeldInv

\* acquire_owned: a permit is taken, or the task joins the queue.
LEMMA AcquireStep ==
  ASSUME IInv, NEW t \in Task, Acquire(t)
  PROVE  IInv'
<1> USE PoolConstants, CountedSets, CountedSetsNext
<1>1. TypeOK /\ pc[t] = "out" /\ pc \in [Task -> Stages] /\ UNCHANGED <<idle, held>>
  BY DEF IInv, Acquire, TypeOK
<1>2. \A i \in 1..Len(waiters) : waiters[i] \in Task /\ waiters[i] # t
  BY <1>1 DEF IInv, QueueInv, TypeOK
<1>3. CASE permits > 0
  <2>1. /\ permits' = permits - 1 /\ waiters' = waiters
        /\ pc' = [pc EXCEPT ![t] = "checking"]
    BY <1>3 DEF Acquire
  <2>2. PermitHolders' = PermitHolders \cup {t} /\ t \notin PermitHolders
    BY <1>1, <2>1 DEF PermitHolders, HasPermit
  <2>3. Cardinality(PermitHolders') = Cardinality(PermitHolders) + 1
    <3>1. Cardinality(PermitHolders \cup {t}) = Cardinality(PermitHolders) + 1
      BY <2>2, FS_AddElement
    <3> QED
      BY <3>1, <2>2
  <2>4. PermitsConserved' /\ TypeOK'
    <3>1. PermitsConserved'
      BY <1>1, <1>3, <2>1, <2>3 DEF IInv, PermitsConserved, TypeOK
    <3> QED
      BY <3>1, <1>1, <1>3, <2>1 DEF TypeOK, Stages
  <2>5. QueueInv'
    BY <1>1, <1>2, <2>1 DEF IInv, QueueInv, TypeOK
  <2>6. Connected' = Connected
    BY <1>1, <2>1 DEF Connected
  <2>7. HeldInv'
    BY <1>1, <2>1, HeldUnchanged
  <2> QED
    BY <1>1, <2>4, <2>5, <2>6, <2>7 DEF IInv, BoundedConnections
<1>4. CASE ~(permits > 0)
  <2>1. /\ permits' = permits /\ waiters' = Append(waiters, t)
        /\ pc' = [pc EXCEPT ![t] = "waiting"]
    BY <1>4 DEF Acquire
  <2>2. PermitHolders' = PermitHolders
    BY <1>1, <2>1 DEF PermitHolders, HasPermit
  <2>3. TypeOK'
    BY <1>1, <2>1 DEF TypeOK, Stages
  <2>4. PermitsConserved'
    BY <1>1, <1>4, <2>1, <2>2 DEF IInv, PermitsConserved, TypeOK
  <2>5. /\ Len(waiters') = Len(waiters) + 1 /\ waiters'[Len(waiters) + 1] = t
        /\ \A i \in 1..Len(waiters) : waiters'[i] = waiters[i]
        /\ Len(waiters) \in Nat
    BY <1>1, <2>1 DEF TypeOK
  <2>6. QueueInv'
    <3>1. ASSUME NEW i \in 1..Len(waiters')
          PROVE  pc'[waiters'[i]] = "waiting"
      BY <1>1, <1>2, <2>1, <2>5 DEF IInv, QueueInv
    <3>2. ASSUME NEW i \in 1..Len(waiters'), NEW j \in 1..Len(waiters'),
                 waiters'[i] = waiters'[j]
          PROVE  i = j
      <4>1. \A n \in 1..Len(waiters) : waiters'[n] = waiters[n] /\ waiters[n] # t
        BY <1>2, <2>5
      <4>2. CASE i \in 1..Len(waiters) /\ j \in 1..Len(waiters)
        BY <3>2, <4>1, <4>2 DEF IInv, QueueInv
      <4>3. CASE i \notin 1..Len(waiters) \/ j \notin 1..Len(waiters)
        <5>1. /\ i \in 1..Len(waiters) \/ i = Len(waiters) + 1
              /\ j \in 1..Len(waiters) \/ j = Len(waiters) + 1
          BY <2>5
        <5> QED
          BY <2>5, <3>2, <4>1, <4>3, <5>1, Zenon
      <4> QED
        BY <4>2, <4>3
    <3> QED
      BY <3>1, <3>2 DEF QueueInv
  <2>7. Connected' = Connected
    BY <1>1, <2>1 DEF Connected
  <2>8. HeldInv'
    BY <1>1, <2>1, HeldUnchanged
  <2> QED
    BY <1>1, <2>3, <2>4, <2>6, <2>7, <2>8 DEF IInv, BoundedConnections
<1> QED
  BY <1>3, <1>4

\* A woken task keeps its permit and has no connection yet.
LEMMA WakeStep ==
  ASSUME IInv, NEW t \in Task, Wake(t)
  PROVE  IInv'
<1>1. /\ TypeOK /\ pc[t] = "granted" /\ pc' = [pc EXCEPT ![t] = "checking"]
      /\ UNCHANGED <<permits, waiters, idle, held>>
  BY DEF IInv, Wake
<1>2. QueueInv' /\ PermitsConserved' /\ TypeOK'
  <2>1. HasPermit(t) /\ "checking" \in Stages \ {"out", "waiting"}
    BY <1>1 DEF HasPermit, Stages
  <2>2. QueueInv' /\ PermitsConserved' /\ pc' \in [Task -> Stages]
    BY <1>1, <2>1, HoldersUnchanged DEF IInv
  <2> QED
    BY <1>1, <2>2 DEF TypeOK
<1>3. HeldInv'
  BY <1>1, HeldUnchanged DEF TypeOK
<1>4. Connected' = Connected
  BY <1>1 DEF Connected, TypeOK
<1> QED
  BY <1>1, <1>2, <1>3, <1>4 DEF IInv, BoundedConnections

\* Starting a connect is the step the bound is about: the idle queue is empty,
\* so all connections are with tasks that hold one of the max_size permits.
LEMMA StartConnectStep ==
  ASSUME IInv, NEW t \in Task, StartConnect(t)
  PROVE  IInv'
<1>1. /\ TypeOK /\ pc[t] = "checking" /\ pc' = [pc EXCEPT ![t] = "connecting"]
      /\ idle = <<>> /\ UNCHANGED <<permits, waiters, idle, held>>
  BY DEF IInv, StartConnect
<1>2. QueueInv' /\ PermitsConserved' /\ TypeOK'
  <2>1. HasPermit(t) /\ "connecting" \in Stages \ {"out", "waiting"}
    BY <1>1 DEF HasPermit, Stages
  <2>2. QueueInv' /\ PermitsConserved' /\ pc' \in [Task -> Stages]
    BY <1>1, <2>1, HoldersUnchanged DEF IInv
  <2> QED
    BY <1>1, <2>2 DEF TypeOK
<1>3. HeldInv'
  BY <1>1, HeldUnchanged DEF TypeOK
<1>4. BoundedConnections'
  <2>1. Cardinality(Connected') <= Cardinality(PermitHolders')
    <3>1. Connected' \in SUBSET PermitHolders'
      BY DEF Connected, PermitHolders, HasPermit
    <3> QED
      BY <3>1, CountedSetsNext, FS_Subset
  <2>2. Len(idle') = 0
    BY <1>1
  <2>3. permits' + Cardinality(PermitHolders') = MaxSize /\ permits' \in Nat
    BY <1>2, PoolConstants DEF PermitsConserved, TypeOK
  <2> QED
    BY <2>1, <2>2, <2>3, CountedSetsNext, PoolConstants DEF BoundedConnections
<1> QED
  BY <1>2, <1>3, <1>4 DEF IInv

\* Reuse moves a connection from the idle queue into a guard.
LEMMA ReuseIdleStep ==
  ASSUME IInv, NEW t \in Task, ReuseIdle(t)
  PROVE  IInv'
<1>1. /\ TypeOK /\ pc[t] = "checking" /\ pc' = [pc EXCEPT ![t] = "using"]
      /\ idle # <<>> /\ idle' = Tail(idle) /\ held' = [held EXCEPT ![t] = Head(idle)]
      /\ UNCHANGED <<permits, waiters>>
  BY DEF IInv, ReuseIdle
<1>2. /\ Head(idle) = idle[1] /\ 1 \in 1..Len(idle) /\ Head(idle) \in Conn
      /\ Tail(idle) \in Seq(Conn) /\ Len(Tail(idle)) = Len(idle) - 1 /\ Len(idle) \in Nat
      /\ \A i \in 1..Len(Tail(idle)) : Tail(idle)[i] = idle[i + 1]
  BY <1>1 DEF TypeOK
<1>3. QueueInv' /\ PermitsConserved' /\ TypeOK'
  <2>1. HasPermit(t) /\ "using" \in Stages \ {"out", "waiting"}
    BY <1>1 DEF HasPermit, Stages
  <2>2. QueueInv' /\ PermitsConserved' /\ pc' \in [Task -> Stages]
    BY <1>1, <2>1, HoldersUnchanged DEF IInv
  <2> QED
    BY <1>1, <1>2, <2>2 DEF TypeOK
<1>4. HeldInv'
  BY <1>1, <1>2, PoolConstants DEF IInv, HeldInv, TypeOK
<1>5. BoundedConnections'
  <2>1. Connected' = Connected \cup {t} /\ t \notin Connected
    BY <1>1 DEF Connected, TypeOK
  <2>2. Cardinality(Connected \cup {t}) = Cardinality(Connected) + 1
    BY <2>1, CountedSets, FS_AddElement
  <2> QED
    BY <1>1, <1>2, <2>1, <2>2, CountedSets, PoolConstants DEF IInv, BoundedConnections
<1> QED
  BY <1>3, <1>4, <1>5 DEF IInv

\* A connect that succeeds puts a fresh connection into the guard.
LEMMA ConnectOkStep ==
  ASSUME IInv, NEW t \in Task, ConnectOk(t)
  PROVE  IInv'
<1> PICK c \in Conn \ OpenConns : held' = [held EXCEPT ![t] = c]
  BY DEF ConnectOk
<1>1. /\ TypeOK /\ pc[t] = "connecting" /\ pc' = [pc EXCEPT ![t] = "using"]
      /\ UNCHANGED <<permits, waiters, idle>>
  BY DEF IInv, ConnectOk
<1>2. /\ c # NoConn /\ \A u \in Task : held[u] # c
      /\ \A i \in 1..Len(idle) : idle[i] # c
  BY PoolConstants DEF OpenConns
<1>3. QueueInv' /\ PermitsConserved' /\ TypeOK'
  <2>1. HasPermit(t) /\ "using" \in Stages \ {"out", "waiting"}
    BY <1>1 DEF HasPermit, Stages
  <2>2. QueueInv' /\ PermitsConserved' /\ pc' \in [Task -> Stages]
    BY <1>1, <2>1, HoldersUnchanged DEF IInv
  <2> QED
    BY <1>1, <2>2 DEF TypeOK
<1>4. HeldInv'
  BY <1>1, <1>2 DEF IInv, HeldInv, TypeOK
<1>5. Connected' = Connected
  BY <1>1 DEF Connected, TypeOK
<1> QED
  BY <1>1, <1>3, <1>4, <1>5 DEF IInv, BoundedConnections

-----------------------------------------------------------------------------
(* Leaving                                                                 *)

\* Releasing the permit of a task that owns no guard keeps the invariant; it
\* covers a failed connect, a dropped future and the end of drop.
LEMMA ReleaseStep ==
  ASSUME IInv, NEW t \in Task, HasPermit(t), pc[t] # "using",
         ReleasePermit(t), UNCHANGED <<idle, held>>
  PROVE  IInv'
<1>1. /\ pc' \in [Task -> Stages] /\ permits' \in 0..MaxSize /\ waiters' \in Seq(Task)
      /\ QueueInv' /\ PermitsConserved' /\ Connected' = Connected \ {t}
      /\ \A u \in Task : pc'[u] = "using" <=> (u # t /\ pc[u] = "using")
  BY ReleaseKeepsPermits DEF IInv
<1>2. HeldInv'
  BY <1>1, HeldUnchanged
<1>3. TypeOK'
  BY <1>1 DEF IInv, TypeOK
<1>4. Cardinality(Connected') <= Cardinality(Connected)
  <2>1. Connected' \in SUBSET Connected
    BY <1>1
  <2> QED
    BY <2>1, CountedSets, FS_Subset
<1>5. BoundedConnections'
  BY <1>4, CountedSets, CountedSetsNext, PoolConstants DEF IInv, TypeOK, BoundedConnections
<1> QED
  BY <1>1, <1>2, <1>3, <1>5 DEF IInv

\* A future dropped in the queue leaves it without touching a permit.
LEMMA CancelWaitingStep ==
  ASSUME IInv, NEW t \in Task, CancelWaiting(t)
  PROVE  IInv'
<1>1. /\ TypeOK /\ pc[t] = "waiting" /\ pc' = [pc EXCEPT ![t] = "out"]
      /\ waiters' = Without(waiters, t)
      /\ UNCHANGED <<permits, idle, held>>
  BY DEF IInv, CancelWaiting
<1>2. /\ waiters' \in Seq(Task)
      /\ \A i \in 1..Len(waiters') :
           waiters'[i] # t /\ \E j \in 1..Len(waiters) : waiters'[i] = waiters[j]
      /\ \A i, j \in 1..Len(waiters') : waiters'[i] = waiters'[j] => i = j
      /\ waiters = <<>> => waiters' = <<>>
  BY <1>1, WithoutProperties DEF IInv, QueueInv, TypeOK
<1>3. QueueInv'
  BY <1>1, <1>2 DEF IInv, QueueInv, TypeOK
<1>4. PermitHolders' = PermitHolders /\ Connected' = Connected
  BY <1>1 DEF PermitHolders, HasPermit, Connected, TypeOK
<1>5. PermitsConserved'
  BY <1>1, <1>2, <1>4 DEF IInv, PermitsConserved
<1>6. HeldInv'
  BY <1>1, HeldUnchanged DEF TypeOK
<1>7. TypeOK'
  BY <1>1, <1>2 DEF TypeOK, Stages
<1> QED
  BY <1>1, <1>3, <1>4, <1>5, <1>6, <1>7 DEF IInv, BoundedConnections

\* The body of drop moves the connection back; the permit is still held.
LEMMA ReturnConnStep ==
  ASSUME IInv, NEW t \in Task, ReturnConn(t)
  PROVE  IInv'
<1>1. /\ TypeOK /\ pc[t] = "using" /\ pc' = [pc EXCEPT ![t] = "returned"]
      /\ idle' = Append(idle, held[t]) /\ held' = [held EXCEPT ![t] = NoConn]
      /\ UNCHANGED <<permits, waiters>>
  BY DEF IInv, ReturnConn
<1>2. held[t] \in Conn /\ held[t] # NoConn
  BY <1>1 DEF IInv, HeldInv, TypeOK
<1>3. /\ idle' \in Seq(Conn) /\ Len(idle') = Len(idle) + 1 /\ Len(idle) \in Nat
      /\ idle'[Len(idle) + 1] = held[t]
      /\ \A i \in 1..Len(idle) : idle'[i] = idle[i]
  BY <1>1, <1>2 DEF TypeOK
<1>4. QueueInv' /\ PermitsConserved' /\ TypeOK'
  <2>1. HasPermit(t) /\ "returned" \in Stages \ {"out", "waiting"}
    BY <1>1 DEF HasPermit, Stages
  <2>2. QueueInv' /\ PermitsConserved' /\ pc' \in [Task -> Stages]
    BY <1>1, <2>1, HoldersUnchanged DEF IInv
  <2> QED
    BY <1>1, <1>3, <2>2 DEF TypeOK
<1>5. HeldInv'
  BY <1>1 DEF IInv, HeldInv, TypeOK
<1>6. BoundedConnections'
  <2>1. Connected' = Connected \ {t} /\ t \in Connected
    BY <1>1 DEF Connected, TypeOK
  <2>2. Cardinality(Connected \ {t}) = Cardinality(Connected) - 1
    BY <2>1, CountedSets, FS_RemoveElement
  <2> QED
    BY <1>3, <2>1, <2>2, CountedSets, PoolConstants DEF IInv, BoundedConnections
<1> QED
  BY <1>4, <1>5, <1>6 DEF IInv

-----------------------------------------------------------------------------
(* The theorems                                                            *)

\* The invariant holds initially: a new pool has all its permits and no
\* connection.
LEMMA PoolInit == Init => IInv
<1> SUFFICES ASSUME Init PROVE IInv
  OBVIOUS
<1> USE PoolConstants DEF Init
<1>1. TypeOK
  BY DEF TypeOK, Stages
<1>2. QueueInv /\ HeldInv
  BY DEF QueueInv, HeldInv
<1>3. PermitHolders = {} /\ Connected = {}
  BY DEF PermitHolders, HasPermit, Connected
<1>4. PermitsConserved /\ BoundedConnections
  BY <1>3, FS_EmptySet DEF PermitsConserved, BoundedConnections
<1> QED
  BY <1>1, <1>2, <1>4 DEF IInv

\* Every step of acquire and drop, by any task, keeps the invariant.
LEMMA PoolNext == IInv /\ [Next]_vars => IInv'
<1> SUFFICES ASSUME IInv, [Next]_vars PROVE IInv'
  OBVIOUS
<1>1. ASSUME NEW t \in Task, Acquire(t) PROVE IInv'
  BY <1>1, AcquireStep
<1>2. ASSUME NEW t \in Task, Wake(t) PROVE IInv'
  BY <1>2, WakeStep
<1>3. ASSUME NEW t \in Task, ReuseIdle(t) PROVE IInv'
  BY <1>3, ReuseIdleStep
<1>4. ASSUME NEW t \in Task, StartConnect(t) PROVE IInv'
  BY <1>4, StartConnectStep
<1>5. ASSUME NEW t \in Task, ConnectOk(t) PROVE IInv'
  BY <1>5, ConnectOkStep
<1>6. ASSUME NEW t \in Task, ConnectFail(t) PROVE IInv'
  BY <1>6, ReleaseStep DEF ConnectFail, HasPermit
<1>7. ASSUME NEW t \in Task, CancelWaiting(t) PROVE IInv'
  BY <1>7, CancelWaitingStep
<1>8. ASSUME NEW t \in Task, CancelWithPermit(t) PROVE IInv'
  BY <1>8, ReleaseStep DEF CancelWithPermit, HasPermit
<1>9. ASSUME NEW t \in Task, ReturnConn(t) PROVE IInv'
  BY <1>9, ReturnConnStep
<1>10. ASSUME NEW t \in Task, ReturnPermit(t) PROVE IInv'
  BY <1>10, ReleaseStep DEF ReturnPermit, HasPermit
<1>11. CASE UNCHANGED vars
  BY <1>11 DEF vars, IInv, TypeOK, QueueInv, HeldInv, PermitsConserved, BoundedConnections,
               PermitHolders, HasPermit, Connected
<1> QED
  BY <1>1, <1>2, <1>3, <1>4, <1>5, <1>6, <1>7, <1>8, <1>9, <1>10, <1>11 DEF Next

\* The pool's state keeps its types in every behaviour of acquire and drop.
THEOREM PoolTypeCorrect == Spec => []TypeOK
<1>1. IInv => TypeOK
  BY DEF IInv
<1> QED
  BY <1>1, PoolInit, PoolNext, PTL DEF Spec

\* For every max_size and any number of tasks, at most max_size connections
\* are open or being opened at any time (PoolConfig::max_size).
THEOREM PoolBounded == Spec => []BoundedConnections
<1>1. IInv => BoundedConnections
  BY DEF IInv
<1> QED
  BY <1>1, PoolInit, PoolNext, PTL DEF Spec

\* Permits are never lost or duplicated, on any path through acquire or drop.
THEOREM PoolPermitsConserved == Spec => []PermitsConserved
<1>1. IInv => PermitsConserved
  BY DEF IInv
<1> QED
  BY <1>1, PoolInit, PoolNext, PTL DEF Spec
=============================================================================
