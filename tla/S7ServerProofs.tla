--------------------------- MODULE S7ServerProofs ---------------------------
(***************************************************************************)
(* Proofs about S7Server, for every finite set of clients and every        *)
(* max_connections, and about the Handshake inside its connections, for    *)
(* any peers that send what they like.                                     *)
(***************************************************************************)
EXTENDS Handshake, FiniteSetTheorems, TLAPS

\* The listener's queue holds each queued connection at most once.
BacklogInv ==
  /\ \A i \in 1..Len(backlog) : task[backlog[i]] = "queued"
  /\ \A i, j \in 1..Len(backlog) : backlog[i] = backlog[j] => i = j

\* The inductive invariant.  The count is bounded because counted tasks own a
\* permit; accepting keeps the permits adding up because the connection taken
\* from the queue had no task yet (BacklogInv).
IInv ==
  /\ TypeOK
  /\ BacklogInv
  /\ PermitsAddUp
  /\ count = Cardinality(CountedTasks)

-----------------------------------------------------------------------------
(* Counting tasks                                                          *)

\* The sets the invariant counts are finite, now and after a step.
LEMMA CountedSets ==
  /\ IsFiniteSet(Owners) /\ Cardinality(Owners) \in Nat
  /\ IsFiniteSet(CountedTasks) /\ Cardinality(CountedTasks) \in Nat
  /\ IsFiniteSet(Owners') /\ Cardinality(Owners') \in Nat
  /\ IsFiniteSet(CountedTasks') /\ Cardinality(CountedTasks') \in Nat
<1>1. /\ Owners \in SUBSET Client /\ CountedTasks \in SUBSET Client
      /\ Owners' \in SUBSET Client /\ CountedTasks' \in SUBSET Client
  BY DEF Owners, CountedTasks
<1>2. /\ IsFiniteSet(Owners) /\ IsFiniteSet(CountedTasks)
      /\ IsFiniteSet(Owners') /\ IsFiniteSet(CountedTasks')
  BY <1>1, FS_Subset, ServerConstants
<1> QED
  BY <1>2, FS_CardinalityType

Bit(b) == IF b THEN 1 ELSE 0

\* What moving one task from stage to stage does to the two sets.
LEMMA MoveTask ==
  ASSUME TypeOK, NEW c \in Client, NEW s \in Stages, task' = [task EXCEPT ![c] = s]
  PROVE  /\ task' \in [Client -> Stages]
         /\ Cardinality(Owners') = Cardinality(Owners) + Bit(s \in Owning) - Bit(task[c] \in Owning)
         /\ Cardinality(CountedTasks') =
              Cardinality(CountedTasks) + Bit(s \in Counted) - Bit(task[c] \in Counted)
<1> USE CountedSets
<1>1. /\ task' \in [Client -> Stages] /\ task'[c] = s
      /\ \A d \in Client \ {c} : task'[d] = task[d]
  BY DEF TypeOK
<1>2. Owners' = IF s \in Owning THEN Owners \cup {c} ELSE Owners \ {c}
  BY <1>1 DEF Owners
<1>3. CountedTasks' = IF s \in Counted THEN CountedTasks \cup {c} ELSE CountedTasks \ {c}
  BY <1>1 DEF CountedTasks
<1>4. (c \in Owners <=> task[c] \in Owning) /\ (c \in CountedTasks <=> task[c] \in Counted)
  BY DEF Owners, CountedTasks
<1>5. /\ Cardinality(Owners \cup {c}) = IF c \in Owners THEN Cardinality(Owners) ELSE Cardinality(Owners) + 1
      /\ Cardinality(Owners \ {c}) = IF c \in Owners THEN Cardinality(Owners) - 1 ELSE Cardinality(Owners)
  BY FS_AddElement, FS_RemoveElement
<1>6. /\ Cardinality(CountedTasks \cup {c}) =
           IF c \in CountedTasks THEN Cardinality(CountedTasks) ELSE Cardinality(CountedTasks) + 1
      /\ Cardinality(CountedTasks \ {c}) =
           IF c \in CountedTasks THEN Cardinality(CountedTasks) - 1 ELSE Cardinality(CountedTasks)
  BY FS_AddElement, FS_RemoveElement
<1>7. Cardinality(Owners') = Cardinality(Owners) + Bit(s \in Owning) - Bit(task[c] \in Owning)
  BY <1>2, <1>4, <1>5 DEF Bit
<1>8. Cardinality(CountedTasks') =
        Cardinality(CountedTasks) + Bit(s \in Counted) - Bit(task[c] \in Counted)
  BY <1>3, <1>4, <1>6 DEF Bit
<1> QED
  BY <1>1, <1>7, <1>8

\* Moving a task that is not queued leaves the listener's queue in order.
LEMMA BacklogKept ==
  ASSUME TypeOK, BacklogInv, NEW c \in Client, task[c] # "queued", NEW s \in Stages,
         task' = [task EXCEPT ![c] = s], backlog' = backlog
  PROVE  BacklogInv'
<1>1. \A i \in 1..Len(backlog) : backlog[i] \in Client /\ backlog[i] # c
  BY DEF TypeOK, BacklogInv
<1>2. \A i \in 1..Len(backlog) : task'[backlog[i]] = "queued"
  BY <1>1 DEF TypeOK, BacklogInv
<1> QED
  BY <1>2 DEF BacklogInv

-----------------------------------------------------------------------------
(* The actions                                                             *)

\* Taking a permit moves it from the semaphore to the hand of serve.
LEMMA AcquirePermitStep == IInv /\ AcquirePermit => IInv'
<1> SUFFICES ASSUME IInv, AcquirePermit PROVE IInv'
  OBVIOUS
<1>1. Owners' = Owners /\ CountedTasks' = CountedTasks
  BY DEF AcquirePermit, Owners, CountedTasks
<1>2. TypeOK' /\ BacklogInv'
  BY DEF IInv, TypeOK, BacklogInv, AcquirePermit
<1>3. PermitsAddUp'
  BY <1>1, CountedSets, ServerConstants DEF IInv, TypeOK, PermitsAddUp, InHand, AcquirePermit
<1> QED
  BY <1>1, <1>2, <1>3 DEF IInv, AcquirePermit

\* Accepting moves it on to the spawned task.
LEMMA AcceptStep == IInv /\ Accept => IInv'
<1> SUFFICES ASSUME IInv, Accept PROVE IInv'
  OBVIOUS
<1> DEFINE c == Head(backlog)
<1>1. /\ c \in Client /\ c = backlog[1] /\ 1 \in 1..Len(backlog) /\ Len(backlog) \in Nat
      /\ backlog' \in Seq(Client) /\ Len(backlog') = Len(backlog) - 1
      /\ \A i \in 1..Len(backlog') : backlog'[i] = backlog[i + 1] /\ i + 1 \in 1..Len(backlog)
  BY DEF IInv, TypeOK, Accept
<1>2. task[c] = "queued"
  BY <1>1 DEF IInv, BacklogInv
<1>3. task' = [task EXCEPT ![c] = "spawned"]
  BY DEF Accept
<1> HIDE DEF c
<1>4. /\ task' \in [Client -> Stages]
      /\ Cardinality(Owners') = Cardinality(Owners) + 1
      /\ Cardinality(CountedTasks') = Cardinality(CountedTasks)
  <2>1. "spawned" \in Stages /\ "spawned" \in Owning /\ "spawned" \notin Counted
        /\ "queued" \notin Owning /\ "queued" \notin Counted
    BY DEF Stages, Owning, Counted
  <2>2. /\ task' \in [Client -> Stages]
        /\ Cardinality(Owners') =
             Cardinality(Owners) + Bit("spawned" \in Owning) - Bit(task[c] \in Owning)
        /\ Cardinality(CountedTasks') =
             Cardinality(CountedTasks) + Bit("spawned" \in Counted) - Bit(task[c] \in Counted)
    BY <1>1, <1>3, <2>1, MoveTask DEF IInv
  <2> QED
    BY <1>2, <2>1, <2>2, CountedSets DEF Bit
<1>5. TypeOK'
  BY <1>1, <1>4 DEF IInv, TypeOK, Accept
<1>6. BacklogInv'
  <2>1. \A i \in 1..Len(backlog') : backlog'[i] # c /\ backlog'[i] \in Client
    BY <1>1 DEF IInv, BacklogInv, TypeOK
  <2>2. \A i \in 1..Len(backlog') : task'[backlog'[i]] = "queued"
    BY <1>1, <1>3, <2>1 DEF IInv, BacklogInv, TypeOK
  <2>3. \A i, j \in 1..Len(backlog') : backlog'[i] = backlog'[j] => i = j
    <3> SUFFICES ASSUME NEW i \in 1..Len(backlog'), NEW j \in 1..Len(backlog'),
                        backlog'[i] = backlog'[j]
                 PROVE  i = j
      OBVIOUS
    <3>1. i + 1 = j + 1
      BY <1>1 DEF IInv, BacklogInv
    <3> QED
      BY <1>1, <3>1
  <2> QED
    BY <2>2, <2>3 DEF BacklogInv
<1>7. PermitsAddUp'
  BY <1>4, CountedSets, ServerConstants DEF IInv, TypeOK, PermitsAddUp, InHand, Accept
<1> QED
  BY <1>4, <1>5, <1>6, <1>7 DEF IInv, Accept

\* A failed accept gives the permit back and empties the queue.
LEMMA AcceptErrorStep == IInv /\ AcceptError => IInv'
<1> SUFFICES ASSUME IInv, AcceptError PROVE IInv'
  OBVIOUS
<1>1. Owners' = Owners /\ CountedTasks' = CountedTasks
  BY DEF IInv, TypeOK, AcceptError, Owners, CountedTasks, Owning, Counted
<1>2. TypeOK' /\ BacklogInv'
  BY DEF IInv, TypeOK, BacklogInv, AcceptError, Stages
<1>3. PermitsAddUp'
  BY <1>1, CountedSets, ServerConstants DEF IInv, TypeOK, PermitsAddUp, InHand, AcceptError
<1> QED
  BY <1>1, <1>2, <1>3 DEF IInv, AcceptError

\* Every step of a connection's task.
LEMMA TaskStepKeeps == ASSUME NEW c \in Client, IInv, TaskStep(c) PROVE IInv'
<1> USE CountedSets, ServerConstants
<1>1. CASE ClientConnected(c)
  <2>1. "handshake" \in Stages /\ "handshake" \in Owning /\ "handshake" \in Counted
        /\ "spawned" \in Owning /\ "spawned" \notin Counted
    BY DEF Stages, Owning, Counted
  <2>2. /\ task' \in [Client -> Stages] /\ Cardinality(Owners') = Cardinality(Owners)
        /\ Cardinality(CountedTasks') = Cardinality(CountedTasks) + 1
    <3>1. task' = [task EXCEPT ![c] = "handshake"] /\ TypeOK
      BY <1>1 DEF IInv, ClientConnected
    <3>2. /\ task' \in [Client -> Stages]
          /\ Cardinality(Owners') =
               Cardinality(Owners) + Bit("handshake" \in Owning) - Bit(task[c] \in Owning)
          /\ Cardinality(CountedTasks') =
               Cardinality(CountedTasks) + Bit("handshake" \in Counted) - Bit(task[c] \in Counted)
      BY <2>1, <3>1, MoveTask
    <3> QED
      BY <1>1, <2>1, <3>2 DEF Bit, ClientConnected
  <2>3. BacklogInv'
    BY <1>1, <2>1, BacklogKept DEF IInv, ClientConnected
  <2> QED
    BY <1>1, <2>2, <2>3 DEF IInv, TypeOK, PermitsAddUp, InHand, ClientConnected
<1>2. CASE HandshakeDone(c)
  <2>1. /\ "dispatch" \in Stages /\ "dispatch" \in Owning /\ "dispatch" \in Counted
        /\ "handshake" \in Owning /\ "handshake" \in Counted
    BY DEF Stages, Owning, Counted
  <2>2. /\ task' \in [Client -> Stages] /\ Cardinality(Owners') = Cardinality(Owners)
        /\ Cardinality(CountedTasks') = Cardinality(CountedTasks)
    <3>1. task' = [task EXCEPT ![c] = "dispatch"] /\ TypeOK
      BY <1>2 DEF IInv, HandshakeDone
    <3>2. /\ task' \in [Client -> Stages]
          /\ Cardinality(Owners') =
               Cardinality(Owners) + Bit("dispatch" \in Owning) - Bit(task[c] \in Owning)
          /\ Cardinality(CountedTasks') =
               Cardinality(CountedTasks) + Bit("dispatch" \in Counted) - Bit(task[c] \in Counted)
      BY <2>1, <3>1, MoveTask
    <3> QED
      BY <1>2, <2>1, <3>2 DEF Bit, HandshakeDone
  <2>3. BacklogInv'
    BY <1>2, <2>1, BacklogKept DEF IInv, HandshakeDone
  <2> QED
    BY <1>2, <2>2, <2>3 DEF IInv, TypeOK, PermitsAddUp, InHand, HandshakeDone
<1>3. CASE ServeOneEnds(c)
  <2>1. /\ "ended" \in Stages /\ "ended" \in Owning /\ "ended" \in Counted
        /\ task[c] \in Owning /\ task[c] \in Counted /\ task[c] # "queued"
    BY <1>3 DEF Stages, Owning, Counted, ServeOneEnds
  <2>2. /\ task' \in [Client -> Stages] /\ Cardinality(Owners') = Cardinality(Owners)
        /\ Cardinality(CountedTasks') = Cardinality(CountedTasks)
    <3>1. task' = [task EXCEPT ![c] = "ended"] /\ TypeOK
      BY <1>3 DEF IInv, ServeOneEnds
    <3>2. /\ task' \in [Client -> Stages]
          /\ Cardinality(Owners') =
               Cardinality(Owners) + Bit("ended" \in Owning) - Bit(task[c] \in Owning)
          /\ Cardinality(CountedTasks') =
               Cardinality(CountedTasks) + Bit("ended" \in Counted) - Bit(task[c] \in Counted)
      BY <2>1, <3>1, MoveTask
    <3> QED
      BY <1>3, <2>1, <3>2 DEF Bit, ServeOneEnds
  <2>3. BacklogInv'
    BY <1>3, <2>1, BacklogKept DEF IInv, ServeOneEnds
  <2> QED
    BY <1>3, <2>2, <2>3 DEF IInv, TypeOK, PermitsAddUp, InHand, ServeOneEnds
<1>4. CASE ClientDisconnected(c)
  <2>1. /\ "leaving" \in Stages /\ "leaving" \in Owning /\ "leaving" \notin Counted
        /\ "ended" \in Owning /\ "ended" \in Counted
    BY DEF Stages, Owning, Counted
  <2>2. /\ task' \in [Client -> Stages] /\ Cardinality(Owners') = Cardinality(Owners)
        /\ Cardinality(CountedTasks') = Cardinality(CountedTasks) - 1
    <3>1. task' = [task EXCEPT ![c] = "leaving"] /\ TypeOK
      BY <1>4 DEF IInv, ClientDisconnected
    <3>2. /\ task' \in [Client -> Stages]
          /\ Cardinality(Owners') =
               Cardinality(Owners) + Bit("leaving" \in Owning) - Bit(task[c] \in Owning)
          /\ Cardinality(CountedTasks') =
               Cardinality(CountedTasks) + Bit("leaving" \in Counted) - Bit(task[c] \in Counted)
      BY <2>1, <3>1, MoveTask
    <3> QED
      BY <1>4, <2>1, <3>2 DEF Bit, ClientDisconnected
  <2>3. BacklogInv'
    BY <1>4, <2>1, BacklogKept DEF IInv, ClientDisconnected
  <2>4. count' = count - 1 /\ count' \in Nat
    BY <1>4, <2>2 DEF IInv, TypeOK, ClientDisconnected
  <2> QED
    BY <1>4, <2>2, <2>3, <2>4 DEF IInv, TypeOK, PermitsAddUp, InHand, ClientDisconnected
<1>5. CASE TaskEnds(c)
  <2>1. /\ "none" \in Stages /\ "none" \notin Owning /\ "none" \notin Counted
        /\ "leaving" \in Owning /\ "leaving" \notin Counted
    BY DEF Stages, Owning, Counted
  <2>2. /\ task' \in [Client -> Stages] /\ Cardinality(Owners') = Cardinality(Owners) - 1
        /\ Cardinality(CountedTasks') = Cardinality(CountedTasks)
    <3>1. task' = [task EXCEPT ![c] = "none"] /\ TypeOK
      BY <1>5 DEF IInv, TaskEnds
    <3>2. /\ task' \in [Client -> Stages]
          /\ Cardinality(Owners') =
               Cardinality(Owners) + Bit("none" \in Owning) - Bit(task[c] \in Owning)
          /\ Cardinality(CountedTasks') =
               Cardinality(CountedTasks) + Bit("none" \in Counted) - Bit(task[c] \in Counted)
      BY <2>1, <3>1, MoveTask
    <3> QED
      BY <1>5, <2>1, <3>2 DEF Bit, TaskEnds
  <2>3. BacklogInv'
    BY <1>5, <2>1, BacklogKept DEF IInv, TaskEnds
  <2>4. TypeOK'
    BY <1>5, <2>2 DEF IInv, TypeOK, TaskEnds
  <2>5. PermitsAddUp'
    <3>1. permits' = permits + 1 /\ InHand' = InHand /\ permits \in Nat /\ InHand \in Nat
      BY <1>5 DEF IInv, TypeOK, TaskEnds, InHand
    <3> QED
      BY <2>2, <3>1 DEF IInv, PermitsAddUp
  <2>6. count' = Cardinality(CountedTasks')
    BY <1>5, <2>2 DEF IInv, TaskEnds
  <2> QED
    BY <2>3, <2>4, <2>5, <2>6 DEF IInv
<1> QED
  BY <1>1, <1>2, <1>3, <1>4, <1>5 DEF TaskStep

\* A peer that connects joins the queue; it was not in it.
LEMMA ConnectStep == ASSUME NEW c \in Client, IInv, Connect(c) PROVE IInv'
<1> USE CountedSets, ServerConstants
<1>1. /\ "queued" \in Stages /\ "queued" \notin Owning /\ "queued" \notin Counted
      /\ "none" \notin Owning /\ "none" \notin Counted
  BY DEF Stages, Owning, Counted
<1>2. /\ task' \in [Client -> Stages] /\ Cardinality(Owners') = Cardinality(Owners)
      /\ Cardinality(CountedTasks') = Cardinality(CountedTasks)
  <2>1. task' = [task EXCEPT ![c] = "queued"] /\ TypeOK /\ task[c] = "none"
    BY DEF IInv, Connect
  <2>2. /\ task' \in [Client -> Stages]
        /\ Cardinality(Owners') =
             Cardinality(Owners) + Bit("queued" \in Owning) - Bit(task[c] \in Owning)
        /\ Cardinality(CountedTasks') =
             Cardinality(CountedTasks) + Bit("queued" \in Counted) - Bit(task[c] \in Counted)
    BY <1>1, <2>1, MoveTask
  <2> QED
    BY <1>1, <2>1, <2>2 DEF Bit
<1>3. /\ backlog' \in Seq(Client) /\ Len(backlog') = Len(backlog) + 1 /\ Len(backlog) \in Nat
      /\ \A i \in 1..Len(backlog) : backlog'[i] = backlog[i] /\ backlog[i] # c /\ backlog[i] \in Client
      /\ backlog'[Len(backlog) + 1] = c
  BY DEF IInv, TypeOK, BacklogInv, Connect
<1>4. \A i \in 1..Len(backlog') : i \in 1..Len(backlog) \/ i = Len(backlog) + 1
  BY <1>3
<1>5. /\ task'[c] = "queued"
      /\ \A i \in 1..Len(backlog) : task'[backlog[i]] = "queued"
  BY <1>3 DEF IInv, TypeOK, BacklogInv, Connect
<1>6. \A i \in 1..Len(backlog') : task'[backlog'[i]] = "queued"
  BY <1>3, <1>4, <1>5
<1>7. \A i, j \in 1..Len(backlog') : backlog'[i] = backlog'[j] => i = j
  BY <1>3, <1>4 DEF IInv, BacklogInv
<1>8. BacklogInv'
  BY <1>6, <1>7 DEF BacklogInv
<1> QED
  BY <1>2, <1>3, <1>8 DEF IInv, TypeOK, PermitsAddUp, InHand, Connect

-----------------------------------------------------------------------------
(* The theorems                                                            *)

\* The invariant holds when serve starts.
LEMMA ServerInit == Init => IInv
<1> SUFFICES ASSUME Init PROVE IInv
  OBVIOUS
<1>1. Owners = {} /\ CountedTasks = {}
  BY DEF Init, Owners, CountedTasks, Owning, Counted
<1> QED
  BY <1>1, FS_EmptySet, ServerConstants
  DEF Init, IInv, TypeOK, Stages, BacklogInv, PermitsAddUp, InHand

\* Every step keeps it.
LEMMA ServerNext == IInv /\ [Next]_vars => IInv'
<1> SUFFICES ASSUME IInv, [Next]_vars PROVE IInv'
  OBVIOUS
<1>1. CASE AcquirePermit
  BY <1>1, AcquirePermitStep
<1>2. CASE Accept
  BY <1>2, AcceptStep
<1>3. CASE AcceptError
  BY <1>3, AcceptErrorStep
<1>4. CASE \E c \in Client : TaskStep(c)
  BY <1>4, TaskStepKeeps
<1>5. CASE \E c \in Client : Connect(c)
  BY <1>5, ConnectStep
<1>6. CASE UNCHANGED vars
  BY <1>6 DEF vars, IInv, TypeOK, BacklogInv, PermitsAddUp, InHand, Owners, CountedTasks
<1> QED
  BY <1>1, <1>2, <1>3, <1>4, <1>5, <1>6 DEF Next

\* The count and its bound follow from the invariant.
LEMMA CountBounded == IInv => ClientCountExact
<1> SUFFICES ASSUME IInv PROVE ClientCountExact
  OBVIOUS
<1>1. CountedTasks \in SUBSET Owners
  BY DEF CountedTasks, Owners, Counted, Owning
<1>2. Cardinality(CountedTasks) <= Cardinality(Owners)
  BY <1>1, CountedSets, FS_Subset
<1>3. Cardinality(Owners) <= MaxConnections
  <2>1. permits \in Nat /\ InHand \in Nat
    BY DEF IInv, TypeOK, InHand
  <2>2. permits + InHand + Cardinality(Owners) = MaxConnections
    BY DEF IInv, PermitsAddUp
  <2> QED
    BY <2>1, <2>2, CountedSets, ServerConstants
<1>4. Cardinality(CountedTasks) <= MaxConnections
  BY <1>2, <1>3, CountedSets, ServerConstants
<1> QED
  BY <1>4 DEF IInv, ClientCountExact

\* The state of the accept loop and its tasks is always well formed.
THEOREM ServerTypeCorrect == Spec => []TypeOK
<1>1. IInv => TypeOK
  BY DEF IInv
<1> QED
  BY <1>1, ServerInit, ServerNext, PTL DEF Spec

\* The permits of the semaphore always add up to max_connections.
THEOREM ServerPermitsAddUp == Spec => []PermitsAddUp
<1>1. IInv => PermitsAddUp
  BY DEF IInv
<1> QED
  BY <1>1, ServerInit, ServerNext, PTL DEF Spec

\* get_status reports the exact number of served connections, and no more
\* than max_connections.
THEOREM ServerCountExact == Spec => []ClientCountExact
BY CountBounded, ServerInit, ServerNext, PTL DEF Spec

-----------------------------------------------------------------------------
(* The handshake: its invariant                                            *)

ConnectRequest == [code |-> CR, dst |-> 0, src |-> 1, rack |-> 0, slot |-> 1]
ConnectConfirm == [code |-> CC, dst |-> 1, src |-> 1]
AskFor(n) ==
  Data(EncodeHeader([type |-> Job, ref |-> 1, plen |-> 8, dlen |-> 0, error |-> <<>>])
         \o EncodeNegotiate([calling |-> 1, called |-> 1, pdu |-> n]))
AgreeTo(n) ==
  Data(EncodeHeader([type |-> AckData, ref |-> 1, plen |-> 8, dlen |-> 0, error |-> <<0, 0>>])
         \o EncodeNegotiate([calling |-> 1, called |-> 1, pdu |-> n]))

HsTypeOK ==
  /\ peer \in [Client -> [at : {"none", "cc", "neg", "open"}, asked : Nat, pdu : Nat]]
  /\ side = [c \in Client |-> side[c]] /\ up = [c \in Client |-> up[c]]
  /\ down = [c \in Client |-> down[c]]

\* Where server_handshake is, in the task of the connection.
SideInv(c) ==
  \/ side[c] = NoSide /\ task[c] # "dispatch"
  \/ side[c] = [at |-> "neg", pdu |-> 0] /\ task[c] = "handshake"
  \/ side[c].at = "done" /\ task[c] = "dispatch"

Gone(c) == task[c] \in {"none", "ended", "leaving"}

\* Client and server take turns: what is on the way is what the one waiting
\* for it expects, unless the server is gone.
PeerInv(c) ==
  \/ peer[c].at = "none" /\ down[c] = <<>>
  \/ /\ peer[c].at = "cc"
     /\ \/ /\ task[c] \in {"queued", "spawned", "handshake"} /\ side[c].at = "cr"
           /\ up[c] = <<ConnectRequest>> /\ down[c] = <<>>
        \/ task[c] = "handshake" /\ side[c].at = "neg" /\ up[c] = <<>> /\ down[c] = <<ConnectConfirm>>
        \/ Gone(c) /\ down[c] \in {<<>>, <<ConnectConfirm>>}
  \/ /\ peer[c].at = "neg"
     /\ \/ /\ task[c] = "handshake" /\ side[c].at = "neg"
           /\ up[c] = <<AskFor(peer[c].asked)>> /\ down[c] = <<>>
        \/ /\ task[c] = "dispatch" /\ side[c].pdu = Capped(peer[c].asked)
           /\ down[c] = <<AgreeTo(Capped(peer[c].asked))>>
        \/ Gone(c) /\ down[c] \in {<<>>, <<AgreeTo(Capped(peer[c].asked))>>}
  \/ /\ peer[c].at = "open" /\ peer[c].pdu = Capped(peer[c].asked) /\ down[c] = <<>>
     /\ Gone(c) \/ (task[c] = "dispatch" /\ side[c].pdu = peer[c].pdu)

\* What holds of each connection, with a client of either kind.
ConnOK(c) ==
  /\ SideInv(c)
  /\ c \notin Foreign => PeerInv(c)
  /\ c \in Foreign => peer[c].at \in {"none", "open"}

HsInv == HsTypeOK /\ \A c \in Client : ConnOK(c)

-----------------------------------------------------------------------------
(* The handshake: what is sent is what is read                             *)

\* What the client asks for is what the server reads, unless it takes it for
\* no negotiation at all.
LEMMA AskDecoded ==
  ASSUME NEW n \in Nat, Asked(AskFor(n)) # ProtoError
  PROVE  Asked(AskFor(n)) = [calling |-> 1, called |-> 1, pdu |-> n]
<1> DEFINE b == (<<50, 1, 0, 1, 8, 0>> \o <<>>) \o <<240, 0, 1, 1, n>>
           r == SubSeq(b, 7, Len(b))
<1>1. AskFor(n).payload = b /\ AskFor(n).code = DT
  BY DEF AskFor, Data, EncodeHeader, EncodeNegotiate, Job, AckData
<1>2. b \in Seq(Nat) /\ Len(b) = 11
  OBVIOUS
<1>3. b[2] = 1 /\ b[7] = 240
  OBVIOUS
<1>4. b[9] = 1 /\ b[10] = 1 /\ b[11] = n
  OBVIOUS
<1> HIDE DEF b
<1>5. Len(r) = 5 /\ r[1] = 240 /\ r[3] = 1 /\ r[4] = 1 /\ r[5] = n
  BY ONLY <1>2, <1>3, <1>4 DEF r
<1> HIDE DEF r
<1>6. DecodeNegotiate(r) = [calling |-> 1, called |-> 1, pdu |-> n]
  BY ONLY <1>5 DEF DecodeNegotiate
<1>7. DecodeHeader(b) = ProtoError \/ (DecodeHeader(b).rest = r /\ DecodeHeader(b).header.type = 1)
  BY <1>2, <1>3 DEF DecodeHeader, r, Ack, AckData
<1> QED
  BY <1>1, <1>6, <1>7 DEF Asked, Job

\* What the server agrees to is what the client reads, unless it takes it
\* for an error.
LEMMA AgreeDecoded ==
  ASSUME NEW n \in Nat, Negotiated(AgreeTo(n)) # 0
  PROVE  Negotiated(AgreeTo(n)) = n
<1> DEFINE b == (<<50, 3, 0, 1, 8, 0>> \o <<0, 0>>) \o <<240, 0, 1, 1, n>>
           r == SubSeq(b, 9, Len(b))
<1>1. AgreeTo(n).payload = b /\ AgreeTo(n).code = DT
  BY DEF AgreeTo, Data, EncodeHeader, EncodeNegotiate, Job, AckData
<1>2. b \in Seq(Nat) /\ Len(b) = 13
  OBVIOUS
<1>3. b[2] = 3 /\ b[9] = 240
  OBVIOUS
<1>4. b[11] = 1 /\ b[12] = 1 /\ b[13] = n
  OBVIOUS
<1> HIDE DEF b
<1>5. Len(r) = 5 /\ r[1] = 240 /\ r[3] = 1 /\ r[4] = 1 /\ r[5] = n
  BY ONLY <1>2, <1>3, <1>4 DEF r
<1> HIDE DEF r
<1>6. DecodeNegotiate(r) = [calling |-> 1, called |-> 1, pdu |-> n]
  BY ONLY <1>5 DEF DecodeNegotiate
<1>7. DecodeHeader(b) = ProtoError \/ (DecodeHeader(b).rest = r /\ DecodeHeader(b).header.type = 3)
  BY <1>2, <1>3 DEF DecodeHeader, r, Ack, AckData
<1> QED
  BY <1>1, <1>6, <1>7 DEF Negotiated

-----------------------------------------------------------------------------
(* The handshake: its steps                                                *)

\* What changing the entry of one connection does.
LEMMA UpdateOne ==
  ASSUME NEW S, NEW f, f = [x \in S |-> f[x]], NEW c \in S, NEW v, NEW g, g = [f EXCEPT ![c] = v]
  PROVE  g = [x \in S |-> g[x]] /\ g[c] = v /\ \A d \in S \ {c} : g[d] = f[d]
OBVIOUS

\* Queues of one PDU at most.
LEMMA OnePdu ==
  ASSUME NEW x
  PROVE  <<x>> # <<>> /\ Head(<<x>>) = x /\ Tail(<<x>>) = <<>> /\ Append(<<>>, x) = <<x>>
OBVIOUS

SameOn(c) ==
  /\ task'[c] = task[c] /\ side'[c] = side[c] /\ peer'[c] = peer[c]
  /\ up'[c] = up[c] /\ down'[c] = down[c]

\* A step of one connection leaves the others alone.
LEMMA OneConn ==
  ASSUME HsInv, HsTypeOK', NEW c \in Client, ConnOK(c)', \A d \in Client \ {c} : SameOn(d)
  PROVE  HsInv'
<1> SUFFICES ASSUME NEW d \in Client \ {c} PROVE ConnOK(d)'
  BY DEF HsInv
<1>1. ConnOK(d) /\ SameOn(d)
  BY DEF HsInv
<1>2. SideInv(d)'
  BY <1>1 DEF ConnOK, SameOn, SideInv
<1>3. d \notin Foreign => PeerInv(d)'
  BY <1>1 DEF ConnOK, SameOn, PeerInv, Gone
<1> QED
  BY <1>1, <1>2, <1>3 DEF ConnOK, SameOn

\* connect sends the connect request on a connection of its own.
LEMMA SendCRStep ==
  ASSUME TypeOK, HsInv, NEW c \in Client, SendCR(c)
  PROVE  HsInv'
<1>1. PICK size \in AskedSizes : peer' = [peer EXCEPT ![c] = [at |-> "cc", asked |-> size, pdu |-> 0]]
  BY DEF SendCR
<1>2. /\ c \notin Foreign /\ peer[c].at = "none" /\ task[c] = "none"
      /\ task' = [task EXCEPT ![c] = "queued"]
      /\ up' = [up EXCEPT ![c] = <<ConnectRequest>>]
      /\ side' = side /\ down' = down
  BY DEF SendCR, Connect, ConnectRequest
<1>3. SideInv(c) /\ PeerInv(c) /\ HsTypeOK
  BY <1>2 DEF HsInv, ConnOK
<1>4. side[c] = NoSide /\ down[c] = <<>>
  BY <1>2, <1>3 DEF SideInv, PeerInv
<1>5. size \in Nat
  BY HandshakeConstants
<1>6. task'[c] = "queued" /\ \A d \in Client \ {c} : task'[d] = task[d]
  BY <1>2 DEF TypeOK
<1>7. up' = [x \in Client |-> up'[x]] /\ up'[c] = <<ConnectRequest>> /\ \A d \in Client \ {c} : up'[d] = up[d]
  BY <1>2, <1>3, UpdateOne DEF HsTypeOK
<1>8. /\ peer' \in [Client -> [at : {"none", "cc", "neg", "open"}, asked : Nat, pdu : Nat]]
      /\ peer'[c].at = "cc" /\ \A d \in Client \ {c} : peer'[d] = peer[d]
  BY <1>1, <1>3, <1>5 DEF HsTypeOK
<1>9. ConnOK(c)'
  BY <1>2, <1>4, <1>6, <1>7, <1>8 DEF ConnOK, SideInv, PeerInv, NoSide
<1>10. HsTypeOK'
  BY <1>2, <1>3, <1>7, <1>8 DEF HsTypeOK
<1> QED
  BY <1>2, <1>6, <1>7, <1>8, <1>9, <1>10, OneConn DEF SameOn

\* The connect confirm is answered by the negotiation.
LEMMA RecvCCStep ==
  ASSUME TypeOK, HsInv, NEW c \in Client, RecvCC(c)
  PROVE  HsInv'
<1>1. peer[c].at = "cc" /\ down[c] # <<>> /\ UNCHANGED <<task, side>>
  BY DEF RecvCC, vars
<1>2. c \notin Foreign /\ PeerInv(c) /\ SideInv(c) /\ HsTypeOK
  BY <1>1 DEF HsInv, ConnOK
<1>3. /\ down[c] = <<ConnectConfirm>>
      /\ Gone(c) \/ (task[c] = "handshake" /\ side[c].at = "neg" /\ up[c] = <<>>)
  BY <1>1, <1>2 DEF PeerInv
<1>4. Head(down[c]).code = CC /\ Tail(down[c]) = <<>>
  BY <1>3, OnePdu DEF ConnectConfirm
<1> DEFINE n == peer[c].asked
           q == Append(up[c], AskFor(n))
<1>5. /\ peer' = [peer EXCEPT ![c].at = "neg"] /\ up' = [up EXCEPT ![c] = q]
      /\ down' = [down EXCEPT ![c] = <<>>]
  BY <1>4 DEF RecvCC, AskFor
<1> HIDE DEF q
<1>6. up' = [x \in Client |-> up'[x]] /\ up'[c] = q /\ \A d \in Client \ {c} : up'[d] = up[d]
  BY <1>2, <1>5, UpdateOne DEF HsTypeOK
<1>7. down' = [x \in Client |-> down'[x]] /\ down'[c] = <<>> /\ \A d \in Client \ {c} : down'[d] = down[d]
  BY <1>2, <1>5, UpdateOne DEF HsTypeOK
<1>8. /\ peer' \in [Client -> [at : {"none", "cc", "neg", "open"}, asked : Nat, pdu : Nat]]
      /\ peer'[c].at = "neg" /\ peer'[c].asked = n /\ \A d \in Client \ {c} : peer'[d] = peer[d]
  BY <1>2, <1>5 DEF HsTypeOK
<1>9. up[c] = <<>> => q = <<AskFor(n)>>
  BY OnePdu DEF q
<1>10. PeerInv(c)'
  BY <1>1, <1>3, <1>6, <1>7, <1>8, <1>9 DEF PeerInv, Gone
<1>11. SideInv(c)'
  BY <1>1, <1>2 DEF SideInv
<1>12. HsTypeOK'
  BY <1>1, <1>2, <1>6, <1>7, <1>8 DEF HsTypeOK
<1> QED
  BY <1>1, <1>2, <1>6, <1>7, <1>8, <1>10, <1>11, <1>12, OneConn DEF SameOn, ConnOK

\* The server can do a size.
LEMMA CappedSize ==
  ASSUME NEW n \in Nat
  PROVE  Capped(n) \in Nat /\ Capped(n) <= n /\ Capped(n) <= MaxPduSize
BY HandshakeConstants DEF Capped

\* The client takes the size that the answer names.
LEMMA RecvNegotiatedStep ==
  ASSUME TypeOK, HsInv, NEW c \in Client, RecvNegotiated(c)
  PROVE  HsInv'
<1> DEFINE n == Capped(peer[c].asked)
           size == Negotiated(Head(down[c]))
<1>1. /\ peer[c].at = "neg" /\ down[c] # <<>> /\ UNCHANGED <<task, side, up>>
      /\ down' = [down EXCEPT ![c] = Tail(down[c])]
      /\ peer' = [peer EXCEPT ![c] = IF size = 0 THEN NoPeer
                                     ELSE [peer[c] EXCEPT !.at = "open", !.pdu = size]]
  BY DEF RecvNegotiated, vars
<1>2. c \notin Foreign /\ PeerInv(c) /\ SideInv(c) /\ HsTypeOK
  BY <1>1 DEF HsInv, ConnOK
<1>3. peer[c] \in [at : {"none", "cc", "neg", "open"}, asked : Nat, pdu : Nat] /\ n \in Nat
  BY <1>2, CappedSize DEF HsTypeOK
<1>4. down[c] = <<AgreeTo(n)>> /\ (Gone(c) \/ (task[c] = "dispatch" /\ side[c].pdu = n))
  BY <1>1, <1>2 DEF PeerInv
<1>5. Tail(down[c]) = <<>> /\ (size = 0 \/ size = n)
  BY <1>3, <1>4, OnePdu, AgreeDecoded
<1> HIDE DEF size, n
<1>6. down' = [x \in Client |-> down'[x]] /\ down'[c] = <<>> /\ \A d \in Client \ {c} : down'[d] = down[d]
  BY <1>1, <1>2, <1>5, UpdateOne DEF HsTypeOK
<1>7. /\ peer' \in [Client -> [at : {"none", "cc", "neg", "open"}, asked : Nat, pdu : Nat]]
      /\ \/ peer'[c].at = "none"
         \/ peer'[c].at = "open" /\ peer'[c].pdu = n /\ peer'[c].asked = peer[c].asked
      /\ \A d \in Client \ {c} : peer'[d] = peer[d]
  <2>1. CASE size = 0
    BY <1>1, <1>2, <2>1 DEF HsTypeOK, NoPeer
  <2>2. CASE size # 0 /\ size = n
    BY <1>1, <1>2, <1>3, <2>2 DEF HsTypeOK
  <2> QED
    BY <1>5, <2>1, <2>2
<1>8. PeerInv(c)'
  BY <1>1, <1>4, <1>6, <1>7 DEF PeerInv, Gone, n
<1>9. SideInv(c)'
  BY <1>1, <1>2 DEF SideInv
<1>10. HsTypeOK'
  BY <1>1, <1>2, <1>6, <1>7 DEF HsTypeOK
<1> QED
  BY <1>1, <1>2, <1>6, <1>7, <1>8, <1>9, <1>10, OneConn DEF SameOn, ConnOK

\* The client gives up, or the server has.
LEMMA CloseStep ==
  ASSUME TypeOK, HsInv, NEW c \in Client, RecvEof(c) \/ Close(c)
  PROVE  HsInv'
<1>1. HsTypeOK /\ SideInv(c)
  BY DEF HsInv, ConnOK
<1>2. UNCHANGED <<task, side, up>> /\ peer' = [peer EXCEPT ![c] = NoPeer]
  BY DEF RecvEof, Close, vars
<1>3. down' = [x \in Client |-> down'[x]] /\ down'[c] = <<>> /\ \A d \in Client \ {c} : down'[d] = down[d]
  <2>1. CASE RecvEof(c)
    BY <1>1, <2>1 DEF RecvEof, HsTypeOK
  <2>2. CASE Close(c)
    <3>1. down' = [down EXCEPT ![c] = <<>>]
      BY <2>2 DEF Close
    <3> QED
      BY <1>1, <3>1, UpdateOne DEF HsTypeOK
  <2> QED
    BY <2>1, <2>2
<1>4. /\ peer' \in [Client -> [at : {"none", "cc", "neg", "open"}, asked : Nat, pdu : Nat]]
      /\ peer'[c].at = "none" /\ \A d \in Client \ {c} : peer'[d] = peer[d]
  BY <1>1, <1>2 DEF HsTypeOK, NoPeer
<1>5. ConnOK(c)'
  BY <1>1, <1>2, <1>3, <1>4 DEF ConnOK, SideInv, PeerInv
<1>6. HsTypeOK'
  BY <1>1, <1>2, <1>3, <1>4 DEF HsTypeOK
<1> QED
  BY <1>2, <1>3, <1>4, <1>5, <1>6, OneConn DEF SameOn

\* Peers of another kind.
LEMMA ForeignStep ==
  ASSUME TypeOK, HsInv, NEW c \in Client, ForeignConnects(c) \/ ForeignSends(c)
  PROVE  HsInv'
<1>1. c \in Foreign /\ HsTypeOK /\ SideInv(c) /\ UNCHANGED <<side, down>>
  BY DEF HsInv, ConnOK, ForeignConnects, ForeignSends
<1>2. CASE ForeignConnects(c)
  <2>1. /\ task[c] = "none" /\ task' = [task EXCEPT ![c] = "queued"]
        /\ peer' = [peer EXCEPT ![c].at = "open"] /\ up' = up
    BY <1>2 DEF ForeignConnects, Connect
  <2>2. task'[c] = "queued" /\ \A d \in Client \ {c} : task'[d] = task[d]
    BY <2>1 DEF TypeOK
  <2>3. /\ peer' \in [Client -> [at : {"none", "cc", "neg", "open"}, asked : Nat, pdu : Nat]]
        /\ peer'[c].at = "open" /\ \A d \in Client \ {c} : peer'[d] = peer[d]
    BY <1>1, <2>1 DEF HsTypeOK
  <2>4. ConnOK(c)'
    BY <1>1, <2>1, <2>2, <2>3 DEF ConnOK, SideInv
  <2>5. HsTypeOK'
    BY <1>1, <2>1, <2>3 DEF HsTypeOK
  <2> QED
    BY <1>1, <2>1, <2>2, <2>3, <2>4, <2>5, OneConn DEF SameOn
<1>3. CASE ForeignSends(c)
  <2>1. PICK m \in Messages : up' = [up EXCEPT ![c] = <<m>>]
    BY <1>3 DEF ForeignSends
  <2>2. UNCHANGED <<task, peer>> /\ peer[c].at = "open"
    BY <1>3 DEF ForeignSends, vars
  <2>3. up' = [x \in Client |-> up'[x]] /\ \A d \in Client \ {c} : up'[d] = up[d]
    BY <1>1, <2>1, UpdateOne DEF HsTypeOK
  <2>4. ConnOK(c)'
    BY <1>1, <2>2 DEF ConnOK, SideInv
  <2>5. HsTypeOK'
    BY <1>1, <2>2, <2>3 DEF HsTypeOK
  <2> QED
    BY <1>1, <2>2, <2>3, <2>4, <2>5, OneConn DEF SameOn
<1> QED
  BY <1>2, <1>3

\* serve_one returns, at any point.
LEMMA HangUpStep ==
  ASSUME TypeOK, HsInv, NEW c \in Client, HangUp(c), UNCHANGED <<peer, down>>
  PROVE  HsInv'
<1>1. HsTypeOK /\ ConnOK(c)
  BY DEF HsInv
<1>2. /\ task[c] \in {"handshake", "dispatch"} /\ task' = [task EXCEPT ![c] = "ended"]
      /\ side' = [side EXCEPT ![c] = NoSide] /\ up' = [up EXCEPT ![c] = <<>>]
  BY DEF HangUp, ServeOneEnds
<1>3. task'[c] = "ended" /\ \A d \in Client \ {c} : task'[d] = task[d]
  BY <1>2 DEF TypeOK
<1>4. side' = [x \in Client |-> side'[x]] /\ side'[c] = NoSide /\ \A d \in Client \ {c} : side'[d] = side[d]
  BY <1>1, <1>2, UpdateOne DEF HsTypeOK
<1>5. up' = [x \in Client |-> up'[x]] /\ \A d \in Client \ {c} : up'[d] = up[d]
  BY <1>1, <1>2, UpdateOne DEF HsTypeOK
<1>6. SideInv(c)'
  BY <1>3, <1>4 DEF SideInv
<1>7. c \notin Foreign => PeerInv(c)'
  BY <1>1, <1>3 DEF ConnOK, PeerInv, Gone
<1>8. ConnOK(c)'
  BY <1>1, <1>6, <1>7 DEF ConnOK
<1>9. HsTypeOK'
  BY <1>1, <1>4, <1>5 DEF HsTypeOK
<1> QED
  BY <1>3, <1>4, <1>5, <1>8, <1>9, OneConn DEF SameOn

\* What the server writes reaches a client of the other side's kind only.
LEMMA WrittenEffect ==
  ASSUME HsTypeOK, NEW c \in Client, NEW pdu, Written(c, pdu)
  PROVE  /\ down' = [x \in Client |-> down'[x]]
         /\ \A d \in Client \ {c} : down'[d] = down[d]
         /\ c \notin Foreign => IF peer[c].at = "none" THEN down'[c] = down[c]
                                ELSE down'[c] = Append(down[c], pdu)
<1>1. CASE peer[c].at = "none" \/ c \in Foreign
  BY <1>1 DEF Written, HsTypeOK
<1>2. CASE ~(peer[c].at = "none" \/ c \in Foreign)
  <2>1. down' = [down EXCEPT ![c] = Append(down[c], pdu)]
    BY <1>2 DEF Written
  <2> QED
    BY <1>2, <2>1, UpdateOne DEF HsTypeOK
<1> QED
  BY <1>1, <1>2

\* The server confirms a connect request and hangs up on anything else.
LEMMA GetCRStep ==
  ASSUME TypeOK, HsInv, NEW c \in Client, GetCR(c)
  PROVE  HsInv'
<1> DEFINE h == Head(up[c])
           cc == [code |-> CC, dst |-> h.src, src |-> 1]
<1>1. HsTypeOK /\ ConnOK(c) /\ task[c] = "handshake" /\ side[c].at = "cr" /\ peer' = peer
  BY DEF HsInv, GetCR
<1>2. CASE h.code # CR
  <2>1. HangUp(c) /\ UNCHANGED <<peer, down>>
    BY <1>2 DEF GetCR
  <2> QED
    BY <2>1, HangUpStep
<1>3. CASE h.code = CR
  <2>1. /\ up' = [up EXCEPT ![c] = Tail(up[c])] /\ Written(c, cc)
        /\ side' = [side EXCEPT ![c].at = "neg"] /\ task' = task
    BY <1>3 DEF GetCR, vars
  <2>2. side[c] = NoSide
    BY <1>1 DEF ConnOK, SideInv
  <2>3. /\ side' = [x \in Client |-> side'[x]] /\ side'[c] = [at |-> "neg", pdu |-> 0]
        /\ \A d \in Client \ {c} : side'[d] = side[d]
    <3>1. side' = [side EXCEPT ![c] = [NoSide EXCEPT !.at = "neg"]]
      BY <2>1, <2>2
    <3>2. [NoSide EXCEPT !.at = "neg"] = [at |-> "neg", pdu |-> 0]
      BY DEF NoSide
    <3> QED
      BY <1>1, <3>1, <3>2, UpdateOne DEF HsTypeOK
  <2>4. /\ up' = [x \in Client |-> up'[x]] /\ up'[c] = Tail(up[c])
        /\ \A d \in Client \ {c} : up'[d] = up[d]
    BY <1>1, <2>1, UpdateOne DEF HsTypeOK
  <2>5. /\ down' = [x \in Client |-> down'[x]] /\ \A d \in Client \ {c} : down'[d] = down[d]
        /\ c \notin Foreign => IF peer[c].at = "none" THEN down'[c] = down[c]
                               ELSE down'[c] = Append(down[c], cc)
    <3> HIDE DEF cc
    <3> QED
      BY <1>1, <2>1, WrittenEffect
  <2>6. ASSUME c \notin Foreign PROVE PeerInv(c)'
    <3>1. PeerInv(c)
      BY <1>1, <2>6 DEF ConnOK
    <3>2. CASE peer[c].at = "none"
      BY <1>1, <2>5, <2>6, <3>1, <3>2 DEF PeerInv
    <3>3. CASE peer[c].at # "none"
      <4>1. peer[c].at = "cc" /\ up[c] = <<ConnectRequest>> /\ down[c] = <<>>
        BY <1>1, <3>1, <3>3 DEF PeerInv, Gone
      <4>2. h = ConnectRequest /\ Tail(up[c]) = <<>> /\ cc = ConnectConfirm
        BY <4>1, OnePdu DEF ConnectRequest, ConnectConfirm
      <4>3. down'[c] = <<ConnectConfirm>> /\ up'[c] = <<>>
        BY <2>4, <2>5, <2>6, <3>3, <4>1, <4>2, OnePdu
      <4> QED
        BY <1>1, <2>1, <2>3, <4>1, <4>3 DEF PeerInv
    <3> QED
      BY <3>2, <3>3
  <2>7. ConnOK(c)'
    BY <1>1, <2>1, <2>3, <2>6 DEF ConnOK, SideInv
  <2>8. HsTypeOK'
    BY <1>1, <2>3, <2>4, <2>5 DEF HsTypeOK
  <2> QED
    BY <1>1, <2>1, <2>3, <2>4, <2>5, <2>7, <2>8, OneConn DEF SameOn
<1> QED
  BY <1>2, <1>3

\* The server names the size it is going to use, and uses it.
LEMMA GetNegotiateStep ==
  ASSUME TypeOK, HsInv, NEW c \in Client, GetNegotiate(c)
  PROVE  HsInv'
<1> DEFINE n == Asked(Head(up[c]))
           answer == Data(EncodeHeader([type |-> AckData, ref |-> 1, plen |-> 8, dlen |-> 0,
                                        error |-> <<0, 0>>])
                            \o EncodeNegotiate([n EXCEPT !.pdu = Capped(n.pdu)]))
<1>1. /\ HsTypeOK /\ ConnOK(c) /\ task[c] = "handshake" /\ side[c].at = "neg" /\ up[c] # <<>>
      /\ peer' = peer
  BY DEF HsInv, GetNegotiate
<1>2. CASE n = ProtoError
  <2>1. HangUp(c) /\ UNCHANGED <<peer, down>>
    BY <1>2 DEF GetNegotiate
  <2> QED
    BY <2>1, HangUpStep
<1>3. CASE n # ProtoError
  <2> DEFINE done == [at |-> "done", pdu |-> Capped(n.pdu)]
  <2>1. /\ up' = [up EXCEPT ![c] = Tail(up[c])] /\ Written(c, answer)
        /\ side' = [side EXCEPT ![c] = done] /\ task' = [task EXCEPT ![c] = "dispatch"]
    BY <1>3 DEF GetNegotiate, HandshakeDone
  <2>2. done.at = "done" /\ done.pdu = Capped(n.pdu)
    OBVIOUS
  <2> HIDE DEF done
  <2>3. /\ side' = [x \in Client |-> side'[x]] /\ side'[c] = done
        /\ \A d \in Client \ {c} : side'[d] = side[d]
    BY <1>1, <2>1, UpdateOne DEF HsTypeOK
  <2>4. /\ up' = [x \in Client |-> up'[x]] /\ \A d \in Client \ {c} : up'[d] = up[d]
    BY <1>1, <2>1, UpdateOne DEF HsTypeOK
  <2>5. /\ down' = [x \in Client |-> down'[x]] /\ \A d \in Client \ {c} : down'[d] = down[d]
        /\ c \notin Foreign => IF peer[c].at = "none" THEN down'[c] = down[c]
                               ELSE down'[c] = Append(down[c], answer)
    <3> HIDE DEF answer
    <3> QED
      BY <1>1, <2>1, WrittenEffect
  <2>6. task'[c] = "dispatch" /\ \A d \in Client \ {c} : task'[d] = task[d]
    BY <2>1 DEF TypeOK
  <2>7. ASSUME c \notin Foreign PROVE PeerInv(c)'
    <3>1. PeerInv(c)
      BY <1>1, <2>7 DEF ConnOK
    <3>2. CASE peer[c].at = "none"
      BY <1>1, <2>5, <2>7, <3>1, <3>2 DEF PeerInv
    <3>3. CASE peer[c].at # "none"
      <4> DEFINE a == peer[c].asked
      <4>1. peer[c].at = "neg" /\ up[c] = <<AskFor(a)>> /\ down[c] = <<>> /\ a \in Nat
        BY <1>1, <3>1, <3>3 DEF PeerInv, Gone, HsTypeOK
      <4>2. n = Asked(AskFor(a))
        BY <4>1, OnePdu
      <4>3. n = [calling |-> 1, called |-> 1, pdu |-> a]
        BY <1>3, <4>1, <4>2, AskDecoded
      <4>4. n.pdu = a /\ [n EXCEPT !.pdu = Capped(n.pdu)] = [calling |-> 1, called |-> 1, pdu |-> Capped(a)]
        BY <4>3
      <4>5. answer = AgreeTo(Capped(a))
        BY <4>4 DEF AgreeTo
      <4>6. down'[c] = <<AgreeTo(Capped(a))>>
        BY <2>5, <2>7, <3>3, <4>1, <4>5, OnePdu
      <4> QED
        BY <1>1, <2>2, <2>3, <2>6, <4>1, <4>4, <4>6 DEF PeerInv
    <3> QED
      BY <3>2, <3>3
  <2>8. ConnOK(c)'
    BY <1>1, <2>2, <2>3, <2>6, <2>7 DEF ConnOK, SideInv
  <2>9. HsTypeOK'
    BY <1>1, <2>3, <2>4, <2>5 DEF HsTypeOK
  <2> QED
    BY <1>1, <2>3, <2>4, <2>5, <2>6, <2>8, <2>9, OneConn DEF SameOn
<1> QED
  BY <1>2, <1>3

\* The task of a connection before and after serve_one.
LEMMA TaskMoves ==
  ASSUME TypeOK, HsInv, NEW c \in Client, NEW s \in Stages, task' = [task EXCEPT ![c] = s],
         UNCHANGED hsVars,
         \/ task[c] = "queued" /\ s = "spawned"
         \/ task[c] = "spawned" /\ s = "handshake"
         \/ task[c] = "ended" /\ s = "leaving"
         \/ task[c] = "leaving" /\ s = "none"
  PROVE  HsInv'
<1>1. UNCHANGED <<peer, side, up, down>> /\ HsTypeOK /\ ConnOK(c)
  BY DEF hsVars, HsInv
<1>2. task'[c] = s /\ \A d \in Client \ {c} : task'[d] = task[d]
  BY DEF TypeOK
<1>3. SideInv(c)'
  BY <1>1, <1>2 DEF ConnOK, SideInv, NoSide
<1>4. c \notin Foreign => PeerInv(c)'
  BY <1>1, <1>2 DEF ConnOK, PeerInv, Gone, SideInv
<1>5. HsTypeOK'
  BY <1>1 DEF HsTypeOK
<1> QED
  BY <1>1, <1>2, <1>3, <1>4, <1>5, OneConn DEF SameOn, ConnOK

\* A failed accept resets the connections that wait in the listener's queue.
LEMMA ResetStep ==
  ASSUME TypeOK, HsInv, AcceptError, UNCHANGED hsVars
  PROVE  HsInv'
<1>1. UNCHANGED <<peer, side, up, down>> /\ HsTypeOK
  BY DEF hsVars, HsInv
<1>2. ASSUME NEW c \in Client PROVE ConnOK(c)'
  <2>1. ConnOK(c) /\ task'[c] = IF task[c] = "queued" THEN "none" ELSE task[c]
    BY DEF HsInv, AcceptError
  <2>2. SideInv(c)'
    BY <1>1, <2>1 DEF ConnOK, SideInv
  <2>3. c \notin Foreign => PeerInv(c)'
    BY <1>1, <2>1 DEF ConnOK, PeerInv, Gone
  <2> QED
    BY <1>1, <2>1, <2>2, <2>3 DEF ConnOK
<1>3. HsTypeOK'
  BY <1>1 DEF HsTypeOK
<1> QED
  BY <1>2, <1>3 DEF HsInv

\* Nothing of the connections changes.
LEMMA HsUnchanged ==
  ASSUME HsInv, UNCHANGED <<task, hsVars>>
  PROVE  HsInv'
<1>1. UNCHANGED <<task, peer, side, up, down>> /\ HsTypeOK
  BY DEF hsVars, HsInv
<1>2. ASSUME NEW c \in Client PROVE ConnOK(c)'
  <2>1. ConnOK(c)
    BY DEF HsInv
  <2>2. SideInv(c)' /\ (c \notin Foreign => PeerInv(c)')
    BY <1>1, <2>1 DEF ConnOK, SideInv, PeerInv, Gone
  <2> QED
    BY <1>1, <2>1, <2>2 DEF ConnOK
<1>3. HsTypeOK'
  BY <1>1 DEF HsTypeOK
<1> QED
  BY <1>2, <1>3 DEF HsInv

-----------------------------------------------------------------------------
(* The handshake: the theorems                                             *)

\* Nobody has connected yet.
LEMMA HandshakeInitial == HandshakeInit => HsInv
BY DEF HandshakeInit, Init, HsInv, HsTypeOK, ConnOK, SideInv, PeerInv, NoPeer, NoSide

\* Every step of the handshake is one of the accept loop, of the task of a
\* connection or of a peer that connects, or touches none of their state.
LEMMA HandshakeStepIsServerStep == HandshakeNext => [Next]_vars
<1> SUFFICES ASSUME HandshakeNext PROVE [Next]_vars
  OBVIOUS
<1>1. CASE Serve \/ (AcceptError /\ UNCHANGED hsVars)
  BY <1>1 DEF Serve, Next
<1>2. ASSUME NEW c \in Client,
             \/ SendCR(c) \/ PeerStep(c) \/ Close(c) \/ ForeignConnects(c) \/ ForeignSends(c)
             \/ ServerStep(c) \/ ServeBreaks(c)
      PROVE  [Next]_vars
  <2>1. CASE SendCR(c) \/ ForeignConnects(c)
    BY <2>1 DEF SendCR, ForeignConnects, Next
  <2>2. CASE PeerStep(c) \/ Close(c) \/ ForeignSends(c)
    BY <2>2 DEF PeerStep, RecvCC, RecvNegotiated, RecvEof, Close, ForeignSends
  <2>3. CASE GetCR(c)
    BY <2>3 DEF GetCR, HangUp, Next, TaskStep
  <2>4. CASE GetNegotiate(c)
    BY <2>4 DEF GetNegotiate, HangUp, Next, TaskStep
  <2>5. CASE ServeEof(c) \/ ServeBreaks(c)
    BY <2>5 DEF ServeEof, ServeBreaks, HangUp, Next, TaskStep
  <2>6. CASE (ClientConnected(c) \/ ClientDisconnected(c) \/ TaskEnds(c)) /\ UNCHANGED hsVars
    BY <2>6 DEF Next, TaskStep
  <2> QED
    BY <1>2, <2>1, <2>2, <2>3, <2>4, <2>5, <2>6 DEF ServerStep
<1> QED
  BY <1>1, <1>2 DEF HandshakeNext

\* Every step keeps what the handshake relies on.
LEMMA HandshakeStep ==
  ASSUME IInv, HsInv, [HandshakeNext]_allVars
  PROVE  HsInv'
<1>1. TypeOK
  BY DEF IInv
<1>2. CASE Serve
  <2>1. CASE AcquirePermit /\ UNCHANGED hsVars
    BY <2>1, HsUnchanged DEF AcquirePermit
  <2>2. CASE Accept /\ UNCHANGED hsVars
    <3> DEFINE c == Head(backlog)
    <3>1. c \in Client /\ c = backlog[1] /\ 1 \in 1..Len(backlog)
      BY <1>1, <2>2 DEF TypeOK, Accept
    <3>2. task[c] = "queued"
      BY <3>1 DEF IInv, BacklogInv
    <3>3. task' = [task EXCEPT ![c] = "spawned"] /\ "spawned" \in Stages
      BY <2>2 DEF Accept, Stages
    <3> HIDE DEF c
    <3> QED
      BY <1>1, <2>2, <3>1, <3>2, <3>3, TaskMoves
  <2> QED
    BY <1>2, <2>1, <2>2 DEF Serve
<1>3. CASE AcceptError /\ UNCHANGED hsVars
  BY <1>1, <1>3, ResetStep
<1>4. ASSUME NEW c \in Client,
             \/ SendCR(c) \/ PeerStep(c) \/ Close(c) \/ ForeignConnects(c) \/ ForeignSends(c)
             \/ ServerStep(c) \/ ServeBreaks(c)
      PROVE  HsInv'
  <2>1. CASE SendCR(c)
    BY <1>1, <2>1, SendCRStep
  <2>2. CASE RecvCC(c)
    BY <1>1, <2>2, RecvCCStep
  <2>3. CASE RecvNegotiated(c)
    BY <1>1, <2>3, RecvNegotiatedStep
  <2>4. CASE RecvEof(c) \/ Close(c)
    BY <1>1, <2>4, CloseStep
  <2>5. CASE ForeignConnects(c) \/ ForeignSends(c)
    BY <1>1, <2>5, ForeignStep
  <2>6. CASE GetCR(c)
    BY <1>1, <2>6, GetCRStep
  <2>7. CASE GetNegotiate(c)
    BY <1>1, <2>7, GetNegotiateStep
  <2>8. CASE ServeEof(c) \/ ServeBreaks(c)
    BY <1>1, <2>8, HangUpStep DEF ServeEof, ServeBreaks
  <2>9. CASE (ClientConnected(c) \/ ClientDisconnected(c) \/ TaskEnds(c)) /\ UNCHANGED hsVars
    <3>1. PICK s \in Stages :
            /\ task' = [task EXCEPT ![c] = s]
            /\ \/ task[c] = "spawned" /\ s = "handshake"
               \/ task[c] = "ended" /\ s = "leaving"
               \/ task[c] = "leaving" /\ s = "none"
      BY <2>9 DEF ClientConnected, ClientDisconnected, TaskEnds, Stages
    <3> QED
      BY <1>1, <2>9, <3>1, TaskMoves
  <2> QED
    BY <1>4, <2>1, <2>2, <2>3, <2>4, <2>5, <2>6, <2>7, <2>8, <2>9 DEF PeerStep, ServerStep
<1>5. CASE UNCHANGED allVars
  BY <1>5, HsUnchanged DEF allVars, vars
<1> QED
  BY <1>2, <1>3, <1>4, <1>5 DEF HandshakeNext

\* The invariant of the server and of the handshake, together.
LEMMA HandshakeInvariant == HandshakeSpec => [](IInv /\ HsInv)
<1>1. HandshakeInit => IInv /\ HsInv
  BY ServerInit, HandshakeInitial DEF HandshakeInit
<1>2. IInv /\ HsInv /\ [HandshakeNext]_allVars => IInv' /\ HsInv'
  <2> SUFFICES ASSUME IInv, HsInv, [HandshakeNext]_allVars PROVE IInv' /\ HsInv'
    OBVIOUS
  <2>1. [Next]_vars
    BY HandshakeStepIsServerStep DEF allVars
  <2> QED
    BY <2>1, ServerNext, HandshakeStep
<1> QED
  BY <1>1, <1>2, PTL DEF HandshakeSpec

\* The server with the handshake spelled out does what the accept loop and its
\* tasks do: reading and writing PDUs adds no behaviour to them.
THEOREM HandshakeImplementsServer == HandshakeSpec => Spec
<1>1. HandshakeInit => Init
  BY DEF HandshakeInit
<1>2. [HandshakeNext]_allVars => [Next]_vars
  BY HandshakeStepIsServerStep DEF allVars
<1> QED
  BY <1>1, <1>2, PTL DEF HandshakeSpec, Spec

\* Whatever peers send, permits are neither lost nor made up, and the count
\* that get_status reports is exact.
THEOREM HandshakeKeepsCount == HandshakeSpec => [](PermitsAddUp /\ ClientCountExact)
BY HandshakeImplementsServer, ServerPermitsAddUp, ServerCountExact, PTL

\* When connect returns Ok, client and server use the same PDU size, which
\* neither exceeds: for any number of clients and peers, any messages of the
\* others, and whatever closes or breaks in between.
THEOREM HandshakePduSize == HandshakeSpec => []PduSizeAgreed
<1>1. HsInv => PduSizeAgreed
  <2> SUFFICES ASSUME HsInv, NEW c \in Client
               PROVE  /\ peer[c].at = "open" /\ c \notin Foreign =>
                           /\ task[c] = "dispatch" => peer[c].pdu = side[c].pdu
                           /\ peer[c].pdu <= peer[c].asked /\ peer[c].pdu <= MaxPduSize
                      /\ task[c] = "dispatch" => side[c].at = "done"
    BY DEF PduSizeAgreed
  <2>1. ConnOK(c) /\ peer[c].asked \in Nat
    BY DEF HsInv, HsTypeOK
  <2>2. task[c] = "dispatch" => side[c].at = "done"
    BY <2>1 DEF ConnOK, SideInv
  <2>3. ASSUME peer[c].at = "open", c \notin Foreign
        PROVE  /\ task[c] = "dispatch" => peer[c].pdu = side[c].pdu
               /\ peer[c].pdu = Capped(peer[c].asked)
    BY <2>1, <2>3 DEF ConnOK, PeerInv, Gone
  <2> QED
    BY <2>1, <2>2, <2>3, CappedSize
<1> QED
  BY <1>1, HandshakeInvariant, PTL

-----------------------------------------------------------------------------
(* Envelopes                                                               *)

\* w consists of a, a few fields, and b, what follows them.
Joined(w, a, b) ==
  /\ w \in Seq(Nat) /\ Len(w) = Len(a) + Len(b) /\ Len(a) \in Nat /\ Len(b) \in Nat
  /\ \A i \in 1..Len(a) : w[i] = a[i]
  /\ \A i \in 1..Len(b) : w[Len(a) + i] = b[i]
  /\ SubSeq(w, Len(a) + 1, Len(a) + Len(b)) = b
  /\ SubSeq(w, 1, Len(a)) = a

\* So it is with \o.
LEMMA BehindFields ==
  ASSUME NEW a \in Seq(Nat), NEW b \in Seq(Nat)
  PROVE  Joined(a \o b, a, b)
<1>1. /\ a \o b \in Seq(Nat) /\ Len(a \o b) = Len(a) + Len(b) /\ Len(a) \in Nat /\ Len(b) \in Nat
      /\ \A i \in 1..Len(a) : (a \o b)[i] = a[i]
      /\ \A i \in 1..Len(b) : (a \o b)[Len(a) + i] = b[i]
  OBVIOUS
<1>2. PICK w, m, n : w = a \o b /\ m = Len(a) /\ n = Len(b)
  BY Zenon
<1>3. SubSeq(w, m + 1, m + n) = b
  <2>1. /\ w \in Seq(Nat) /\ Len(w) = m + n /\ m \in Nat /\ n \in Nat /\ b \in Seq(Nat) /\ Len(b) = n
        /\ \A i \in 1..n : w[m + i] = b[i]
    BY <1>1, <1>2
  <2>2. SubSeq(w, m + 1, m + n) = [i \in 1..n |-> w[m + i]]
    BY ONLY <2>1
  <2>3. b = [i \in 1..n |-> b[i]]
    BY ONLY <2>1
  <2> QED
    BY Zenon, <2>1, <2>2, <2>3
<1>4. SubSeq(w, 1, m) = a
  <2>1. /\ w \in Seq(Nat) /\ Len(w) = m + n /\ m \in Nat /\ n \in Nat /\ a \in Seq(Nat) /\ Len(a) = m
        /\ \A i \in 1..m : w[i] = a[i]
    BY <1>1, <1>2
  <2>2. SubSeq(w, 1, m) = [i \in 1..m |-> w[i]]
    BY ONLY <2>1
  <2>3. a = [i \in 1..m |-> a[i]]
    BY ONLY <2>1
  <2> QED
    BY Zenon, <2>1, <2>2, <2>3
<1> QED
  BY Zenon, <1>1, <1>2, <1>3, <1>4 DEF Joined

\* A frame is found at the head of what was received, and what follows is kept; a frame
\* of which a part is missing is an error.
LEMMA FramesRoundTrip ==
  ASSUME NEW p \in Seq(Nat), NEW rest \in Seq(Nat), MaxFrame \in Nat, 3 + Len(p) <= MaxFrame
  PROVE  /\ EncodeTpkt(p) \in Seq(Nat) /\ Len(EncodeTpkt(p)) = Len(p) + 3
         /\ DecodeTpkt(EncodeTpkt(p) \o rest) = [payload |-> p, rest |-> rest]
         /\ \A n \in 0..(Len(p) + 2) : DecodeTpkt(SubSeq(EncodeTpkt(p) \o rest, 1, n)) = ProtoError
<1>1. PICK h, k : h = <<3, 0, 3 + Len(p)>> /\ k = Len(p)
  BY Zenon
<1>2. k \in Nat /\ h \in Seq(Nat) /\ Len(h) = 3 /\ h[1] = 3 /\ h[3] = 3 + k
  BY <1>1
<1>3. PICK f : f = h \o p
  BY Zenon
<1>4. EncodeTpkt(p) = f
  <2>1. ~(3 + Len(p) > MaxFrame)
    BY <1>1, <1>2
  <2> QED
    BY Zenon, <1>1, <1>3, <2>1 DEF EncodeTpkt
<1>5. /\ f \in Seq(Nat) /\ Len(f) = Len(h) + Len(p) /\ \A i \in 1..Len(h) : f[i] = h[i]
      /\ \A i \in 1..Len(p) : f[Len(h) + i] = p[i]
  <2>1. Joined(f, h, p)
    BY Zenon, <1>2, <1>3, BehindFields
  <2> QED
    BY Zenon, <2>1 DEF Joined
<1>6. f \in Seq(Nat) /\ Len(f) = 3 + k /\ f[1] = 3 /\ f[3] = 3 + k /\ \A i \in 1..k : f[3 + i] = p[i]
  BY ONLY <1>1, <1>2, <1>5
<1>7. PICK b, r : b = f \o rest /\ r = Len(rest)
  BY Zenon
<1>8. /\ b \in Seq(Nat) /\ Len(b) = Len(f) + Len(rest) /\ Len(rest) \in Nat /\ \A i \in 1..Len(f) : b[i] = f[i]
      /\ SubSeq(b, Len(f) + 1, Len(f) + Len(rest)) = rest
  <2>1. Joined(b, f, rest)
    BY Zenon, <1>6, <1>7, BehindFields
  <2> QED
    BY Zenon, <2>1 DEF Joined
<1>9. /\ b \in Seq(Nat) /\ Len(b) = 3 + k + r /\ r \in Nat /\ b[1] = 3 /\ b[3] = 3 + k
      /\ \A i \in 1..k : b[3 + i] = p[i]
  BY ONLY <1>2, <1>6, <1>7, <1>8
<1>10. SubSeq(b, 3 + k + 1, 3 + k + r) = rest
  BY Zenon, <1>6, <1>7, <1>8
<1>11. SubSeq(b, 4, 3 + k) = p
  <2>1. SubSeq(b, 4, 3 + k) = [i \in 1..k |-> b[3 + i]]
    BY ONLY <1>2, <1>9
  <2>2. p = [i \in 1..k |-> p[i]]
    BY <1>1
  <2> QED
    BY Zenon, <1>9, <2>1, <2>2
<1>12. DecodeTpkt(b) = [payload |-> p, rest |-> rest]
  <2>1. ~(Len(b) < 3 \/ b[1] # 3 \/ b[3] < 3 \/ Len(b) < b[3])
    BY ONLY <1>2, <1>9
  <2> QED
    BY Zenon, <1>9, <1>10, <1>11, <2>1 DEF DecodeTpkt
<1>13. ASSUME NEW n \in 0..(Len(p) + 2) PROVE DecodeTpkt(SubSeq(b, 1, n)) = ProtoError
  <2>1. PICK s : s = SubSeq(b, 1, n)
    BY Zenon
  <2>2. n \in Nat /\ n < 3 + k
    BY <1>1, <1>2
  <2>3. Len(s) = n /\ (3 <= n => s[3] = 3 + k)
    BY ONLY <1>2, <1>9, <2>1, <2>2
  <2>4. Len(s) < 3 \/ Len(s) < s[3]
    BY ONLY <1>2, <2>2, <2>3
  <2> QED
    BY Zenon, <2>1, <2>4 DEF DecodeTpkt
<1>14. EncodeTpkt(p) \in Seq(Nat) /\ Len(EncodeTpkt(p)) = Len(p) + 3
  BY <1>1, <1>2, <1>4, <1>6
<1> QED
  BY Zenon, <1>4, <1>7, <1>12, <1>13, <1>14

\* The destination TSAP is found among the parameters of a connect request.
LEMMA TsapFound ==
  ASSUME NEW rack, NEW slot, Tsap(rack, slot) \in Nat
  PROVE  TsapIn(CrParams(rack, slot)) = Tsap(rack, slot)
<1>1. PICK T : T = Tsap(rack, slot)
  OBVIOUS
<1>2. PICK p : p = <<193, 2, 1, 0, 194, 2, 1, T, 192, 1, 10>>
  BY Zenon
<1>3. /\ p[1] = 193 /\ p[2] = 2 /\ p[3] = 1 /\ p[4] = 0 /\ p[5] = 194 /\ p[6] = 2 /\ p[7] = 1 /\ p[8] = T
      /\ p[9] = 192 /\ p[10] = 1 /\ p[11] = 10 /\ T \in Nat
  BY <1>1, <1>2
<1>0. Len(p) + 1 = 12
  BY <1>2
<1> DEFINE Step(w, i) == IF 12 - i < 3 \/ 12 - (i + 2) < p[i + 1] THEN NoTsap
                         ELSE IF p[i] = 194 /\ p[i + 1] >= 2 /\ w[i + 2 + p[i + 1]] = NoTsap THEN p[i + 3]
                         ELSE w[i + 2 + p[i + 1]]
           W == CHOOSE w : w = [i \in 1..12 |-> Step(w, i)]
           g == [i \in 1..12 |-> IF i \in {1, 2, 3, 5} THEN T ELSE NoTsap]
<1>4. LastTsap(p) = W[1]
  BY Zenon, <1>0 DEF LastTsap
<1> DEFINE Skip(i, j) == /\ i \in 1..9 /\ p[i + 1] \in Nat /\ j = i + 2 + p[i + 1] /\ j <= 12
                         /\ p[i] # 194 \/ p[i + 1] < 2
           Stop(i) == i \in 1..12 /\ (12 - i < 3 \/ 12 - (i + 2) < p[i + 1])
<1>5. ASSUME NEW w, NEW i, NEW j, Skip(i, j) PROVE Step(w, i) = w[j]
  <2>1. PICK l \in Nat : p[i + 1] = l
    BY <1>5
  <2>2. ~(12 - i < 3 \/ 12 - (i + 2) < l) /\ ~(p[i] = 194 /\ l >= 2)
    BY <1>5, <2>1
  <2> QED
    BY Zenon, <1>5, <2>1, <2>2
<1>6. ASSUME NEW w, NEW i, Stop(i) PROVE Step(w, i) = NoTsap
  BY Zenon, <1>6
<1>7. ASSUME NEW w PROVE Step(w, 5) = IF w[9] = NoTsap THEN T ELSE w[9]
  <2>1. ~(12 - 5 < 3) /\ ~(12 - (5 + 2) < p[5 + 1]) /\ p[5 + 1] >= 2 /\ 5 + 2 + p[5 + 1] = 9 /\ p[5 + 3] = T
    BY ONLY <1>3
  <2> QED
    BY Zenon, <1>3, <2>1
<1>8. ASSUME NEW w
      PROVE  /\ Step(w, 1) = w[5] /\ Step(w, 2) = w[5] /\ Step(w, 3) = w[5] /\ Step(w, 4) = NoTsap
             /\ Step(w, 6) = w[9] /\ Step(w, 8) = NoTsap /\ Step(w, 9) = w[12]
             /\ Step(w, 10) = NoTsap /\ Step(w, 11) = NoTsap /\ Step(w, 12) = NoTsap
             /\ Step(w, 7) = IF T > 3 THEN NoTsap ELSE w[9 + T]
  <2>1. Skip(1, 5) /\ Skip(2, 5) /\ Skip(3, 5) /\ Skip(6, 9) /\ Skip(9, 12)
    BY ONLY <1>3
  <2>2. Stop(4) /\ Stop(8) /\ Stop(10) /\ Stop(11) /\ Stop(12)
    BY ONLY <1>3
  <2>3. (T > 3 => Stop(7)) /\ (~(T > 3) => Skip(7, 9 + T))
    BY ONLY <1>3
  <2> HIDE DEF Step, Skip, Stop
  <2>4. Step(w, 1) = w[5] /\ Step(w, 2) = w[5] /\ Step(w, 3) = w[5] /\ Step(w, 6) = w[9] /\ Step(w, 9) = w[12]
    <3>1. Step(w, 1) = w[5]
      BY Zenon, <1>5, <2>1
    <3>2. Step(w, 2) = w[5]
      BY Zenon, <1>5, <2>1
    <3>3. Step(w, 3) = w[5]
      BY Zenon, <1>5, <2>1
    <3>4. Step(w, 6) = w[9]
      <4>1. PICK i, j : i = 6 /\ j = 9
        BY Zenon
      <4>2. Skip(i, j)
        BY Zenon, <2>1, <4>1
      <4>3. Step(w, i) = w[j]
        BY Zenon, <1>5, <4>2
      <4> QED
        BY Zenon, <4>1, <4>3
    <3>5. Step(w, 9) = w[12]
      <4>1. PICK i, j : i = 9 /\ j = 12
        BY Zenon
      <4>2. Skip(i, j)
        BY Zenon, <2>1, <4>1
      <4>3. Step(w, i) = w[j]
        BY Zenon, <1>5, <4>2
      <4> QED
        BY Zenon, <4>1, <4>3
    <3> QED
      BY Zenon, <3>1, <3>2, <3>3, <3>4, <3>5
  <2>5. Step(w, 4) = NoTsap /\ Step(w, 8) = NoTsap /\ Step(w, 10) = NoTsap /\ Step(w, 11) = NoTsap /\ Step(w, 12) = NoTsap
    BY Zenon, <1>6, <2>2
  <2>6. Step(w, 7) = IF T > 3 THEN NoTsap ELSE w[9 + T]
    BY Zenon, <1>5, <1>6, <2>3
  <2> QED
    BY Zenon, <2>4, <2>5, <2>6
<1> HIDE DEF Step
<1>9. \A i \in 1..12 : Step(g, i) = g[i]
  <2>1. /\ g[1] = T /\ g[2] = T /\ g[3] = T /\ g[4] = NoTsap /\ g[5] = T /\ g[6] = NoTsap /\ g[7] = NoTsap /\ g[8] = NoTsap
        /\ \A j \in 9..12 : g[j] = NoTsap
    OBVIOUS
  <2> HIDE DEF g
  <2>2. Step(g, 7) = NoTsap
    <3>1. T > 3 \/ 9 + T \in 9..12
      BY ONLY <1>3
    <3> QED
      BY Zenon, <1>8, <2>1, <3>1
  <2>3. Step(g, 5) = T
    BY <1>7, <2>1
  <2> QED
    BY <1>8, <2>1, <2>2, <2>3
<1>10. g = [i \in 1..12 |-> Step(g, i)]
  BY <1>9
<1>11. W = [i \in 1..12 |-> Step(W, i)]
  <2> HIDE DEF g
  <2> QED
    BY <1>10
<1> HIDE DEF W
<1>12. \A i \in 1..12 : W[i] = Step(W, i)
  BY <1>11
<1>13. W[9] = NoTsap
  BY <1>8, <1>12
<1>14. W[1] = T
  BY <1>7, <1>8, <1>12, <1>13
<1>15. T # NoTsap
  BY <1>3 DEF NoTsap
<1> QED
  BY <1>1, <1>2, <1>4, <1>14, <1>15 DEF CrParams, TsapIn

\* The fields of a TSAP do not overlap.
LEMMA TsapParts ==
  ASSUME NEW rack \in Nat, NEW slot \in Nat
  PROVE  /\ Tsap(rack, slot) \in Nat
         /\ Tsap(rack, slot) \div 32 = rack % 8 /\ Tsap(rack, slot) % 32 = slot % 32
<1>1. PICK a, b : a = rack % 8 /\ b = slot % 32
  BY Zenon
<1>2. a \in 0..7 /\ b \in 0..31
  BY <1>1
<1>3. (a * 32 + b) \div 32 = a /\ (a * 32 + b) % 32 = b /\ a * 32 + b \in Nat
  BY ONLY <1>2
<1> QED
  BY Zenon, <1>1, <1>3 DEF Tsap

\* A connect request keeps three bits of the rack and five of the slot.
LEMMA ConnectRequestRoundTrip ==
  ASSUME NEW pdu, pdu.code = CR, pdu.dst \in Nat, pdu.src \in Nat, pdu.rack \in Nat, pdu.slot \in Nat
  PROVE  /\ EncodeCotp(pdu) \in Seq(Nat) /\ Len(EncodeCotp(pdu)) = 16
         /\ DecodeCotp(EncodeCotp(pdu)) = [code |-> CR, dst |-> pdu.dst, src |-> pdu.src,
                                           rack |-> pdu.rack % 8, slot |-> pdu.slot % 32]
<1>1. PICK h, p, T : /\ h = <<17, CR, pdu.dst, pdu.src, 0>> /\ p = CrParams(pdu.rack, pdu.slot)
                     /\ T = Tsap(pdu.rack, pdu.slot)
  BY Zenon
<1>2. T \in Nat /\ T \div 32 = pdu.rack % 8 /\ T % 32 = pdu.slot % 32
  BY Zenon, <1>1, TsapParts
<1>3. p \in Seq(Nat) /\ Len(p) = 11
  BY <1>1, <1>2 DEF CrParams
<1>4. /\ h \in Seq(Nat) /\ Len(h) = 5 /\ h[2] = CR /\ h[3] = pdu.dst /\ h[4] = pdu.src
  BY <1>1 DEF CR
<1>5. PICK w : w = h \o p
  BY Zenon
<1>6. EncodeCotp(pdu) = w
  BY <1>1, <1>5 DEF EncodeCotp, CR, CC, DT, ER
<1>7. Joined(w, h, p)
  BY Zenon, <1>3, <1>4, <1>5, BehindFields
<1>8. w \in Seq(Nat) /\ Len(w) = 16 /\ w[2] = CR /\ w[3] = pdu.dst /\ w[4] = pdu.src /\ SubSeq(w, 6, 16) = p
  <2>1. /\ w \in Seq(Nat) /\ Len(w) = 5 + 11 /\ \A i \in 1..5 : w[i] = h[i]
        /\ SubSeq(w, 5 + 1, 5 + 11) = p
    BY Zenon, <1>3, <1>4, <1>7 DEF Joined
  <2>2. 5 + 1 = 6 /\ 5 + 11 = 16 /\ 2 \in 1..5 /\ 3 \in 1..5 /\ 4 \in 1..5
    OBVIOUS
  <2>3. Len(w) = 16 /\ SubSeq(w, 6, 16) = p
    BY ONLY <2>1, <2>2
  <2> QED
    BY Zenon, <1>4, <2>1, <2>2, <2>3
<1>9. TsapIn(SubSeq(w, 6, Len(w))) = T
  BY Zenon, <1>1, <1>2, <1>8, TsapFound
<1>10. ~(Len(w) < 2) /\ Len(w) >= 5
  BY <1>8
<1>11. DecodeCotp(w) = [code |-> CR, dst |-> w[3], src |-> w[4], rack |-> T \div 32, slot |-> T % 32]
  <2>1. w[2] = 224
    BY <1>8 DEF CR
  <2>2. PICK t : t = TsapIn(SubSeq(w, 6, Len(w)))
    BY Zenon
  <2> QED
    BY <1>9, <1>10, <2>1, <2>2 DEF DecodeCotp, CR, CC, DT, ER
<1> QED
  BY Zenon, <1>2, <1>6, <1>8, <1>11

\* A data PDU carries its payload, its number and the end-of-message bit.
LEMMA DataRoundTrip ==
  ASSUME NEW nr \in 0..127, NEW last \in BOOLEAN, NEW payload \in Seq(Nat),
         NEW pdu, pdu = [code |-> DT, nr |-> nr, last |-> last, payload |-> payload]
  PROVE  EncodeCotp(pdu) \in Seq(Nat) /\ DecodeCotp(EncodeCotp(pdu)) = pdu
<1>1. PICK b : b = (nr % 128) + (IF last THEN 128 ELSE 0)
  BY Zenon
<1>2. b \in Nat /\ b % 128 = nr /\ (b >= 128) = last
  <2>1. CASE last
    <3>1. b = (nr % 128) + 128
      BY Zenon, <1>1, <2>1
    <3>2. b \in Nat /\ b % 128 = nr /\ b >= 128
      BY ONLY <3>1, nr \in 0..127
    <3> QED
      BY Zenon, <2>1, <3>2
  <2>2. CASE ~last
    <3>1. b = (nr % 128) + 0
      BY Zenon, <1>1, <2>2
    <3>2. b \in Nat /\ b % 128 = nr /\ ~(b >= 128)
      BY ONLY <3>1, nr \in 0..127
    <3> QED
      BY <2>2, <3>2
  <2> QED
    BY Zenon, <2>1, <2>2
<1>3. PICK h, w : h = <<2, DT, b>> /\ w = h \o payload
  BY Zenon
<1>4. h \in Seq(Nat) /\ Len(h) = 3 /\ h[2] = DT /\ h[3] = b
  BY <1>2, <1>3 DEF DT
<1>5. EncodeCotp(pdu) = w
  BY <1>1, <1>3 DEF EncodeCotp, CR, CC, DT, ER
<1>6. Joined(w, h, payload)
  BY Zenon, <1>3, <1>4, BehindFields
<1>7. PICK n : n = Len(payload)
  BY Zenon
<1>8. /\ w \in Seq(Nat) /\ Len(w) = 3 + n /\ n \in Nat /\ SubSeq(w, 3 + 1, 3 + n) = payload
      /\ \A i \in 1..3 : w[i] = h[i]
  BY Zenon, <1>4, <1>6, <1>7 DEF Joined
<1>9. 3 + 1 = 4 /\ 2 \in 1..3 /\ 3 \in 1..3 /\ ~(Len(w) < 2) /\ Len(w) >= 3
  BY ONLY <1>8
<1>10. w[2] = DT /\ w[3] = b /\ SubSeq(w, 4, Len(w)) = payload
  BY Zenon, <1>4, <1>8, <1>9
<1>11. DecodeCotp(w) = [code |-> DT, nr |-> w[3] % 128, last |-> w[3] >= 128, payload |-> SubSeq(w, 4, Len(w))]
  <2>1. w[2] = 240
    BY <1>10 DEF DT
  <2> QED
    BY <1>9, <2>1 DEF DecodeCotp, CR, CC, DT, ER
<1>12. w[3] % 128 = nr /\ (w[3] >= 128) = last
  BY Zenon, <1>2, <1>10
<1>13. DecodeCotp(w) = pdu
  BY Zenon, <1>10, <1>11, <1>12
<1> QED
  BY Zenon, <1>5, <1>8, <1>13

\* A connect confirm has no parameters.
LEMMA ConfirmRoundTrip ==
  ASSUME NEW dst \in Nat, NEW src \in Nat, NEW pdu, pdu = [code |-> CC, dst |-> dst, src |-> src]
  PROVE  EncodeCotp(pdu) \in Seq(Nat) /\ DecodeCotp(EncodeCotp(pdu)) = pdu
<1>1. EncodeCotp(pdu) = <<6, 208, dst, src, 0>>
  BY DEF EncodeCotp, CR, CC, DT, ER
<1>2. DecodeCotp(<<6, 208, dst, src, 0>>) = [code |-> 208, dst |-> dst, src |-> src]
  BY DEF DecodeCotp, CR, CC, DT, ER
<1>3. <<6, 208, dst, src, 0>> \in Seq(Nat)
  OBVIOUS
<1> QED
  BY Zenon, <1>1, <1>2, <1>3 DEF CC

\* An error carries its cause.
LEMMA ErrorRoundTrip ==
  ASSUME NEW dst \in Nat, NEW src \in Nat, NEW cause \in Nat,
         NEW pdu, pdu = [code |-> ER, dst |-> dst, src |-> src, cause |-> cause]
  PROVE  EncodeCotp(pdu) \in Seq(Nat) /\ DecodeCotp(EncodeCotp(pdu)) = pdu
<1>1. EncodeCotp(pdu) = <<6, 112, dst, src, cause>>
  BY DEF EncodeCotp, CR, CC, DT, ER
<1>2. DecodeCotp(<<6, 112, dst, src, cause>>) = [code |-> 112, dst |-> dst, src |-> src, cause |-> cause]
  BY DEF DecodeCotp, CR, CC, DT, ER
<1>3. <<6, 112, dst, src, cause>> \in Seq(Nat)
  OBVIOUS
<1> QED
  BY Zenon, <1>1, <1>2, <1>3 DEF ER

\* Every PDU of cotp.rs that is encoded is decoded to itself.
LEMMA PdusRoundTrip ==
  ASSUME NEW pdu \in CotpPdus
  PROVE  EncodeCotp(pdu) \in Seq(Nat) /\ DecodeCotp(EncodeCotp(pdu)) = pdu
<1>1. CASE pdu \in [code : {CR}, dst : Nat, src : Nat, rack : 0..7, slot : 0..31]
  <2>1. /\ pdu.code = CR /\ pdu.dst \in Nat /\ pdu.src \in Nat /\ pdu.rack \in 0..7 /\ pdu.slot \in 0..31
        /\ pdu = [code |-> CR, dst |-> pdu.dst, src |-> pdu.src, rack |-> pdu.rack, slot |-> pdu.slot]
    BY <1>1
  <2>2. pdu.rack \in Nat /\ pdu.slot \in Nat /\ pdu.rack % 8 = pdu.rack /\ pdu.slot % 32 = pdu.slot
    BY ONLY <2>1
  <2> QED
    BY Zenon, <2>1, <2>2, ConnectRequestRoundTrip
<1>2. CASE pdu \in [code : {CC}, dst : Nat, src : Nat]
  <2>1. pdu.dst \in Nat /\ pdu.src \in Nat /\ pdu = [code |-> CC, dst |-> pdu.dst, src |-> pdu.src]
    BY <1>2
  <2> QED
    BY Zenon, <2>1, ConfirmRoundTrip
<1>3. CASE pdu \in [code : {DT}, nr : 0..127, last : BOOLEAN, payload : Seq(Nat)]
  <2>1. /\ pdu.nr \in 0..127 /\ pdu.last \in BOOLEAN /\ pdu.payload \in Seq(Nat)
        /\ pdu = [code |-> DT, nr |-> pdu.nr, last |-> pdu.last, payload |-> pdu.payload]
    BY <1>3
  <2> QED
    BY Zenon, <2>1, DataRoundTrip
<1>4. CASE pdu \in [code : {ER}, dst : Nat, src : Nat, cause : Nat]
  <2>1. /\ pdu.dst \in Nat /\ pdu.src \in Nat /\ pdu.cause \in Nat
        /\ pdu = [code |-> ER, dst |-> pdu.dst, src |-> pdu.src, cause |-> pdu.cause]
    BY <1>4
  <2> QED
    BY Zenon, <2>1, ErrorRoundTrip
<1> QED
  BY Zenon, <1>1, <1>2, <1>3, <1>4 DEF CotpPdus

\* A header as client and server make it: an acknowledgement has two error fields, others none.
IsHeader(h) ==
  /\ h \in [type : PduTypes, ref : Nat, plen : Nat, dlen : Nat, error : Seq(Nat)]
  /\ Len(h.error) = IF h.type \in {Ack, AckData} THEN 2 ELSE 0

\* Header and negotiation come through.
Survive(h, n) ==
  LET d == DecodeHeader(EncodeHeader(h) \o EncodeNegotiate(n))
  IN  d.header = h /\ DecodeNegotiate(d.rest) = n

\* The header of a message is split from what follows it, error fields and all, and a
\* negotiation behind it is read as it was written.
LEMMA HeaderRoundTrip ==
  ASSUME NEW h, IsHeader(h), NEW n \in [calling : Nat, called : Nat, pdu : Nat]
  PROVE  Survive(h, n)
<1>0. PICK t, ref, plen, dlen, calling, called, size :
        /\ t = h.type /\ ref = h.ref /\ plen = h.plen /\ dlen = h.dlen
        /\ calling = n.calling /\ called = n.called /\ size = n.pdu
  BY Zenon
<1>1. PICK e, a, b : /\ e = h.error /\ a = <<50, t, 0, ref, plen, dlen>>
                     /\ b = <<240, 0, calling, called, size>>
  BY Zenon
<1>18. /\ h = [type |-> t, ref |-> ref, plen |-> plen, dlen |-> dlen, error |-> e]
       /\ t \in PduTypes /\ ref \in Nat /\ plen \in Nat /\ dlen \in Nat /\ e \in Seq(Nat)
       /\ Len(e) = IF t \in {Ack, AckData} THEN 2 ELSE 0
  BY <1>0, <1>1 DEF IsHeader
<1>19. /\ n = [calling |-> calling, called |-> called, pdu |-> size]
       /\ calling \in Nat /\ called \in Nat /\ size \in Nat
  BY <1>0
<1>2. t \in Nat /\ t \in {1, 2, 3, 7}
  BY <1>18 DEF PduTypes, Job, Ack, AckData, UserData
<1>3. a \in Seq(Nat) /\ Len(a) = 6 /\ a[1] = 50 /\ a[2] = t /\ a[4] = ref /\ a[5] = plen /\ a[6] = dlen
  BY <1>1, <1>2, <1>18
<1>4. b \in Seq(Nat) /\ Len(b) = 5
  BY <1>1, <1>19
<1>5. PICK k \in {0, 2} : e \in Seq(Nat) /\ Len(e) = k /\ k = IF t \in {Ack, AckData} THEN 2 ELSE 0
  BY Zenon, <1>18
<1>6. PICK f, w : f = a \o e /\ w = f \o b
  BY Zenon
<1>7. EncodeHeader(h) \o EncodeNegotiate(n) = w
  <2>1. EncodeHeader(h) = f
    BY Zenon, <1>0, <1>1, <1>6 DEF EncodeHeader
  <2>2. EncodeNegotiate(n) = b
    BY Zenon, <1>0, <1>1 DEF EncodeNegotiate
  <2> QED
    BY Zenon, <1>6, <2>1, <2>2
<1>8. Joined(f, a, e)
  BY Zenon, <1>3, <1>5, <1>6, BehindFields
<1>9. /\ f \in Seq(Nat) /\ Len(f) = 6 + k /\ SubSeq(f, 6 + 1, 6 + k) = e /\ \A i \in 1..6 : f[i] = a[i]
  BY Zenon, <1>3, <1>5, <1>8 DEF Joined
<1>10. Joined(w, f, b)
  BY Zenon, <1>4, <1>6, <1>9, BehindFields
<1>11. /\ w \in Seq(Nat) /\ Len(w) = (6 + k) + 5 /\ \A i \in 1..(6 + k) : w[i] = f[i]
       /\ SubSeq(w, (6 + k) + 1, (6 + k) + 5) = b
  BY Zenon, <1>4, <1>9, <1>10 DEF Joined
<1>12. w[1] = 50 /\ w[2] = t /\ w[4] = ref /\ w[5] = plen /\ w[6] = dlen
  <2>1. \A i \in 1..6 : w[i] = a[i]
    <3>1. \A i \in 1..6 : i \in 1..(6 + k)
      BY ONLY <1>5
    <3> QED
      BY Zenon, <1>9, <1>11, <3>1
  <2> QED
    BY <1>3, <2>1
<1>13. SubSeq(w, 7, 6 + k) = e
  <2>1. SubSeq(w, 7, 6 + k) = SubSeq(f, 7, 6 + k)
    BY ONLY <1>5, <1>9, <1>11
  <2> QED
    BY <1>9, <2>1
<1>14. SubSeq(w, 7 + k, Len(w)) = b
  <2>1. 7 + k = (6 + k) + 1 /\ Len(w) = (6 + k) + 5
    BY ONLY <1>5, <1>11
  <2> QED
    BY Zenon, <1>11, <2>1
<1>15. ~(Len(w) < 6) /\ Len(w) >= 8
  BY ONLY <1>5, <1>11
<1>16. DecodeHeader(w) = [header |-> [type |-> t, ref |-> ref, plen |-> plen, dlen |-> dlen, error |-> e], rest |-> b]
  <2>1. ~(Len(w) < 6 \/ w[1] # 50 \/ w[2] \notin PduTypes)
    BY Zenon, <1>12, <1>15, <1>18
  <2>2. PICK errors : errors = IF w[2] \in {Ack, AckData} /\ Len(w) >= 8 THEN 2 ELSE 0
    BY Zenon
  <2>3. errors = k
    BY Zenon, <1>5, <1>12, <1>15, <2>2
  <2>4. DecodeHeader(w) = [header |-> [type |-> w[2], ref |-> w[4], plen |-> w[5], dlen |-> w[6],
                                       error |-> SubSeq(w, 7, 6 + k)], rest |-> SubSeq(w, 7 + k, Len(w))]
    BY Zenon, <2>1, <2>2, <2>3 DEF DecodeHeader
  <2> QED
    BY Zenon, <1>12, <1>13, <1>14, <2>4
<1>17. DecodeNegotiate(b) = n
  BY <1>1, <1>19 DEF DecodeNegotiate
<1>20. PICK d : d = DecodeHeader(w)
  BY Zenon
<1>21. d = [header |-> h, rest |-> b]
  BY Zenon, <1>16, <1>18, <1>20
<1>22. d.header = h /\ d.rest = b
  BY ONLY <1>21
<1> QED
  BY Zenon, <1>7, <1>17, <1>20, <1>22 DEF Survive

\* What one side encodes the other decodes: connect requests of any rack and slot (of
\* which three and five bits are kept), every PDU that a peer sends, in a frame that is
\* an error as long as a part of it is missing, and negotiations of any size behind a
\* header of any type.
THEOREM HandshakeEnvelopes == HandshakeSpec => []EnvelopesRoundTrip
<1>1. ASSUME NEW rack \in Nat, NEW slot \in Nat,
             NEW cr, cr = [code |-> CR, dst |-> 0, src |-> 1, rack |-> rack, slot |-> slot]
      PROVE  DecodeCotp(EncodeCotp(cr)) = [cr EXCEPT !.rack = rack % 8, !.slot = slot % 32]
  <2>1. cr.code = CR /\ cr.dst = 0 /\ cr.src = 1 /\ cr.rack = rack /\ cr.slot = slot /\ 0 \in Nat /\ 1 \in Nat
    BY <1>1
  <2>2. PICK a, b : a = rack % 8 /\ b = slot % 32
    BY Zenon
  <2>3. DecodeCotp(EncodeCotp(cr)) = [code |-> CR, dst |-> 0, src |-> 1, rack |-> a, slot |-> b]
    BY Zenon, <2>1, <2>2, ConnectRequestRoundTrip
  <2>4. PICK r : r = [cr EXCEPT !.rack = a]
    BY Zenon
  <2>5. r = [code |-> CR, dst |-> 0, src |-> 1, rack |-> a, slot |-> slot]
    BY ONLY <1>1, <2>4
  <2>6. [r EXCEPT !.slot = b] = [code |-> CR, dst |-> 0, src |-> 1, rack |-> a, slot |-> b]
    BY ONLY <2>5
  <2> QED
    BY Zenon, <2>2, <2>3, <2>4, <2>6
<1>2. ASSUME NEW m \in Messages, NEW frame, frame = EncodeTpkt(EncodeCotp(m))
      PROVE  /\ DecodeCotp(DecodeTpkt(frame).payload) = m /\ DecodeTpkt(frame).rest = <<>>
             /\ \A n \in 0..(Len(frame) - 1) : DecodeTpkt(SubSeq(frame, 1, n)) = ProtoError
  <2>1. PICK p : p = EncodeCotp(m)
    BY Zenon
  <2>2. p \in Seq(Nat) /\ DecodeCotp(p) = m /\ MaxFrame \in Nat /\ 3 + Len(p) <= MaxFrame
    BY Zenon, <2>1, MessageConstants, PdusRoundTrip
  <2>3. <<>> \in Seq(Nat) /\ Len(p) \in Nat
    BY <2>2
  <2>4. /\ frame \in Seq(Nat) /\ Len(frame) = Len(p) + 3
        /\ DecodeTpkt(frame \o <<>>) = [payload |-> p, rest |-> <<>>]
        /\ \A n \in 0..(Len(p) + 2) : DecodeTpkt(SubSeq(frame \o <<>>, 1, n)) = ProtoError
    BY Zenon, <1>2, <2>1, <2>2, <2>3, FramesRoundTrip
  <2>5. frame \o <<>> = frame
    BY <2>4
  <2>6. Len(frame) - 1 = Len(p) + 2
    BY <2>3, <2>4
  <2>7. DecodeTpkt(frame).payload = p /\ DecodeTpkt(frame).rest = <<>>
    BY <2>4, <2>5
  <2> QED
    BY Zenon, <2>2, <2>4, <2>5, <2>6, <2>7
<1>3. ASSUME NEW t \in PduTypes, NEW e \in {<<0, 0>>, <<129, 4>>}, NEW size \in AskedSizes
      PROVE  Survive([type |-> t, ref |-> 1, plen |-> 5, dlen |-> 0,
                      error |-> IF t \in {Ack, AckData} THEN e ELSE <<>>],
                     [calling |-> 1, called |-> 1, pdu |-> size])
  <2>1. PICK h, f : /\ h = [type |-> t, ref |-> 1, plen |-> 5, dlen |-> 0, error |-> f]
                    /\ f = IF t \in {Ack, AckData} THEN e ELSE <<>>
    BY Zenon
  <2>2. f \in Seq(Nat) /\ Len(f) = IF t \in {Ack, AckData} THEN 2 ELSE 0
    <3>1. CASE t \in {Ack, AckData}
      <4>1. f = e
        BY Zenon, <2>1, <3>1
      <4>2. PICK i, j : i \in Nat /\ j \in Nat /\ e = <<i, j>>
        OBVIOUS
      <4>3. f \in Seq(Nat) /\ Len(f) = 2
        BY ONLY <4>1, <4>2
      <4> QED
        BY Zenon, <3>1, <4>3
    <3>2. CASE t \notin {Ack, AckData}
      <4>1. f = <<>>
        BY Zenon, <2>1, <3>2
      <4>2. f \in Seq(Nat) /\ Len(f) = 0
        BY ONLY <4>1
      <4> QED
        BY Zenon, <3>2, <4>2
    <3> QED
      BY Zenon, <3>1, <3>2
  <2>3. IsHeader(h)
    BY <2>1, <2>2 DEF IsHeader
  <2>4. [calling |-> 1, called |-> 1, pdu |-> size] \in [calling : Nat, called : Nat, pdu : Nat]
    BY HandshakeConstants
  <2> QED
    BY Zenon, <2>1, <2>3, <2>4, HeaderRoundTrip
<1>4. EnvelopesRoundTrip
  <2>1. 0..8 \subseteq Nat /\ 0..32 \subseteq Nat
    OBVIOUS
  <2>2. \A rack \in 0..8, slot \in 0..32 :
          LET cr == [code |-> CR, dst |-> 0, src |-> 1, rack |-> rack, slot |-> slot] IN
          DecodeCotp(EncodeCotp(cr)) = [cr EXCEPT !.rack = rack % 8, !.slot = slot % 32]
    BY Zenon, <1>1, <2>1
  <2>3. \A m \in Messages :
          LET frame == EncodeTpkt(EncodeCotp(m)) IN
          /\ DecodeCotp(DecodeTpkt(frame).payload) = m
          /\ DecodeTpkt(frame).rest = <<>>
          /\ \A n \in 0..(Len(frame) - 1) : DecodeTpkt(SubSeq(frame, 1, n)) = ProtoError
    BY Zenon, <1>2
  <2>4. \A t \in PduTypes, e \in {<<0, 0>>, <<129, 4>>}, size \in AskedSizes :
          LET h == [type |-> t, ref |-> 1, plen |-> 5, dlen |-> 0,
                    error |-> IF t \in {Ack, AckData} THEN e ELSE <<>>]
              n == [calling |-> 1, called |-> 1, pdu |-> size]
              d == DecodeHeader(EncodeHeader(h) \o EncodeNegotiate(n))
          IN  d.header = h /\ DecodeNegotiate(d.rest) = n
    BY Zenon, <1>3 DEF Survive
  <2> QED
    BY Zenon, <2>2, <2>3, <2>4 DEF EnvelopesRoundTrip
<1> QED
  BY <1>4, PTL
=============================================================================
