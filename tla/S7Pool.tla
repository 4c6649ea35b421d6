------------------------------- MODULE S7Pool -------------------------------
(***************************************************************************)
(* The connection pool of snap7-client (pool.rs): `acquire` takes a permit *)
(* of a semaphore, reuses an idle connection or opens one, and hands out a *)
(* guard (`PooledClient`).  Dropping the guard first pushes the connection *)
(* onto the idle queue and only then, when the guard's fields are dropped, *)
(* gives the permit back.                                                  *)
(*                                                                         *)
(* Each section under the pool's `std::sync::Mutex` is one step, and so is *)
(* each operation of the semaphore; everything else interleaves.           *)
(***************************************************************************)
EXTENDS FairQueue, FiniteSets

CONSTANTS
  Task,      \* tasks that call `acquire`
  Conn,      \* identities of TCP connections to the PLC
  MaxSize,   \* PoolConfig::max_size, the permits the semaphore starts with
  NoConn     \* a task that holds no connection

ASSUME PoolConstants ==
  /\ MaxSize \in Nat
  /\ IsFiniteSet(Task)
  /\ NoConn \notin Conn

VARIABLES
  pc,        \* pc[t]: where task t is in the life of a PooledClient
  permits,   \* free permits of the semaphore
  waiters,   \* tasks queued on the semaphore, in arrival order
  idle,      \* PoolInner::idle, the queue of connections nobody borrows
  held       \* held[t]: the connection in t's PooledClient

vars == <<pc, permits, waiters, idle, held>>

\* "out"        no acquire in progress and no guard held
\* "waiting"    suspended on the semaphore
\* "granted"    a release passed t a permit, t has not been polled since
\* "checking"   t has its permit and is about to look at the idle queue
\* "connecting" inside timeout(connect_timeout, S7Client::connect(..))
\* "using"      acquire returned Ok, t owns the guard
\* "returned"   in drop: the connection is idle again, the permit still held
Stages == {"out", "waiting", "granted", "checking", "connecting", "using", "returned"}

HasPermit(t) == pc[t] \notin {"out", "waiting"}
PermitHolders == {t \in Task : HasPermit(t)}

\* Tasks whose permit stands for a connection that is open or being opened.
Connected == {t \in Task : pc[t] \in {"connecting", "using"}}

TypeOK ==
  /\ pc \in [Task -> Stages]
  /\ permits \in 0..MaxSize
  /\ waiters \in Seq(Task)
  /\ idle \in Seq(Conn)
  /\ held \in [Task -> Conn \cup {NoConn}]

\* Connections that exist: idle ones and those inside a guard.
OpenConns == {idle[i] : i \in 1..Len(idle)} \cup ({held[t] : t \in Task} \ {NoConn})

Init ==
  /\ pc = [t \in Task |-> "out"]
  /\ permits = MaxSize
  /\ waiters = <<>>
  /\ idle = <<>>
  /\ held = [t \in Task |-> NoConn]

-----------------------------------------------------------------------------
(* tokio's Semaphore: a fair queue; a released permit goes to the task at  *)
(* the head of the queue and becomes free only when nobody waits.          *)

\* Mutant: the permit is counted as free again but nobody in the queue is woken.
ReleaseNoWake(t) ==
  /\ permits' = permits + 1
  /\ pc' = [pc EXCEPT ![t] = "out"]
  /\ UNCHANGED waiters

\* The permit of t goes back to the semaphore and t leaves for stage "out".
ReleasePermit(t) ==
  IF waiters = <<>>
  THEN /\ permits' = permits + 1
       /\ pc' = [pc EXCEPT ![t] = "out"]
       /\ UNCHANGED waiters
  ELSE /\ pc' = [pc EXCEPT ![t] = "out", ![Head(waiters)] = "granted"]
       /\ waiters' = Tail(waiters)
       /\ UNCHANGED permits

-----------------------------------------------------------------------------
(* acquire                                                                 *)

\* acquire_owned().await: a free permit is taken at once, else t queues.
Acquire(t) ==
  /\ pc[t] = "out"
  /\ IF permits > 0
     THEN /\ permits' = permits - 1
          /\ pc' = [pc EXCEPT ![t] = "checking"]
          /\ UNCHANGED waiters
     ELSE /\ waiters' = Append(waiters, t)
          /\ pc' = [pc EXCEPT ![t] = "waiting"]
          /\ UNCHANGED permits
  /\ UNCHANGED <<idle, held>>

\* The executor polls a task that was handed a permit.
Wake(t) ==
  /\ pc[t] = "granted"
  /\ pc' = [pc EXCEPT ![t] = "checking"]
  /\ UNCHANGED <<permits, waiters, idle, held>>

\* pop_front found a connection: it is handed out as it is, unprobed.
ReuseIdle(t) ==
  /\ pc[t] = "checking"
  /\ idle # <<>>
  /\ held' = [held EXCEPT ![t] = Head(idle)]
  /\ idle' = Tail(idle)
  /\ pc' = [pc EXCEPT ![t] = "using"]
  /\ UNCHANGED <<permits, waiters>>

\* Mutant: a connect starts without looking at the idle queue.
ConnectAnyway(t) ==
  /\ pc[t] = "checking"
  /\ pc' = [pc EXCEPT ![t] = "connecting"]
  /\ UNCHANGED <<permits, waiters, idle, held>>

\* pop_front found nothing: the address is copied and a connect starts.
StartConnect(t) ==
  /\ pc[t] = "checking"
  /\ idle = <<>>
  /\ pc' = [pc EXCEPT ![t] = "connecting"]
  /\ UNCHANGED <<permits, waiters, idle, held>>

ConnectOk(t) ==
  /\ pc[t] = "connecting"
  /\ \E c \in Conn \ OpenConns : held' = [held EXCEPT ![t] = c]
  /\ pc' = [pc EXCEPT ![t] = "using"]
  /\ UNCHANGED <<permits, waiters, idle>>

\* Mutant: the error path forgets the permit.
ConnectFailLeak(t) ==
  /\ pc[t] = "connecting"
  /\ pc' = [pc EXCEPT ![t] = "out"]
  /\ UNCHANGED <<permits, waiters, idle, held>>

\* The connect failed or ran into connect_timeout: `?` leaves acquire and
\* drops the permit with its stack frame.
ConnectFail(t) ==
  /\ pc[t] = "connecting"
  /\ ReleasePermit(t)
  /\ UNCHANGED <<idle, held>>

\* The caller drops the acquire future at its first await point.
CancelWaiting(t) ==
  /\ pc[t] = "waiting"
  /\ waiters' = Without(waiters, t)
  /\ pc' = [pc EXCEPT ![t] = "out"]
  /\ UNCHANGED <<permits, idle, held>>

\* The caller drops a future that owns a permit: one that was just handed
\* to it, or the one held across the connect.
CancelWithPermit(t) ==
  /\ pc[t] \in {"granted", "connecting"}
  /\ ReleasePermit(t)
  /\ UNCHANGED <<idle, held>>

-----------------------------------------------------------------------------
(* Drop for PooledClient                                                   *)

\* The body of drop: push_back under the pool's mutex.
ReturnConn(t) ==
  /\ pc[t] = "using"
  /\ idle' = Append(idle, held[t])
  /\ held' = [held EXCEPT ![t] = NoConn]
  /\ pc' = [pc EXCEPT ![t] = "returned"]
  /\ UNCHANGED <<permits, waiters>>

\* The fields of the guard are dropped after the body: `_permit` is last.
ReturnPermit(t) ==
  /\ pc[t] = "returned"
  /\ ReleasePermit(t)
  /\ UNCHANGED <<idle, held>>

-----------------------------------------------------------------------------
Next ==
  \E t \in Task :
    \/ Acquire(t) \/ Wake(t) \/ ReuseIdle(t) \/ StartConnect(t)
    \/ ConnectOk(t) \/ ConnectFail(t)
    \/ CancelWaiting(t) \/ CancelWithPermit(t)
    \/ ReturnConn(t) \/ ReturnPermit(t)

\* What the executor runs on its own: a woken task, the code between two
\* awaits, a connect that connect_timeout ends, a drop that has begun.  The
\* borrower giving its guard back is the one assumption on the application.
Fairness ==
  \A t \in Task :
    WF_vars(Wake(t) \/ ReuseIdle(t) \/ StartConnect(t) \/ ConnectOk(t)
            \/ ConnectFail(t) \/ ReturnConn(t) \/ ReturnPermit(t))

Spec == Init /\ [][Next]_vars
FairSpec == Spec /\ Fairness

-----------------------------------------------------------------------------
(* Properties                                                              *)

\* Connections that are open or being opened never outnumber max_size, the
\* "Maximum number of concurrent connections" of PoolConfig, although the
\* idle queue is not guarded by the semaphore: it relies on drop giving the
\* connection back before the permit, and on the idle check under a permit.
BoundedConnections == Len(idle) + Cardinality(Connected) <= MaxSize

\* No path through acquire or drop loses or duplicates a permit: errors,
\* timeouts and futures dropped half way included.  A permit is only free
\* while nobody queues for it.
PermitsConserved ==
  /\ permits + Cardinality(PermitHolders) = MaxSize
  /\ permits > 0 => waiters = <<>>

\* An acquire that blocks on the semaphore ends (with a connection, an error
\* or its own cancellation) as long as borrowers drop their guards: the
\* queue is fair and every path out of acquire releases its permit.
AcquireCompletes == \A t \in Task : pc[t] = "waiting" ~> pc[t] \in {"using", "out"}
=============================================================================
