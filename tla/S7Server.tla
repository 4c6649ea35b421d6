----------------------------- MODULE S7Server ------------------------------
(***************************************************************************)
(* The server's accept loop and the task it spawns for each connection     *)
(* (server.rs), with the store's client counter (store.rs).                *)
(*                                                                         *)
(* serve takes a semaphore permit before it accepts; the spawned task owns *)
(* the permit and drops it last, after client_disconnected.  What happens  *)
(* inside serve_one is abstracted to how it ends: the handshake fails, or  *)
(* the dispatch loop returns when the peer closes or a write fails.        *)
(***************************************************************************)
EXTENDS Integers, Sequences, FiniteSets

CONSTANTS
  Client,         \* peers, each with at most one connection at a time
  MaxConnections  \* ServerConfig::max_connections

ASSUME ServerConstants == IsFiniteSet(Client) /\ MaxConnections \in Nat

VARIABLES
  acceptor, \* where serve is: acquiring, accepting, or returned
  permits,  \* permits left in the semaphore
  backlog,  \* connections the kernel has queued on the listener
  task,     \* task[c]: the connection of c, from the kernel to its end
  count     \* StoreInner::client_count

vars == <<acceptor, permits, backlog, task, count>>

Stages == {"none", "queued", "spawned", "handshake", "dispatch", "ended", "leaving"}
\* Tasks that own a permit, and tasks between client_connected and
\* client_disconnected.
Owning == {"spawned", "handshake", "dispatch", "ended", "leaving"}
Counted == {"handshake", "dispatch", "ended"}
Owners == {c \in Client : task[c] \in Owning}
CountedTasks == {c \in Client : task[c] \in Counted}
InHand == IF acceptor = "accepting" THEN 1 ELSE 0

TypeOK ==
  /\ acceptor \in {"acquiring", "accepting", "returned"}
  /\ permits \in Nat
  /\ backlog \in Seq(Client)
  /\ task \in [Client -> Stages]
  /\ count \in Nat

Init ==
  /\ acceptor = "acquiring"
  /\ permits = MaxConnections
  /\ backlog = <<>>
  /\ task = [c \in Client |-> "none"]
  /\ count = 0

-----------------------------------------------------------------------------
(* serve                                                                   *)

AcquirePermit ==
  /\ acceptor = "acquiring" /\ permits > 0
  /\ permits' = permits - 1
  /\ acceptor' = "accepting"
  /\ UNCHANGED <<backlog, task, count>>

\* Mutant: the permit is dropped at the end of the accept iteration instead of
\* moving into the task.
AcceptNotMoved ==
  /\ acceptor = "accepting" /\ backlog # <<>>
  /\ backlog' = Tail(backlog)
  /\ task' = [task EXCEPT ![Head(backlog)] = "spawned"]
  /\ acceptor' = "acquiring"
  /\ permits' = permits + 1
  /\ UNCHANGED count

Accept ==
  /\ acceptor = "accepting" /\ backlog # <<>>
  /\ backlog' = Tail(backlog)
  /\ task' = [task EXCEPT ![Head(backlog)] = "spawned"]
  /\ acceptor' = "acquiring"
  /\ UNCHANGED <<permits, count>>

\* accept()? returns: the permit in hand is dropped and the listener closed,
\* which resets the queued connections.  Spawned tasks go on.
AcceptError ==
  /\ acceptor = "accepting"
  /\ acceptor' = "returned"
  /\ permits' = permits + 1
  /\ backlog' = <<>>
  /\ task' = [c \in Client |-> IF task[c] = "queued" THEN "none" ELSE task[c]]
  /\ UNCHANGED count

-----------------------------------------------------------------------------
(* The task of a connection                                                *)

ClientConnected(c) ==
  /\ task[c] = "spawned"
  /\ count' = count + 1
  /\ task' = [task EXCEPT ![c] = "handshake"]
  /\ UNCHANGED <<acceptor, permits, backlog>>

HandshakeDone(c) ==
  /\ task[c] = "handshake"
  /\ task' = [task EXCEPT ![c] = "dispatch"]
  /\ UNCHANGED <<acceptor, permits, backlog, count>>

\* Mutant: a failed handshake leaves the task before client_disconnected, as
\* `serve_one(..).await?` would.
ServeOneEarlyExit(c) ==
  /\ task[c] \in {"handshake", "dispatch"}
  /\ task' = [task EXCEPT ![c] = IF task[c] = "handshake" THEN "leaving" ELSE "ended"]
  /\ UNCHANGED <<acceptor, permits, backlog, count>>

\* set_nodelay or the handshake fails, or dispatch_loop returns.
ServeOneEnds(c) ==
  /\ task[c] \in {"handshake", "dispatch"}
  /\ task' = [task EXCEPT ![c] = "ended"]
  /\ UNCHANGED <<acceptor, permits, backlog, count>>

ClientDisconnected(c) ==
  /\ task[c] = "ended"
  /\ count' = IF count > 0 THEN count - 1 ELSE 0
  /\ task' = [task EXCEPT ![c] = "leaving"]
  /\ UNCHANGED <<acceptor, permits, backlog>>

\* Mutant: the permit is forgotten.
TaskEndsForget(c) ==
  /\ task[c] = "leaving"
  /\ task' = [task EXCEPT ![c] = "none"]
  /\ UNCHANGED <<acceptor, permits, backlog, count>>

\* The end of the task drops _permit.
TaskEnds(c) ==
  /\ task[c] = "leaving"
  /\ permits' = permits + 1
  /\ task' = [task EXCEPT ![c] = "none"]
  /\ UNCHANGED <<acceptor, backlog, count>>

-----------------------------------------------------------------------------
(* The peer: connects, and the kernel queues the connection                *)

Connect(c) ==
  /\ task[c] = "none" /\ acceptor # "returned"
  /\ backlog' = Append(backlog, c)
  /\ task' = [task EXCEPT ![c] = "queued"]
  /\ UNCHANGED <<acceptor, permits, count>>

TaskStep(c) ==
  \/ ClientConnected(c) \/ HandshakeDone(c) \/ ServeOneEnds(c)
  \/ ClientDisconnected(c) \/ TaskEnds(c)

Next ==
  \/ AcquirePermit \/ Accept \/ AcceptError
  \/ \E c \in Client : TaskStep(c) \/ Connect(c)

Spec == Init /\ [][Next]_vars

-----------------------------------------------------------------------------
(* Properties                                                              *)

\* No permit is lost or made up: what is left in the semaphore, in the hand
\* of serve and owned by tasks always adds up to max_connections, through
\* failed handshakes and a failed accept.
PermitsAddUp == permits + InHand + Cardinality(Owners) = MaxConnections

\* What get_status reports is the number of connections being served, never
\* more than max_connections, and the saturating decrement never saturates.
ClientCountExact ==
  /\ count = Cardinality(CountedTasks)
  /\ count <= MaxConnections

=============================================================================
