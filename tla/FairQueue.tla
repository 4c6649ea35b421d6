----------------------------- MODULE FairQueue -----------------------------
(***************************************************************************)
(* What tokio's Semaphore and Mutex have in common as the code uses them:  *)
(* tasks queue in arrival order, and a task whose future is dropped leaves *)
(* the queue from wherever it stands.                                      *)
(***************************************************************************)
EXTENDS Integers, Sequences

\* s without its i-th entry.
DropAt(s, i) == SubSeq(s, 1, i - 1) \o SubSeq(s, i + 1, Len(s))

\* The places of t in the queue q.
Places(q, t) == {i \in 1..Len(q) : q[i] = t}

\* q without t, who is in it at most once.
Without(q, t) == IF Places(q, t) = {} THEN q ELSE DropAt(q, CHOOSE i \in Places(q, t) : TRUE)
=============================================================================
