----------------------------- MODULE BlockStore -----------------------------
(***************************************************************************)
(* What the block operations of a shared S7Client promise about the        *)
(* program memory of a PLC: a block is only ever read whole, as it was at  *)
(* one moment, and installed whole, as its caller handed it over.  Nothing *)
(* is promised about the moments of two blocks read by one call, nor once  *)
(* an answer was left to the next exchange.                                *)
(***************************************************************************)
CONSTANTS
  Tasks,    \* callers that share the client
  Keys,     \* names of blocks: type and number
  Contents, \* contents a caller may install
  Bytes,    \* bytes a caller may overwrite a part of a block with
  None      \* no block, nothing offered, nothing read

VARIABLES
  blocks,   \* blocks[k]: the content of block k
  offer,    \* offer[t]: the key and the content t has called download with
  read,     \* read[t]: what t has read in its present call, by key
  view,     \* view[k]: block k as the client reads it
  trusted   \* every answer was taken by the call it is for

vars == <<blocks, offer, read>>

Init ==
  /\ blocks \in [Keys -> Contents \cup {None}]
  /\ offer = [t \in Tasks |-> None]
  /\ read = [t \in Tasks |-> [k \in Keys |-> None]]

\* t begins or ends a call.
Call(t) ==
  /\ \E o \in (Keys \X Contents) \cup {None} : offer' = [offer EXCEPT ![t] = o]
  /\ read' = [read EXCEPT ![t] = [k \in Keys |-> None]]
  /\ UNCHANGED blocks

\* One block is read at once.
Read(t, k) ==
  /\ read' = [read EXCEPT ![t][k] = view[k]]
  /\ UNCHANGED <<blocks, offer>>

\* The content on offer replaces the block at once, and once only.
Install(t) ==
  /\ offer[t] # None
  /\ blocks' = [blocks EXCEPT ![offer[t][1]] = offer[t][2]]
  /\ offer' = [offer EXCEPT ![t] = None]
  /\ UNCHANGED read

\* Blocks are deleted: one, or all of them by a reset.  A call may end with it.
Erase(t, K) ==
  /\ blocks' = [k \in Keys |-> IF k \in K THEN None ELSE blocks[k]]
  /\ read' \in {read, [read EXCEPT ![t] = [k \in Keys |-> None]]}
  /\ UNCHANGED offer

\* Bytes of an existing block are overwritten (db_write), its length stays.
Overwrite(k) ==
  /\ blocks[k] # None
  /\ \E c \in [DOMAIN blocks[k] -> Bytes] : blocks' = [blocks EXCEPT ![k] = c]
  /\ UNCHANGED <<offer, read>>

Whole ==
  \/ \E t \in Tasks : Call(t) \/ Install(t) \/ \E k \in Keys : Read(t, k)
  \/ \E t \in Tasks, K \in SUBSET Keys : Erase(t, K)
  \/ \E k \in Keys : Overwrite(k)

Next == trusted' => Whole

Spec == Init /\ [][Next]_vars
=============================================================================
