---------------------------- MODULE BulkTransfer ----------------------------
(***************************************************************************)
(* What a partner's bsend and brecv promise in each direction: messages    *)
(* arrive whole, once and in the order they were sent, and a bsend returns *)
(* Ok only for a message that has arrived.                                 *)
(***************************************************************************)
EXTENDS Integers, Sequences

CONSTANTS Peer, Message

VARIABLES
  offered,   \* offered[p]: the messages p has called bsend with
  delivered, \* delivered[p]: those of them that the other peer received
  confirmed  \* confirmed[p]: those whose bsend returned Ok

vars == <<offered, delivered, confirmed>>

Init ==
  /\ offered = [p \in Peer |-> <<>>]
  /\ delivered = [p \in Peer |-> <<>>]
  /\ confirmed = [p \in Peer |-> <<>>]

Offer(p) ==
  /\ \E m \in Message : offered' = [offered EXCEPT ![p] = Append(@, m)]
  /\ UNCHANGED <<delivered, confirmed>>

Deliver(p) ==
  /\ Len(delivered[p]) < Len(offered[p])
  /\ delivered' = [delivered EXCEPT ![p] = Append(@, offered[p][Len(@) + 1])]
  /\ UNCHANGED <<offered, confirmed>>

Confirm(p) ==
  /\ Len(confirmed[p]) < Len(delivered[p])
  /\ confirmed' = [confirmed EXCEPT ![p] = Append(@, offered[p][Len(@) + 1])]
  /\ UNCHANGED <<offered, delivered>>

Next == \E p \in Peer : Offer(p) \/ Deliver(p) \/ Confirm(p)

Spec == Init /\ [][Next]_vars
=============================================================================
