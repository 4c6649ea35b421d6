---------------------------- MODULE MCS7Server -----------------------------
(***************************************************************************)
(* Three peers, one of them not snap7-client, and one permit: the accept   *)
(* loop runs out of permits with connections still queued.  One of the     *)
(* sizes asked for is beyond what the server can do.                       *)
(***************************************************************************)
EXTENDS Handshake

CONSTANTS c1, c2, c3

Neg(type, func) ==
  Data(EncodeHeader([type |-> type, ref |-> 1, plen |-> 8, dlen |-> 0,
                     error |-> IF type = AckData THEN <<0, 0>> ELSE <<>>])
         \o <<func, 0, 1, 1, 240>>)

\* A connect request, a negotiation, others that are no negotiation.
MCMessages ==
  {[code |-> CR, dst |-> 0, src |-> 2, rack |-> 1, slot |-> 3], Neg(Job, 240), Neg(Job, 4),
   Data(<<50>>), [code |-> ER, dst |-> 1, src |-> 2, cause |-> 3]}
=============================================================================
