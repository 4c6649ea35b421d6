----------------------------- MODULE MultiVars ------------------------------
(***************************************************************************)
(* read_multi_vars and write_multi_vars (client.rs): the items of one call *)
(* are cut into batches, one S7 exchange each, while the client's lock is  *)
(* held throughout.                                                        *)
(*                                                                         *)
(* An item is its length in bytes.  Items are counted from 1; a batch      *)
(* <<i, j>> stands for items i+1 to j, the code's items[i..j].             *)
(***************************************************************************)
EXTENDS Integers, Sequences

CONSTANTS
  Inputs,   \* sequences of item lengths a call may be given
  PduSizes, \* PDU sizes that may have been negotiated
  MaxItems  \* MAX_ITEMS_PER_PDU

ASSUME MultiVarsConstants ==
  /\ Inputs \subseteq Seq(Nat)
  /\ PduSizes \subseteq Nat
  /\ MaxItems \in Nat \ {0}

VARIABLES
  mode,    \* "read" or "write"
  items,   \* the argument
  pdu,     \* connection.pdu_size
  start,   \* batch_start
  end,     \* batch_end
  req,     \* req_bytes_used (read), bytes_used (write)
  resp,    \* resp_bytes_used (read)
  batches, \* the batches sent so far
  acked,   \* the items whose return code was 0xFF, in the order seen
  outcome  \* what the call returned, if it did

input == <<mode, items, pdu>>
vars == <<input, start, end, req, resp, batches, acked, outcome>>

\* The sizes the code computes with.
AddrItem == 12
DataItem(n) == 4 + n + (n % 2)
Room == IF pdu > 12 THEN pdu - 12 ELSE 0
ReqSize(n) == IF mode = "read" THEN AddrItem ELSE AddrItem + DataItem(n)
RespSize(n) == IF mode = "read" THEN DataItem(n) ELSE 0

\* The k items from position s + 1 on.
Positions(s, k) == [i \in 1..k |-> s + i]

TypeOK ==
  /\ mode \in {"read", "write"} /\ items \in Inputs /\ pdu \in PduSizes
  /\ start \in 0..Len(items) /\ end \in start..Len(items)
  /\ req \in Nat /\ resp \in Nat
  /\ batches \in Seq(Nat \X Nat)
  /\ acked \in Seq(Nat)
  /\ outcome \in {"running", "ok", "err"}

Init ==
  /\ mode \in {"read", "write"} /\ items \in Inputs /\ pdu \in PduSizes
  /\ start = 0 /\ end = 0 /\ req = 0 /\ resp = 0
  /\ batches = <<>> /\ acked = <<>>
  /\ outcome = IF items = <<>> THEN "ok" ELSE "running"

-----------------------------------------------------------------------------

\* Mutant: the request and response budgets are not checked.
FitsAlways == end < Len(items) /\ end - start < MaxItems

\* Mutant: the first item of a batch has to fit as well.
FitsStrict ==
  /\ end < Len(items) /\ end - start < MaxItems
  /\ req + ReqSize(items[end + 1]) <= Room
  /\ resp + RespSize(items[end + 1]) <= Room

\* Whether the inner loop takes one more item; the first always goes in.
Fits ==
  /\ end < Len(items) /\ end - start < MaxItems
  /\ \/ end = start
     \/ /\ req + ReqSize(items[end + 1]) <= Room
        /\ resp + RespSize(items[end + 1]) <= Room

AddItem ==
  /\ outcome = "running" /\ Fits
  /\ end' = end + 1
  /\ req' = req + ReqSize(items[end + 1])
  /\ resp' = resp + RespSize(items[end + 1])
  /\ UNCHANGED <<input, start, batches, acked, outcome>>

\* Mutant: the budgets are carried over to the next batch.
ExchangeKeepBudget ==
  /\ outcome = "running" /\ ~Fits
  /\ batches' = Append(batches, <<start, end>>)
  /\ acked' = acked \o Positions(start, end - start)
  /\ start' = end
  /\ UNCHANGED <<req, resp>>
  /\ outcome' = IF end = Len(items) THEN "ok" ELSE "running"
  /\ UNCHANGED <<input, end>>

\* One exchange in which every item of the batch succeeds.
Exchange ==
  /\ outcome = "running" /\ ~Fits
  /\ batches' = Append(batches, <<start, end>>)
  /\ acked' = acked \o Positions(start, end - start)
  /\ start' = end
  /\ req' = 0 /\ resp' = 0
  /\ outcome' = IF end = Len(items) THEN "ok" ELSE "running"
  /\ UNCHANGED <<input, end>>

\* Mutant: a failed item ends the batch and not the call.
ExchangeFailsGoOn ==
  /\ outcome = "running" /\ ~Fits
  /\ batches' = Append(batches, <<start, end>>)
  /\ \E k \in 0..(end - start - 1) : acked' = acked \o Positions(start, k)
  /\ start' = end
  /\ req' = 0 /\ resp' = 0
  /\ outcome' = IF end = Len(items) THEN "ok" ELSE "running"
  /\ UNCHANGED <<input, end>>

\* The exchange fails: an I/O or PLC error before any item, or the item after
\* the first k has another return code.  Batches already sent stay sent.
ExchangeFails ==
  /\ outcome = "running" /\ ~Fits
  /\ batches' = Append(batches, <<start, end>>)
  /\ \E k \in 0..(end - start - 1) : acked' = acked \o Positions(start, k)
  /\ outcome' = "err"
  /\ UNCHANGED <<input, start, end, req, resp>>

Next == AddItem \/ Exchange \/ ExchangeFails

Spec == Init /\ [][Next]_vars

-----------------------------------------------------------------------------
(* Properties                                                              *)

\* The sums of the first n numbers of a list, and what a batch adds to them.
Sums(g) ==
  LET s[n \in 0..Len(g)] == IF n = 0 THEN 0 ELSE s[n - 1] + g[n] IN s
Total(size(_), b) ==
  LET s == Sums([i \in DOMAIN items |-> size(items[i])]) IN s[b[2]] - s[b[1]]

\* Bytes on the wire: a Job header has 10 bytes, an AckData header 12, and
\* both are followed by the function and the item count.
RequestBytes(b) == 10 + 2 + Total(ReqSize, b)
ResponseBytes(b) == 12 + 2 + Total(RespSize, b)

\* A batch the size limits allow, and a way to cut all items into such batches: the
\* ends of the batches.
Allowed(i, j) ==
  /\ i <= j /\ j - i <= MaxItems
  /\ j - i > 1 => Total(ReqSize, <<i, j>>) <= Room /\ Total(RespSize, <<i, j>>) <= Room
EndOf(cuts, n) == IF n = 0 THEN 0 ELSE cuts[n]
Cuts(cuts) ==
  /\ EndOf(cuts, Len(cuts)) = Len(items)
  /\ \A n \in 1..Len(cuts) : Allowed(EndOf(cuts, n - 1), EndOf(cuts, n))

\* The batches cover the items once, in order and without a gap; none is over
\* the limit of items per PDU, and none is empty, so the call makes progress
\* with every exchange and returns, whatever the PDU size.
BatchesPartition ==
  /\ \A i \in 1..Len(batches) :
       /\ batches[i][1] = IF i = 1 THEN 0 ELSE batches[i - 1][2]
       /\ batches[i][1] < batches[i][2]
       /\ batches[i][2] - batches[i][1] <= MaxItems
  /\ outcome # "err" => start = IF batches = <<>> THEN 0 ELSE batches[Len(batches)][2]

\* A request is longer than the PDU only when its one item is too large.
RequestsFit ==
  \A i \in 1..Len(batches) :
    batches[i][2] - batches[i][1] > 1 => RequestBytes(batches[i]) <= pdu

\* A response is longer than the PDU only when its one item is too large, or by the
\* two error bytes of an AckData header: the code counts the ten bytes of a Job
\* header for both directions.
ResponsesNearlyFit ==
  \A i \in 1..Len(batches) :
    batches[i][2] - batches[i][1] > 1 => ResponseBytes(batches[i]) <= pdu + 2

\* The call returns Ok only when every item was acknowledged, and whatever it
\* returns, items were acknowledged in input order with none skipped: what a
\* failed write_multi_vars has written is a prefix plus the batch that failed.
OkMeansAllAcked ==
  /\ acked = [i \in 1..Len(acked) |-> i]
  /\ outcome = "ok" => Len(acked) = Len(items)
=============================================================================
