---------------------------- MODULE MCMultiVars -----------------------------
(***************************************************************************)
(* Every list of up to four items of lengths 1, 20, 22 and 60, and a list  *)
(* of 21 items, with PDU sizes below the fixed overhead, at which one to   *)
(* three items fit, and large enough for the limit of 20 items to bind.    *)
(***************************************************************************)
EXTENDS MultiVars, VarCodec

MCLengths == {1, 20, 22, 60}
MCInputs == BoundedSeq(MCLengths, 4) \cup {[i \in 1..21 |-> 1]}
MCPduSizes == {0, 62, 100, 480}

\* The fewest batches that items i+1 to the end need, by trying every first
\* batch; the reference for the greedy loop.
Fewest ==
  LET f[i \in 0..Len(items)] ==
        IF i = Len(items) THEN 0
        ELSE 1 + Min({f[j] : j \in {k \in (i + 1)..Len(items) : Allowed(i, k)}})
  IN f[0]

\* The greedy loop makes as few exchanges as the code's size limits allow.
FewestExchanges == outcome = "ok" /\ Len(items) <= 4 => Len(batches) = Fewest

\* Addresses of bits, bytes, timers and counters with the offsets at the ends of 21
\* bits, and data of all lengths.
MCAddresses ==
  {[transport |-> t, length |-> 300, db |-> 513, area |-> IF t > Byte THEN t ELSE 132,
    start |-> s, bit |-> b] :
     t \in {1, Byte, Counter, Timer}, s \in {0, 7, 40, 2097151}, b \in {0, 7}}

\* The address that the server sees: the index of a timer or counter, which is sent as
\* it is, is decoded as a bit address.
AsSeen(a) ==
  IF a.transport \in {Counter, Timer} THEN [a EXCEPT !.start = a.start \div 8, !.bit = a.start % 8] ELSE a
Filled(n) == [i \in 1..n |-> (i * 37) % 256]

\* What the client encodes the server decodes, and the other way round, item by item
\* however lengths are mixed, with exactly the bytes that the batching loop counts, but
\* for timers and counters: the server takes number n for number n \div 8;
\* a message cut short is an error, but for the last pad byte.  The length in bits
\* holds 8191 bytes; one byte more and the decoder takes the data for further items.
\* Codecs depend on no variable: each call checks them for its items as it starts.
EncodedAsCounted ==
  /\ items = <<1>> /\ end = 0 /\ pdu = 0 =>
       /\ DecodeData(EncodeData(255, 4, Filled(8191))).item.data = Filled(8191)
       /\ DecodeData(EncodeData(255, 4, Filled(8192))).item.data = <<>>
  /\ start = 0 /\ end = 0 /\ Len(items) \in {1, 2} /\ pdu = 0 =>
    \A a \in MCAddresses :
      LET n == Len(items)
          reads == [i \in 1..n |-> a]
          writes == [i \in 1..n |-> [address |-> a, data |-> Filled(items[i])]]
          values == [i \in 1..n |-> [code |-> 255, data |-> Filled(items[i])]]
          bytes == IF mode = "read" THEN EncodeRead(reads) ELSE EncodeWrite(writes)
          answer == EncodeReadResponse(values)
          decode(buf) == IF mode = "read" THEN DecodeRead(buf) ELSE DecodeWrite(buf)
      IN  /\ decode(bytes) =
               IF mode = "read" THEN [i \in 1..n |-> AsSeen(a)]
               ELSE [i \in 1..n |-> [address |-> AsSeen(a), data |-> Filled(items[i])]]
          /\ 10 + Len(bytes) = RequestBytes(<<0, n>>)
          /\ decode(SubSeq(bytes, 1, Len(bytes) - 2)) = VarError
          /\ \A codes \in [1..(n + 1) -> {5, 255}] :
               /\ DecodeWriteResponse(codes, n) = SubSeq(codes, 1, n)
               /\ DecodeWriteResponse(codes, n + 2) = VarError
          /\ mode = "read" =>
               /\ DecodeReadResponse(answer, n) = values
               /\ 14 + Len(answer) = ResponseBytes(<<0, n>>)
               /\ DecodeReadResponse(SubSeq(answer, 1, Len(answer) - 2), n) = VarError
=============================================================================
