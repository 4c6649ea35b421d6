------------------------------ MODULE VarCodec ------------------------------
(***************************************************************************)
(* Read Var and Write Var on the wire (read_var.rs, write_var.rs), byte by *)
(* byte: the sizes are what the batches of MultiVars are cut by.  Area and *)
(* transport size are their codes.                                         *)
(***************************************************************************)
EXTENDS Integers, Sequences, SequencesExt

CONSTANT VarError  \* result of a decoder that fails

Byte == 2
Timer == 29
Counter == 28
TransportSizes == (1..12) \cup {15, Counter, Timer}
Areas == (128..134) \cup {Counter, Timer}

U16(n) == <<(n \div 256) % 256, n % 256>>
U24(n) == <<(n \div 65536) % 256>> \o U16(n)
AsU16(buf, i) == buf[i] * 256 + buf[i + 1]
Rest(buf, i) == SubSeq(buf, i, Len(buf))

\* Mutant: the bit offset is left out of the address.
AddrBitsByte(item) == IF item.transport \in {Timer, Counter} THEN item.start ELSE item.start * 8

\* Timers and counters are addressed by element, all else by bit.
AddrBits(item) ==
  IF item.transport \in {Timer, Counter} THEN item.start ELSE item.start * 8 + item.bit

EncodeAddress(item) ==
  <<18, 10, 16, item.transport>> \o U16(item.length) \o U16(item.db) \o <<item.area>>
    \o U24(AddrBits(item))

\* One address off the front of buf: the address and what is left.
DecodeAddress(buf) ==
  IF \/ Len(buf) < 12 \/ buf[1] # 18 \/ buf[3] # 16
     \/ buf[4] \notin TransportSizes \/ buf[9] \notin Areas
  THEN VarError
  ELSE LET bits == buf[10] * 65536 + AsU16(buf, 11) IN
       [item |-> [transport |-> buf[4], length |-> AsU16(buf, 5), db |-> AsU16(buf, 7),
                  area |-> buf[9], start |-> bits \div 8, bit |-> bits % 8],
        rest |-> Rest(buf, 13)]

\* Mutant: data is not padded.
Unpadded(data) == data

\* Data is padded to an even length.
Padded(data) == IF Len(data) % 2 = 0 THEN data ELSE Append(data, 0)

\* A code, a transport size and the length in bits, which wraps in 16 bits.
EncodeData(code, transport, data) ==
  <<code, transport>> \o U16((Len(data) * 8) % 65536) \o Padded(data)

\* One data item off the front of buf; the pad byte may be missing at the end.
DecodeData(buf) ==
  IF Len(buf) < 4 THEN VarError
  ELSE LET n == (AsU16(buf, 3) + 7) \div 8
           pad == IF n % 2 = 1 /\ Len(buf) > 4 + n THEN 1 ELSE 0
       IN  IF Len(buf) < 4 + n THEN VarError
           ELSE [item |-> [code |-> buf[1], data |-> SubSeq(buf, 5, 4 + n)],
                 rest |-> Rest(buf, 5 + n + pad)]

\* count items off the front of buf, one after the other.
Repeat(decode(_), buf, count) ==
  LET go[k \in 0..count] ==
        IF k = 0 THEN [items |-> <<>>, rest |-> buf]
        ELSE IF go[k - 1] = VarError THEN VarError
        ELSE LET next == decode(go[k - 1].rest)
             IN  IF next = VarError THEN VarError
                 ELSE [items |-> Append(go[k - 1].items, next.item), rest |-> next.rest]
  IN  go[count]

-----------------------------------------------------------------------------
(* Read Var                                                                *)

EncodeRead(items) ==
  <<4, Len(items) % 256>> \o FlattenSeq([i \in DOMAIN items |-> EncodeAddress(items[i])])

DecodeRead(buf) ==
  IF Len(buf) < 2 \/ buf[1] # 4 THEN VarError
  ELSE LET r == Repeat(DecodeAddress, Rest(buf, 3), buf[2])
       IN  IF r = VarError THEN VarError ELSE r.items

EncodeReadResponse(items) ==
  FlattenSeq([i \in DOMAIN items |-> EncodeData(items[i].code, 4, items[i].data)])

DecodeReadResponse(buf, count) ==
  LET r == Repeat(DecodeData, buf, count) IN IF r = VarError THEN VarError ELSE r.items

-----------------------------------------------------------------------------
(* Write Var: all addresses, then all data                                 *)

EncodeWrite(items) ==
  <<5, Len(items) % 256>>
    \o FlattenSeq([i \in DOMAIN items |-> EncodeAddress(items[i].address)])
    \o FlattenSeq([i \in DOMAIN items |->
                     EncodeData(0, items[i].address.transport, items[i].data)])

DecodeWrite(buf) ==
  IF Len(buf) < 2 \/ buf[1] # 5 THEN VarError
  ELSE LET a == Repeat(DecodeAddress, Rest(buf, 3), buf[2]) IN
       IF a = VarError THEN VarError
       ELSE LET d == Repeat(DecodeData, a.rest, buf[2]) IN
            IF d = VarError THEN VarError
            ELSE [i \in 1..buf[2] |-> [address |-> a.items[i], data |-> d.items[i].data]]

\* One return code for each item.
DecodeWriteResponse(buf, count) == IF Len(buf) < count THEN VarError ELSE SubSeq(buf, 1, count)
=============================================================================
