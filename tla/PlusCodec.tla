------------------------------ MODULE PlusCodec ------------------------------
(***************************************************************************)
(* Encodings of S7CommPlus (proto/s7commplus): VLQ numbers, frames, data   *)
(* areas, variables of a request and of an answer, and the integrity tail. *)
(*                                                                         *)
(* A fixed field of a message is one element of a sequence, whatever its   *)
(* width; what a width limits (a length, a count, a u32) is a constant.    *)
(* The digest of HMAC-SHA256 is taken as collision-free.                   *)
(***************************************************************************)
EXTENDS Naturals, Sequences

CONSTANTS
  GroupSize,  \* values of a group of a VLQ number, 2^7
  MaxGroups,  \* groups decode_vlq reads, 5
  MaxU32,     \* u32::MAX
  MaxLen,     \* u16::MAX, limit of the data of a frame and of a packet
  CountSize,  \* values of a u8, the width of the count of items
  Error       \* a ProtoError

ASSUME CodecConstants ==
  /\ GroupSize \in Nat \ {0, 1} /\ {MaxGroups, MaxU32, MaxLen, CountSize} \subseteq Nat \ {0}
  /\ MaxU32 < GroupSize ^ MaxGroups

\* The parts one behind the other.
Concat(parts) ==
  LET upto[i \in 0..Len(parts)] == IF i = 0 THEN <<>> ELSE upto[i - 1] \o parts[i]
  IN  upto[Len(parts)]

-----------------------------------------------------------------------------
(* vlq.rs                                                                  *)

\* The groups of a number, the least significant one last.
Groups[v \in Nat] ==
  IF v < GroupSize THEN <<v>> ELSE Append(Groups[v \div GroupSize], v % GroupSize)

\* A byte is its continuation flag and its group.
EncodeVlq(v) ==
  LET g == Groups[v] IN [i \in DOMAIN g |-> [more |-> i < Len(g), group |-> g[i]]]

\* Value and rest of buf, or Error: the buffer ends, the value exceeds a u32, or
\* MaxGroups bytes have their flag set.
DecodeVlq(buf) ==
  LET ends == {i \in DOMAIN buf : ~buf[i].more}
      value[n \in 0..Len(buf)] == IF n = 0 THEN 0 ELSE value[n - 1] * GroupSize + buf[n].group
  IN  IF ends = {} THEN Error
      ELSE LET n == CHOOSE i \in ends : \A j \in ends : i <= j
           IN  IF n > MaxGroups THEN Error
               ELSE IF \E i \in 1..n : value[i] > MaxU32 THEN Error
               ELSE [value |-> value[n], rest |-> SubSeq(buf, n + 1, Len(buf))]

-----------------------------------------------------------------------------
(* frame.rs                                                                *)

Versions == {"V1", "V2", "V3", "KeepAlive"}
FrameHeader(version, len) == <<"0x72", version, len>>

EncodeFrame(version, data) ==
  IF Len(data) > MaxLen THEN Error
  ELSE FrameHeader(version, Len(data)) \o data \o FrameHeader(version, Len(data))

\* Length of the packet a frame travels in: a header of version, reserved and length,
\* and the frame.
PacketLen(len) == 3 + 3 + len + 3

\* Header, data and a trailer equal to the header.
DecodeFrame(buf) ==
  IF Len(buf) < 3 \/ buf[1] # "0x72" \/ buf[2] \notin Versions THEN Error
  ELSE LET len == buf[3] IN
       IF Len(buf) < 3 + len + 3 \/ SubSeq(buf, 3 + len + 1, 3 + len + 3) # SubSeq(buf, 1, 3)
       THEN Error
       ELSE [version |-> buf[2], data |-> SubSeq(buf, 4, 3 + len)]

-----------------------------------------------------------------------------
(* data.rs and session.rs                                                  *)

EncodeDataArea(d) ==
  <<d.opcode, d.fc, d.seqnum, d.session, "flags">> \o d.payload

DecodeDataArea(buf) ==
  IF Len(buf) < 5 THEN Error
  ELSE [opcode |-> buf[1], fc |-> buf[2], seqnum |-> buf[3], session |-> buf[4],
        payload |-> SubSeq(buf, 6, Len(buf))]

Request(fc, seqnum, session, payload) ==
  EncodeDataArea([opcode |-> "request", fc |-> fc, seqnum |-> seqnum, session |-> session,
                  payload |-> payload])

\* CreateObjectRequest, and the request of delete_object.
CreateObject(seqnum) == Request("CreateObject", seqnum, 0, <<"zeros">>)
DeleteObject(seqnum, session) == Request("DeleteObject", seqnum, session, <<>>)

-----------------------------------------------------------------------------
(* multivar.rs                                                             *)

\* The count has one byte.
Count(items) == Len(items) % CountSize

GetMultiVar(seqnum, session, lids) ==
  Request("GetMultiVar", seqnum, session, <<Count(lids)>> \o lids)

SetMultiVar(seqnum, session, items) ==
  Request("SetMultiVar", seqnum, session,
          <<Count(items)>> \o Concat([i \in DOMAIN items |->
                                 <<items[i].lid, Len(items[i].value)>> \o items[i].value]))

\* PLC: the items of an answer.
EncodeItems(items) ==
  Concat([i \in DOMAIN items |-> <<items[i].code, Len(items[i].value)>> \o items[i].value])

\* GetMultiVarResponse::decode of `count` items: return code, length, value.
\* What is behind them is ignored.
DecodeItems(payload, count) ==
  LET Step(acc) ==
        IF acc = Error \/ Len(acc.rest) < 2 \/ Len(acc.rest) < 2 + acc.rest[2] THEN Error
        ELSE [items |-> Append(acc.items, [code |-> acc.rest[1],
                                           value |-> SubSeq(acc.rest, 3, 2 + acc.rest[2])]),
              rest |-> SubSeq(acc.rest, 3 + acc.rest[2], Len(acc.rest))]
      after[i \in 0..count] == IF i = 0 THEN [items |-> <<>>, rest |-> payload] ELSE Step(after[i - 1])
  IN  IF after[count] = Error THEN Error ELSE after[count].items

-----------------------------------------------------------------------------
(* integrity.rs                                                            *)

ComputeDigest(data, key) == <<"digest", data, key>>

\* The tail: VLQ of the id, a marker, the digest of what is before.
AppendIntegrity(buf, key, id) == buf \o EncodeVlq(id) \o <<"0x20", ComputeDigest(buf, key)>>

\* Mutant: the longest number is forgotten.
VlqLengthsShort == 1..(MaxGroups - 1)

VlqLengths == 1..MaxGroups

\* Every length of the number is tried, the shortest first.
VerifyIntegrity(frame, key) ==
  LET End(n) == Len(frame) - (n + 2)
      fits == {n \in VlqLengths :
                 /\ End(n) >= 0 /\ frame[Len(frame) - 1] = "0x20"
                 /\ frame[Len(frame)] = ComputeDigest(SubSeq(frame, 1, End(n)), key)}
  IN  IF fits = {} THEN Error
      ELSE LET n == CHOOSE m \in fits : \A k \in fits : m <= k
           IN  DecodeVlq(SubSeq(frame, End(n) + 1, End(n) + n))
=============================================================================
