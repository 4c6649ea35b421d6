------------------------------ MODULE IsoCodec ------------------------------
(***************************************************************************)
(* The envelopes of S7: TPKT (tpkt.rs), COTP (cotp.rs), the S7 header      *)
(* (header.rs) and the negotiation (negotiate.rs).  As in PlusCodec a      *)
(* field is one element of a sequence, whatever its width.                 *)
(***************************************************************************)
EXTENDS Integers, Sequences

CONSTANTS
  MaxFrame,   \* u16::MAX, longest TPKT frame
  ProtoError  \* result of a decoder that fails

-----------------------------------------------------------------------------
(* TPKT                                                                    *)

EncodeTpkt(payload) ==
  IF 3 + Len(payload) > MaxFrame THEN ProtoError ELSE <<3, 0, 3 + Len(payload)>> \o payload

\* Payload and rest.
DecodeTpkt(buf) ==
  IF Len(buf) < 3 \/ buf[1] # 3 \/ buf[3] < 3 \/ Len(buf) < buf[3] THEN ProtoError
  ELSE [payload |-> SubSeq(buf, 4, buf[3]), rest |-> SubSeq(buf, buf[3] + 1, Len(buf))]

-----------------------------------------------------------------------------
(* COTP                                                                    *)

CR == 224
CC == 208
DT == 240
ER == 112

\* Mutant: rack and slot overlap in the TSAP.
TsapNarrow(rack, slot) == (rack % 8) * 16 + (slot % 32)

\* dst_tsap: three bits of the rack and five of the slot.
Tsap(rack, slot) == (rack % 8) * 32 + (slot % 32)

\* Parameters of a connect request: source and destination TSAP, TPDU size.
CrParams(rack, slot) == <<193, 2, 1, 0, 194, 2, 1, Tsap(rack, slot), 192, 1, 10>>

\* What is sent: a request names a rack and a slot that fit into its TSAP.
CotpPdus ==
  [code : {CR}, dst : Nat, src : Nat, rack : 0..7, slot : 0..31] \cup [code : {CC}, dst : Nat, src : Nat]
    \cup [code : {DT}, nr : 0..127, last : BOOLEAN, payload : Seq(Nat)]
    \cup [code : {ER}, dst : Nat, src : Nat, cause : Nat]

EncodeCotp(pdu) ==
  CASE pdu.code = CR -> <<17, CR, pdu.dst, pdu.src, 0>> \o CrParams(pdu.rack, pdu.slot)
    [] pdu.code = CC -> <<6, CC, pdu.dst, pdu.src, 0>>
    [] pdu.code = DT -> <<2, DT, (pdu.nr % 128) + (IF pdu.last THEN 128 ELSE 0)>> \o pdu.payload
    [] pdu.code = ER -> <<6, ER, pdu.dst, pdu.src, pdu.cause>>

\* The value of the last parameter 194 of two bytes or more, as far as the parameters
\* can be read: they are walked while three bytes are left.
NoTsap == -1
LastTsap(params) ==
  LET end == Len(params) + 1
      walk[i \in 1..end] ==
        IF end - i < 3 \/ end - (i + 2) < params[i + 1] THEN NoTsap
        ELSE LET later == walk[i + 2 + params[i + 1]]
             IN  IF params[i] = 194 /\ params[i + 1] >= 2 /\ later = NoTsap
                 THEN params[i + 3] ELSE later
  IN  walk[1]

\* Rack and slot are 0 unless such a parameter sets them.
TsapIn(params) == IF LastTsap(params) = NoTsap THEN 0 ELSE LastTsap(params)

DecodeCotp(buf) ==
  IF Len(buf) < 2 THEN ProtoError
  ELSE CASE buf[2] = CR /\ Len(buf) >= 5 ->
              LET tsap == TsapIn(SubSeq(buf, 6, Len(buf))) IN
              [code |-> CR, dst |-> buf[3], src |-> buf[4], rack |-> tsap \div 32, slot |-> tsap % 32]
         [] buf[2] = CC /\ Len(buf) >= 5 -> [code |-> CC, dst |-> buf[3], src |-> buf[4]]
         [] buf[2] = DT /\ Len(buf) >= 3 ->
              [code |-> DT, nr |-> buf[3] % 128, last |-> buf[3] >= 128,
               payload |-> SubSeq(buf, 4, Len(buf))]
         [] buf[2] = ER /\ Len(buf) >= 4 ->
              [code |-> ER, dst |-> buf[3], src |-> buf[4],
               cause |-> IF Len(buf) >= 5 THEN buf[5] ELSE 0]
         [] OTHER -> ProtoError

-----------------------------------------------------------------------------
(* S7 header and negotiation                                               *)

Job == 1
Ack == 2
AckData == 3
UserData == 7
PduTypes == {Job, Ack, AckData, UserData}

\* Error class and code are there in an answer.
EncodeHeader(h) == <<50, h.type, 0, h.ref, h.plen, h.dlen>> \o h.error

DecodeHeader(buf) ==
  IF Len(buf) < 6 \/ buf[1] # 50 \/ buf[2] \notin PduTypes THEN ProtoError
  ELSE LET errors == IF buf[2] \in {Ack, AckData} /\ Len(buf) >= 8 THEN 2 ELSE 0
       IN  [header |-> [type |-> buf[2], ref |-> buf[4], plen |-> buf[5], dlen |-> buf[6],
                        error |-> SubSeq(buf, 7, 6 + errors)],
            rest |-> SubSeq(buf, 7 + errors, Len(buf))]

\* Request and answer have the same form: calling, called, PDU length.
EncodeNegotiate(n) == <<240, 0, n.calling, n.called, n.pdu>>

DecodeNegotiate(buf) ==
  IF Len(buf) < 5 \/ buf[1] # 240 THEN ProtoError
  ELSE [calling |-> buf[3], called |-> buf[4], pdu |-> buf[5]]
=============================================================================
