----------------------------- MODULE PlusSession -----------------------------
(***************************************************************************)
(* S7PlusClient (plus_client.rs, plus_connection.rs): one connection behind *)
(* a mutex, requests with a sequence number and a session id, answers      *)
(* taken from the stream in the order they come and not compared with      *)
(* either.  There are no timeouts.  Tasks call read_multi_vars,            *)
(* write_multi_vars (db_read and db_write are these with one variable),    *)
(* send_keepalive and delete_object, and may drop a call.                  *)
(*                                                                         *)
(* The PLC is external: it answers the requests of a session in order; it  *)
(* keeps variables by lid.  Messages are records here; PlusCodec has their *)
(* encodings, which TailsRoundTrip and MessagesRoundTrip are about.        *)
(***************************************************************************)
EXTENDS FairQueue, PlusCodec, FiniteSetsExt

CONSTANTS
  Tasks,        \* tasks that share the client
  Calls,        \* Calls[t]: the requests t makes
  SpecLists,    \* what they read: sequences of [db, offset, length]
  WriteLists,   \* what they write: pairs of such a sequence and one of values
  LidOffsets,   \* offsets a lid has room for, 2^12
  LidDbs,       \* the bit of a data block that is always set in a lid, 2^14
  VarLen,       \* bytes of a variable of the PLC
  SeqSize,      \* sequence numbers, 2^16
  SessionIds,   \* session ids the PLC gives out
  PlcVersions,  \* versions it answers with
  KeepAliveAnswered, \* whether PLCs answer a KeepAlive frame
  MaxStream     \* bound: no call begins with so many frames on the way

ASSUME SessionConstants ==
  /\ {LidOffsets, LidDbs, SeqSize} \subseteq Nat \ {0} /\ VarLen \in Nat
  /\ KeepAliveAnswered \subseteq BOOLEAN /\ PlcVersions \subseteq Versions

VARIABLES
  conn,    \* stage of the connection, and PlusConnection: session_id, seqnum, version
  queue,   \* tasks at the mutex, the head owns it
  call,    \* call[t]: the call of t
  up,      \* frames on the way to the PLC
  down,    \* frames on the way to the client
  plc,     \* PLC: session it has given out (0 when there is none), whether it answers KeepAlive
  clean,   \* no call was dropped, no KeepAlive answered
  torn     \* part of a frame was sent or read; what then happens is left open

vars == <<conn, queue, call, up, down, plc, clean, torn>>

NoCall == [op |-> "none", at |-> "idle", specs |-> <<>>, values |-> <<>>, seqnum |-> 0, got |-> <<>>]

Owns(t) == queue # <<>> /\ Head(queue) = t
At(t, x) == call[t].at = x /\ Owns(t)

\* db_lid.  An offset keeps its low bits; the number of a data block loses the one bit
\* that falls on bit 26 of the lid, which the prefix sets anyway.  Bit 27 is free.
DbLid(db, offset) ==
  <<(db % LidDbs) + (db \div (2 * LidDbs)) * 2 * LidDbs, offset % LidOffsets>>

Lids(specs) == [i \in DOMAIN specs |-> DbLid(specs[i].db, specs[i].offset)]

\* zip(specs, values): the shorter one counts.
SetItems(specs, values) ==
  [i \in DOMAIN specs \cap DOMAIN values |->
     [lid |-> DbLid(specs[i].db, specs[i].offset), value |-> values[i]]]

-----------------------------------------------------------------------------
(* plus_connect                                                            *)

\* A frame with a data area.
Message(version, fc, seqnum, session, items) ==
  [version |-> version, fc |-> fc, seqnum |-> seqnum, session |-> session, items |-> items]

Init ==
  /\ conn = [stage |-> "none", session |-> 0, seqnum |-> 0, version |-> "V1"]
  /\ queue = <<>> /\ call = [t \in Tasks |-> NoCall]
  /\ up = <<>> /\ down = <<>>
  /\ plc \in [session : {0}, keepAlive : KeepAliveAnswered]
  /\ clean = TRUE /\ torn = FALSE

PlusConnect ==
  /\ conn.stage = "none"
  /\ conn' = [conn EXCEPT !.stage = "sent"]
  /\ up' = Append(up, Message("V1", "CreateObject", 1, 0, <<>>))
  /\ UNCHANGED <<queue, call, down, plc, clean, torn>>

\* The version of the answer is used from now on, and sequence number 2.
PlusConnected ==
  /\ conn.stage = "sent" /\ down # <<>>
  /\ conn' = [stage |-> "open", session |-> Head(down).session, seqnum |-> 2,
              version |-> Head(down).version]
  /\ down' = Tail(down)
  /\ UNCHANGED <<queue, call, up, plc, clean, torn>>

-----------------------------------------------------------------------------
(* Calls                                                                   *)

Begin(t, c) ==
  /\ conn.stage = "open" /\ call[t].at = "idle"
  /\ c.op \in Calls[t] /\ Len(up) + Len(down) < MaxStream
  /\ call' = [call EXCEPT ![t] = c]
  /\ queue' = Append(queue, t)
  /\ UNCHANGED <<conn, up, down, plc, clean, torn>>

\* An empty list is Ok at once.
CallRead(t) ==
  \E s \in SpecLists :
    s # <<>> /\ Begin(t, [NoCall EXCEPT !.op = "GetMultiVar", !.at = "send", !.specs = s])

CallWrite(t) ==
  \E w \in WriteLists :
    w[1] # <<>> /\ Begin(t, [NoCall EXCEPT !.op = "SetMultiVar", !.at = "send", !.specs = w[1],
                                           !.values = w[2]])

CallOther(t) ==
  \E op \in {"KeepAlive", "DeleteObject"} : Begin(t, [NoCall EXCEPT !.op = op, !.at = "send"])

\* The variables of a request.
ItemsOf(c) ==
  CASE c.op = "GetMultiVar" -> Lids(c.specs)
    [] c.op = "SetMultiVar" -> SetItems(c.specs, c.values)
    [] OTHER -> <<>>

\* The same encoded.
RequestOf(c) ==
  CASE c.op = "GetMultiVar" -> GetMultiVar(conn.seqnum, conn.session, ItemsOf(c))
    [] c.op = "SetMultiVar" -> SetMultiVar(conn.seqnum, conn.session, ItemsOf(c))
    [] c.op = "DeleteObject" -> DeleteObject(conn.seqnum, conn.session)
    [] c.op = "KeepAlive" -> <<>>

\* The data of a frame have a longest length, and so has the packet around the
\* frame, which is the tighter limit.
Fits(c) == PacketLen(Len(RequestOf(c))) <= MaxLen

\* Mutant: a write does not wait for its answer either.
AwaitsReads(op) == op \notin {"KeepAlive", "SetMultiVar"}

\* Mutant: send_keepalive waits for an answer like the others.
AwaitsAll(op) == TRUE

\* send_keepalive returns when its frame is sent.
Awaits(op) == op # "KeepAlive"

\* The sequence number is taken, and wraps, before the request is encoded.
Send(t) ==
  /\ At(t, "send")
  /\ LET c == call[t] IN
     /\ IF c.op = "KeepAlive"
        THEN up' = Append(up, Message("KeepAlive", "none", 0, 0, <<>>)) /\ UNCHANGED conn
        ELSE /\ up' = IF ~Fits(c) THEN up
                      ELSE Append(up, Message(conn.version, c.op, conn.seqnum, conn.session, ItemsOf(c)))
             /\ conn' = [conn EXCEPT !.seqnum = (@ + 1) % SeqSize]
     /\ IF Awaits(c.op) /\ Fits(c)
        THEN call' = [call EXCEPT ![t].at = "recv", ![t].seqnum = conn.seqnum] /\ UNCHANGED queue
        ELSE call' = [call EXCEPT ![t] = NoCall] /\ queue' = Tail(queue)
  /\ UNCHANGED <<down, plc, clean, torn>>

\* A value longer than asked for is cut, a shorter one is handed out as it is; the
\* return code of an item is dropped.
Cut(items, specs) ==
  [i \in DOMAIN specs |-> SubSeq(items[i].value, 1, Min({specs[i].length, Len(items[i].value)}))]

\* recv_plus_data, and what the caller makes of the answer: only read_multi_vars looks
\* into it, and needs as many items as it asked for.
Recv(t) ==
  /\ At(t, "recv") /\ down # <<>>
  /\ LET c == call[t]
         items == Head(down).items
         reads == c.op = "GetMultiVar"
     IN  call' = [call EXCEPT ![t] =
                    IF reads /\ Len(items) < Len(c.specs) THEN NoCall
                    ELSE [c EXCEPT !.at = "ok",
                                   !.got = [answers |-> Head(down).seqnum,
                                            values |-> IF reads THEN Cut(items, c.specs) ELSE <<>>]]]
  /\ down' = Tail(down)
  /\ queue' = Tail(queue)
  /\ UNCHANGED <<conn, up, plc, clean, torn>>

Collect(t) ==
  /\ call[t].at = "ok"
  /\ call' = [call EXCEPT ![t] = NoCall]
  /\ UNCHANGED <<conn, queue, up, down, plc, clean, torn>>

\* The caller drops the call: the guard is released wherever the call is.  While it
\* sends or receives, part of a frame may have gone through.  Bound: one dropped call
\* leaves its answer behind.
Drop(t) ==
  /\ call[t].at = "send" \/ (call[t].at = "recv" /\ clean)
  /\ call' = [call EXCEPT ![t] = NoCall]
  /\ queue' = Without(queue, t)
  /\ clean' = (clean /\ call[t].at = "send")
  /\ torn' \in IF Owns(t) THEN {torn, TRUE} ELSE {torn}
  /\ UNCHANGED <<conn, up, down, plc>>

-----------------------------------------------------------------------------
(* PLC                                                                     *)

\* A variable holds its name VarLen times.  A request outside the session is answered
\* with return codes and no values.
Answer(m) ==
  LET known == m.session = plc.session /\ plc.session # 0
      Item(lid) == [code |-> known, value |-> IF known THEN [i \in 1..VarLen |-> lid] ELSE <<>>]
  IN  Message(m.version, m.fc, m.seqnum, plc.session,
              IF m.fc = "GetMultiVar" THEN [i \in 1..Count(m.items) |-> Item(m.items[i])] ELSE <<>>)

PlcServes ==
  /\ up # <<>>
  /\ up' = Tail(up)
  /\ LET m == Head(up) IN
     \/ /\ m.version = "KeepAlive"
        /\ down' = IF plc.keepAlive THEN Append(down, m) ELSE down
        /\ clean' = (clean /\ ~plc.keepAlive)
        /\ UNCHANGED plc
     \/ /\ m.fc = "CreateObject"
        /\ \E s \in SessionIds, v \in PlcVersions :
             plc' = [plc EXCEPT !.session = s] /\ down' = Append(down, Message(v, m.fc, 1, s, <<>>))
        /\ UNCHANGED clean
     \/ /\ m.version # "KeepAlive" /\ m.fc # "CreateObject"
        /\ plc' = IF m.fc = "DeleteObject" THEN [plc EXCEPT !.session = 0] ELSE plc
        /\ down' = Append(down, Answer(m))
        /\ UNCHANGED clean
  /\ UNCHANGED <<conn, queue, call, torn>>

-----------------------------------------------------------------------------
Next ==
  /\ ~torn
  /\ \/ PlusConnect \/ PlusConnected \/ PlcServes
     \/ \E t \in Tasks :
          CallRead(t) \/ CallWrite(t) \/ CallOther(t) \/ Send(t) \/ Recv(t) \/ Collect(t) \/ Drop(t)

\* The runtime runs every task, and the PLC answers.
Spec ==
  /\ Init /\ [][Next]_vars
  /\ WF_vars(~torn /\ PlcServes)
  /\ \A t \in Tasks : WF_vars(~torn /\ (Send(t) \/ Recv(t)))

-----------------------------------------------------------------------------
(* Properties                                                              *)

InRange(spec) == (spec.db \div LidDbs) % 2 = 0 /\ spec.offset < LidOffsets

\* Answers are told apart by their place in the stream alone.  As long as no call was
\* dropped and no KeepAlive answered, that is enough: a call that returns Ok has the
\* answer to its own request, whatever the other tasks do, and a read has for every
\* variable its own bytes, cut to the length asked for, or none if the PLC refused
\* it.  Beyond 2^12 bytes, or with bit 14 of a data block set, a lid names another one.
AnswersAreOwn ==
  clean /\ ~torn =>
    \A t \in Tasks :
      LET c == call[t] IN
      c.at = "ok" =>
        /\ c.got.answers = c.seqnum
        /\ c.op = "GetMultiVar" =>
             /\ Len(c.got.values) = Len(c.specs)
             /\ \A i \in DOMAIN c.specs :
                  /\ Len(c.got.values[i]) <= c.specs[i].length
                  /\ InRange(c.specs[i]) =>
                       \A j \in DOMAIN c.got.values[i] :
                         c.got.values[i][j] = <<c.specs[i].db, c.specs[i].offset>>

\* There is no timeout, so a call depends on the PLC: if it answers every request, every
\* call returns, dropped calls and refused requests or not, until a frame is torn.
PlusCallsReturn ==
  \A t \in Tasks : call[t].at \in {"send", "recv"} ~> call[t].at \notin {"send", "recv"} \/ torn

\* VLQ numbers and integrity tails survive the way there and back, for every u32 and
\* behind any data: verify_v1v2 finds the id whatever the length of its encoding.
TailsRoundTrip ==
  \A id \in 0..MaxU32, data \in {<<>>} \cup {EncodeVlq(x) : x \in 0..MaxU32} :
    /\ DecodeVlq(EncodeVlq(id) \o data) = [value |-> id, rest |-> data]
    /\ VerifyIntegrity(AppendIntegrity(data, "key", id), "key") = [value |-> id, rest |-> <<>>]
    /\ VerifyIntegrity(AppendIntegrity(data, "key", id), "other") = Error

\* An answer that is encoded and framed is decoded to the same, unless it is too long
\* to be framed; one cut short anywhere is refused.
MessagesRoundTrip ==
  \A v \in Versions, specs \in SpecLists, len \in 0..VarLen :
    LET answer == [i \in DOMAIN specs |-> [code |-> "ok", value |-> [j \in 1..len |-> Lids(specs)[i]]]]
        area == [opcode |-> "response", fc |-> "GetMultiVar", seqnum |-> 1, session |-> 7,
                 payload |-> EncodeItems(answer)]
        frame == EncodeFrame(v, EncodeDataArea(area))
    IN  \/ frame = Error /\ Len(EncodeDataArea(area)) > MaxLen
        \/ /\ DecodeFrame(frame) = [version |-> v, data |-> EncodeDataArea(area)]
           /\ DecodeDataArea(EncodeDataArea(area)) = area
           /\ DecodeItems(area.payload, Len(specs)) = answer
           /\ \A n \in 0..(Len(frame) - 1) : DecodeFrame(SubSeq(frame, 1, n)) = Error
           /\ \A n \in 0..(Len(area.payload) - 1) :
                DecodeItems(SubSeq(area.payload, 1, n), Len(specs)) = Error

\* The encodings depend on no variable: one state is enough.
EncodingsRoundTrip == conn.stage = "none" => TailsRoundTrip /\ MessagesRoundTrip
=============================================================================
