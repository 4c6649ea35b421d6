------------------------------- MODULE Gateway -------------------------------
(***************************************************************************)
(* The OPC-UA gateway (snap7-opcua-gateway): Gateway::run registers the    *)
(* tags, connects to one PLC after the other and spawns a poller for each; *)
(* a poller (PlcPoller::spawn) reads its tags at every tick, puts the      *)
(* values into the address space, tells the subscribers, and applies write *)
(* commands.  The PLCs, the OPC-UA server and the clients are external.    *)
(*                                                                         *)
(* A step of a poller is one exchange with its PLC and what follows it up  *)
(* to the next await.  Addresses come from parse_tag (tag.rs), whose text  *)
(* is taken as already cut into its parts.                                 *)
(***************************************************************************)
EXTENDS Integers, Sequences

CONSTANTS
  Plcs,      \* PLCs
  Configs,   \* configurations: some PLCs in order, by PLC the sequence of its
             \* tags and the commands its users send (none under Gateway::run,
             \* which drops the senders of the write channels at once), and the
             \* PLCs whose connections may fail and whose answers may be late
  Cells,     \* bytes that exist on a PLC: their area, data block and offset
  Bytes,     \* values of a byte
  Names,     \* names of tags
  QueueCap,  \* commands in a write channel, 100 in the code
  MaxLate,   \* bound on the answers that came too late for their requests
  Junk,      \* a part of a tag that is not a number
  Empty      \* Variant::Empty

ASSUME GatewayConstants == QueueCap \in Nat \ {0} /\ MaxLate \in Nat

VARIABLES
  config,   \* the configuration
  stage,    \* of Gateway::run: "new", "starting", "serving", "returned"
  poller,   \* poller[p]: its place in the loop, the tag it polls, `updated`
  writes,   \* writes[p]: the write channel
  mem,      \* PLC: mem[p][<<area, db, offset>>]
  link,     \* link[p]: "up"; "stalled", when the PLC reads no more; "broken"
  late,     \* late[p]: answers on the stream whose requests had timed out
  nodes,    \* the address space: value of the node of each name
  notified  \* the value subscribers were last told

vars == <<config, stage, poller, writes, mem, link, late, nodes, notified>>

-----------------------------------------------------------------------------
(* Tags                                                                    *)

Address(area, db, off, bit, ts) == [area |-> area, db |-> db, off |-> off, bit |-> bit, ts |-> ts]
Invalid == Address("none", 0, 0, 0, "none")

\* Types of a tag of a data block, and of a marker.
DbTypes == [REAL |-> "Real", DWORD |-> "DWord", DINT |-> "DInt", WORD |-> "Word",
            INT |-> "Int", BYTE |-> "Byte"]
MarkerTypes == [B |-> "Byte", W |-> "Word", D |-> "DWord"]

\* <byte>.<bit>
BitAddress(area, db, off, bit) ==
  IF Junk \in {off, bit} \/ bit > 7 THEN Invalid ELSE Address(area, db, off, bit, "Bit")

\* T<n>, C<n>
IndexAddress(area, off) == IF off = Junk THEN Invalid ELSE Address(area, 0, off, 0, area)

\* parse_marker_tag: MX<byte>.<bit>, M<byte>.<bit>, MB, MW, MD.
MarkerAddress(s) ==
  IF s.type \in {"X", ""} THEN BitAddress("Marker", 0, s.off, s.bit)
  ELSE IF s.type \notin DOMAIN MarkerTypes \/ s.off = Junk THEN Invalid
  ELSE Address("Marker", 0, s.off, 0, MarkerTypes[s.type])

\* parse_typed_offset: an offset that is not a number is 0.
TypedAddress(db, type, off) ==
  IF type \notin DOMAIN DbTypes THEN Invalid
  ELSE Address("DB", db, IF off = Junk THEN 0 ELSE off, 0, DbTypes[type])

ParseTag(s) ==
  CASE s.area = "T" -> IndexAddress("Timer", s.off)
    [] s.area = "C" -> IndexAddress("Counter", s.off)
    [] s.area = "M" -> MarkerAddress(s)
    [] s.area = "DB" /\ s.db # Junk /\ s.type = "" -> BitAddress("DB", s.db, s.off, s.bit)
    [] s.area = "DB" /\ s.db # Junk -> TypedAddress(s.db, s.type, s.off)
    [] OTHER -> Invalid

\* TagRegistry::from_specs.
Registry(p) ==
  [i \in DOMAIN config.tags[p] |->
     [name |-> config.tags[p][i].name, writable |-> config.tags[p][i].writable,
      address |-> ParseTag(config.tags[p][i])]]

Malformed == \E p \in Plcs : \E i \in DOMAIN Registry(p) : Registry(p)[i].address = Invalid

\* transport_size_bytes; 0 stands for a type without a known size.
TransportSizeBytes(ts) ==
  CASE ts \in {"Real", "DWord", "DInt"} -> 4
    [] ts \in {"Word", "Int"} -> 2
    [] ts \in {"Byte", "Bit"} -> 1
    [] OTHER -> 0

\* db_read and db_write are given the data block, the byte and the bytes: area
\* and bit of the address do not matter.
CellsAt(a, len) == [i \in 1..len |-> <<"DB", a.db, a.off + i - 1>>]
TagCells(a) == CellsAt(a, TransportSizeBytes(a.ts))
Exists(cells) == \A i \in DOMAIN cells : cells[i] \in Cells

\* bytes_to_variant, for as many bytes as the type needs or more, and
\* variant_to_bytes.  A number stands for its bytes.
BytesToVariant(bytes, ts) ==
  <<ts, IF ts = "Bit" THEN bytes[1] # 0 ELSE SubSeq(bytes, 1, TransportSizeBytes(ts))>>
VariantToBytes(v) == IF v[1] = "Bit" THEN <<IF v[2] THEN 1 ELSE 0>> ELSE v[2]

-----------------------------------------------------------------------------
(* Gateway::new and Gateway::run                                           *)

Idle == [at |-> "unborn", tag |-> 0, updated |-> <<>>]

Init ==
  /\ config \in Configs
  /\ stage = "new"
  /\ poller = [p \in Plcs |-> Idle]
  /\ writes = [p \in Plcs |-> <<>>]
  /\ mem = [p \in Plcs |-> [c \in Cells |-> 0]]
  /\ link = [p \in Plcs |-> "up"] /\ late = [p \in Plcs |-> <<>>]
  /\ nodes = [n \in Names |-> Empty] /\ notified = [n \in Names |-> Empty]

\* A malformed tag is an error; otherwise the tags are registered, with
\* Variant::Empty (register_tag_entry).
NewGateway ==
  /\ stage = "new"
  /\ stage' = IF Malformed THEN "returned" ELSE "starting"
  /\ UNCHANGED <<config, poller, writes, mem, link, late, nodes, notified>>

\* connect(p) succeeds and p is handed to a poller, or it fails and run
\* returns the error.
ConnectPlc(p) ==
  /\ stage = "starting"
  /\ \E i \in DOMAIN config.order :
       /\ config.order[i] = p /\ poller[p].at = "unborn"
       /\ \A j \in 1..(i - 1) : poller[config.order[j]].at # "unborn"
       /\ \/ /\ poller' = [poller EXCEPT ![p].at = "select"]
             /\ stage' = IF i = Len(config.order) THEN "serving" ELSE stage
          \/ /\ stage' = "returned"
             /\ UNCHANGED poller
  /\ UNCHANGED <<config, writes, mem, link, late, nodes, notified>>

\* server.run() returns.  With run ends shutdown_tx; nobody sends on it.
ServerEnds ==
  /\ stage = "serving"
  /\ stage' = "returned"
  /\ UNCHANGED <<config, poller, writes, mem, link, late, nodes, notified>>

-----------------------------------------------------------------------------
(* Exchanges                                                               *)

\* What a PLC answers to a read and to a write; it refuses what does not exist.
ReadAnswer(p, cells) ==
  [of |-> "read", ok |-> Exists(cells),
   bytes |-> IF Exists(cells) THEN [i \in DOMAIN cells |-> mem[p][cells[i]]] ELSE <<>>]
WriteAnswer(cells) == [of |-> "write", ok |-> Exists(cells), bytes |-> <<>>]

Outcomes == {"answered", "late", "lost"}

\* recv_s7 takes the first answer on the stream and does not look whether it is
\* that of the request.
Taken(p, answer) == Head(Append(late[p], answer))

\* A request is answered in time, or it times out and its answer comes later, or
\* none comes, as on a broken connection.  A write to a stalled one does not end.
Exchange(p, answer, outcome) ==
  \/ /\ outcome = "answered" /\ link[p] = "up"
     /\ late' = [late EXCEPT ![p] = Tail(Append(@, answer))]
  \/ /\ outcome = "late" /\ link[p] = "up" /\ p \in config.weak /\ Len(late[p]) < MaxLate
     /\ late' = [late EXCEPT ![p] = Append(@, answer)]
  \/ outcome = "lost" /\ link[p] # "stalled" /\ UNCHANGED late

-----------------------------------------------------------------------------
(* The loop of a poller                                                    *)

\* ticker.tick(): first the pending writes.
Tick(p) ==
  /\ poller[p].at = "select"
  /\ poller' = [poller EXCEPT ![p].at = "drain"]
  /\ UNCHANGED <<config, stage, writes, mem, link, late, nodes, notified>>

\* shutdown.changed(): a value was sent, or the sender is gone.
ShutdownSeen(p) ==
  /\ poller[p].at = "select" /\ stage = "returned"
  /\ poller' = [poller EXCEPT ![p].at = "stopped"]
  /\ UNCHANGED <<config, stage, writes, mem, link, late, nodes, notified>>

\* Mutant: any variant may be written to any tag.
AcceptsAnyType(e, v) == e.writable

\* The tag is writable and the variant has its type.
Accepts(e, v) == e.writable /\ v[1] = e.address.ts

\* apply_write: the first entry with the name; its bytes are written, and the
\* node is set when the answer taken is a success, of a read or of a write.
\* A write whose caller sees no answer may have been done.
ApplyWrite(p, cmd, outcome) ==
  LET hits == {i \in DOMAIN Registry(p) : Registry(p)[i].name = cmd.name}
      first == CHOOSE i \in hits : \A j \in hits : i <= j
      e == Registry(p)[first]
      bytes == VariantToBytes(cmd.variant)
      cells == CellsAt(e.address, Len(bytes))
      written == [c \in Cells |-> IF \E i \in DOMAIN cells : cells[i] = c
                                  THEN bytes[CHOOSE i \in DOMAIN cells : cells[i] = c]
                                  ELSE mem[p][c]]
  IN  IF hits = {} \/ ~Accepts(e, cmd.variant) THEN UNCHANGED <<mem, nodes, late>>
      ELSE /\ Exchange(p, WriteAnswer(cells), outcome)
           /\ \/ outcome = "lost" /\ UNCHANGED mem
              \/ link[p] = "up" /\ ~Exists(cells) /\ UNCHANGED mem
              \/ link[p] = "up" /\ Exists(cells) /\ mem' = [mem EXCEPT ![p] = written]
           /\ nodes' = IF outcome = "answered" /\ Taken(p, WriteAnswer(cells)).ok
                       THEN [nodes EXCEPT ![cmd.name] = cmd.variant] ELSE nodes

\* A command from the channel, between two polls or while draining.
TakeWrite(p, outcome) ==
  /\ poller[p].at \in {"select", "drain"} /\ writes[p] # <<>>
  /\ ApplyWrite(p, Head(writes[p]), outcome)
  /\ writes' = [writes EXCEPT ![p] = Tail(@)]
  /\ UNCHANGED <<config, stage, poller, link, notified>>

\* try_recv finds nothing; poll_once begins.
Drained(p) ==
  /\ poller[p].at = "drain" /\ writes[p] = <<>>
  /\ poller' = [poller EXCEPT ![p] = [at |-> "poll", tag |-> 1, updated |-> <<>>]]
  /\ UNCHANGED <<config, stage, writes, mem, link, late, nodes, notified>>

\* Mutant: only values that differ from the node are passed on.
UpdatedIfChanged(updated, name, value) ==
  IF nodes[name] = value THEN updated ELSE Append(updated, <<name, value>>)

Updated(updated, name, value) == Append(updated, <<name, value>>)

Asleep == [at |-> "sleep", tag |-> 0, updated |-> <<>>]

\* poll_once reads the next tag, or skips one without a known size.  Too few bytes
\* are no value.  When the read fails poll_once returns the error, and `updated` is
\* lost.
PollTag(p, outcome) ==
  /\ poller[p].at = "poll" /\ poller[p].tag \in DOMAIN Registry(p)
  /\ LET e == Registry(p)[poller[p].tag]
         next == [poller EXCEPT ![p].tag = @ + 1]
         size == TransportSizeBytes(e.address.ts)
         got == Taken(p, ReadAnswer(p, TagCells(e.address)))
         value == BytesToVariant(got.bytes, e.address.ts)
     IN  IF size = 0 THEN poller' = next /\ UNCHANGED <<nodes, late>>
         ELSE /\ Exchange(p, ReadAnswer(p, TagCells(e.address)), outcome)
              /\ IF outcome # "answered" \/ got.of # "read" \/ ~got.ok
                 THEN poller' = [poller EXCEPT ![p] = Asleep] /\ UNCHANGED nodes
                 ELSE IF Len(got.bytes) < size THEN poller' = next /\ UNCHANGED nodes
                 ELSE /\ nodes' = [nodes EXCEPT ![e.name] = value]
                      /\ poller' = [next EXCEPT ![p].updated = Updated(@, e.name, value)]
  /\ UNCHANGED <<config, stage, writes, mem, link, notified>>

\* notify_subscriptions: in the order of the tags.
Notify(p) ==
  /\ poller[p].at = "poll" /\ poller[p].tag = Len(config.tags[p]) + 1
  /\ LET u == poller[p].updated
         For(n) == {i \in DOMAIN u : u[i][1] = n}
     IN  notified' = [n \in Names |-> IF For(n) = {} THEN notified[n]
                                      ELSE u[CHOOSE i \in For(n) : \A j \in For(n) : j <= i][2]]
  /\ poller' = [poller EXCEPT ![p] = [at |-> "select", tag |-> 0, updated |-> <<>>]]
  /\ UNCHANGED <<config, stage, writes, mem, link, late, nodes>>

\* Mutant: after an error the poll is retried without going through select!.
WakeRetries(p) ==
  /\ poller[p].at = "sleep"
  /\ poller' = [poller EXCEPT ![p].at = "drain"]
  /\ UNCHANGED <<config, stage, writes, mem, link, late, nodes, notified>>

\* sleep(2 s) after an error.
Wake(p) ==
  /\ poller[p].at = "sleep"
  /\ poller' = [poller EXCEPT ![p].at = "select"]
  /\ UNCHANGED <<config, stage, writes, mem, link, late, nodes, notified>>

-----------------------------------------------------------------------------
(* Surroundings                                                            *)

\* The bytes that an address means.
OwnCells(a) == [i \in DOMAIN TagCells(a) |-> <<a.area, a.db, a.off + i - 1>>]

\* The program of the PLC writes to a byte of a tag.
PlcChanges(p) ==
  /\ \E i \in DOMAIN Registry(p), b \in Bytes :
       LET cells == OwnCells(Registry(p)[i].address) IN
       Exists(cells) /\ \E j \in DOMAIN cells : mem' = [mem EXCEPT ![p][cells[j]] = b]
  /\ UNCHANGED <<config, stage, poller, writes, link, late, nodes, notified>>

\* The PLC stops reading, or the connection is lost.  Nothing in the gateway sets
\* up another one.
LinkFails(p) ==
  /\ p \in config.weak
  /\ \/ link[p] = "up" /\ link' = [link EXCEPT ![p] = "stalled"]
     \/ link[p] # "broken" /\ link' = [link EXCEPT ![p] = "broken"]
  /\ UNCHANGED <<config, stage, poller, writes, mem, late, nodes, notified>>

SendWrite(p) ==
  /\ Len(writes[p]) < QueueCap /\ poller[p].at # "unborn"
  /\ \E cmd \in config.commands[p] : writes' = [writes EXCEPT ![p] = Append(@, cmd)]
  /\ UNCHANGED <<config, stage, poller, mem, link, late, nodes, notified>>

-----------------------------------------------------------------------------
Loop(p) ==
  \/ Tick(p) \/ Drained(p) \/ Notify(p) \/ Wake(p) \/ ShutdownSeen(p)
  \/ \E outcome \in Outcomes : TakeWrite(p, outcome) \/ PollTag(p, outcome)

Next ==
  \/ NewGateway \/ ServerEnds
  \/ \E p \in Plcs :
       ConnectPlc(p) \/ Loop(p) \/ PlcChanges(p) \/ LinkFails(p) \/ SendWrite(p)

\* The runtime runs every poller, reads end with an answer or a timeout, and
\* select! chooses among the ready branches at random.
Spec ==
  /\ Init /\ [][Next]_vars
  /\ \A p \in Plcs : WF_vars(Loop(p)) /\ SF_vars(ShutdownSeen(p))

-----------------------------------------------------------------------------
(* Properties                                                              *)

\* What a PLC holds at an address: bytes, or one bit of a byte.
Denoted(p, a) ==
  LET bytes == [i \in DOMAIN OwnCells(a) |-> mem[p][OwnCells(a)[i]]] IN
  <<a.ts, IF a.ts = "Bit" THEN (bytes[1] \div 2^a.bit) % 2 = 1 ELSE bytes>>

\* "A mismatch means wrong byte width, which would corrupt adjacent PLC
\* memory": whatever stale answers are about, a command changes bytes of one writable
\* tag of its PLC only, and a tag of whole bytes then holds what was written.
\* apply_write ignores the bit of an address: of a bit tag the whole byte is
\* overwritten, with 0 or 1, whichever bit the tag is.
WritesStayInTag ==
  [][\A p \in Plcs :
       (\E outcome \in Outcomes : TakeWrite(p, outcome)) /\ mem'[p] # mem[p] =>
         \E i \in DOMAIN Registry(p) :
           LET e == Registry(p)[i]
               own == OwnCells(e.address)
               v == Head(writes[p]).variant
           IN  /\ e.writable /\ e.name = Head(writes[p]).name
               /\ \A c \in Cells \ {own[j] : j \in DOMAIN own} : mem'[p][c] = mem[p][c]
               /\ IF e.address.ts = "Bit" THEN mem'[p][own[1]] = IF v[2] THEN 1 ELSE 0
                  ELSE Denoted(p, e.address)' = v]_vars

\* What a poller does while a PLC that is there answers in time.
Works(p) ==
  \/ Tick(p) \/ Drained(p) \/ Notify(p) \/ Wake(p)
  \/ LET expected == IF link[p] = "broken" THEN "lost" ELSE "answered" IN
     TakeWrite(p, expected) \/ PollTag(p, expected)

\* From some time on nothing happens but pollers at work.
Settled == <>[][\E p \in Plcs : Works(p)]_vars

\* The poller runs, its connection works, no timeout has left an answer on the stream
\* and every tag is a place that exists in a data block.
InStep(p) ==
  /\ link[p] = "up" /\ late[p] = <<>> /\ poller[p].at \notin {"unborn", "stopped"}
  /\ \A i \in DOMAIN Registry(p) : Exists(TagCells(Registry(p)[i].address))
OnlyIn(p, n) ==
  /\ \A q \in Plcs \ {p} : \A i \in DOMAIN config.tags[q] : config.tags[q][i].name # n
  /\ \A i, j \in DOMAIN config.tags[p] : config.tags[p][i].name = n /\ config.tags[p][j].name = n => i = j

\* poll_once takes a bit for set when its byte is not 0: right for a byte in which
\* no other bit is set.
Crowded(p, a) ==
  a.ts = "Bit" /\ mem[p][OwnCells(a)[1]] \notin {0, 2^a.bit}

\* Whatever happened before (failed polls that dropped `updated`, writes that
\* set a node and notify nobody, other PLCs that are gone or refuse), once the PLCs
\* keep their values the address space and the subscribers come to have them: for
\* PLCs that are in step, and names that only one tag has.
SubscribersCatchUp ==
  Settled =>
    \A p \in Plcs :
      <>[](InStep(p) =>
             \A i \in DOMAIN Registry(p) :
               LET e == Registry(p)[i] IN
               OnlyIn(p, e.name) /\ TransportSizeBytes(e.address.ts) # 0 /\ ~Crowded(p, e.address) =>
                 nodes[e.name] = Denoted(p, e.address) /\ notified[e.name] = Denoted(p, e.address))

\* When Gateway::run returns, also because a later PLC could not be reached,
\* every poller ends, broken connection or not, once no more commands come:
\* draining the channel has no bound of its own.  A PLC that keeps the connection
\* and reads no more holds its poller for ever, since a write has no timeout.
PollersEnd ==
  \A p \in Plcs :
    <>[](writes[p] = <<>>) /\ []<>(link[p] # "stalled") =>
      (stage = "returned" ~> poller[p].at \in {"unborn", "stopped"})
=============================================================================
