# rs-snap7: TLA+ models and proofs

This directory models the concurrent and protocol-level behaviour of rs-snap7,
the Rust implementation of the Siemens S7 protocol (client, PLC simulator,
partner, OPC-UA gateway). TLC checks the models on small instances and TLAPS
proves the main safety properties for all instances. `PROJECT.json` lists the
components, the runs, the source lines of every definition, the hazards that the
properties aim at, and the theorems.

## Inventory of the system

| Part | State | Operations | What makes it hard | Module |
|---|---|---|---|---|
| Connection pool (`pool.rs`) | semaphore, idle queue, guards | `acquire`, drop of a guard | idle queue outside the semaphore; errors, timeouts and cancellation on the way | `S7Pool` |
| Client session (`client.rs`) | mutex, transport, `pdu_ref`, `connected` | exchanges, `reconnect` | late answers, dropped futures, a stream out of step | `S7Session` |
| Multi-variable calls (`client.rs`) | position, byte budgets | `read_multi_vars`, `write_multi_vars` | boundaries of the PDU size, failure half way | `MultiVars`, `VarCodec` |
| Calls of several exchanges (`client.rs`) | chunk or page, blocks read so far | upload, full upload, download, create, list, compare, fill, force | mutex released between exchanges by some, refusal half way, dropped calls | `BlockOps`, `BlockStore` |
| Queries (`client.rs`, `clock.rs`, `szl.rs`, `dispatch.rs`) | the clock | clock, SZL, block and CPU information | layouts client and server must agree on, guards on lengths | `Queries` |
| Handshakes (`connection.rs`, `handshake.rs`) | negotiated PDU size | `connect`, `server_handshake` | no timeouts, peers that send what they like | `Handshake`, `IsoCodec` |
| Accept loop (`server.rs`) | semaphore, tasks, client count | `serve`, connection tasks | permits across accept errors and failed handshakes | `S7Server` |
| Dispatch loop (`dispatch.rs`) | request in progress | one branch per request type | pipelined requests, many connections on one store | `Dispatch` |
| Data store (`store.rs`) | bytes, locks, CPU state, clock, callbacks | read, write, lock, unregister, callbacks | callbacks run outside the lock | `DataStore` |
| Partner (`partner.rs`) | stream, call in progress | `connect`, `accept`, `bsend`, `brecv` | slices and acknowledgements share one stream with no timeouts | `Partner`, `BulkTransfer` |
| S7CommPlus (`plus_client.rs`, `s7commplus/`) | session id, sequence number | multi-var calls, keep-alive, delete | answers told apart by their place only, no timeouts | `PlusSession`, `PlusCodec` |
| OPC-UA gateway | tags, write channel, address space, shutdown | start, poll, write, notify, stop | errors without reconnect, several PLCs, commands and polls on one connection | `Gateway` |
| Transports, CLI, benchmarks | none of interest | I/O, parsing, printing | | not modelled |

How they interact: the pool lends client sessions; a session talks to a PLC or to
the server's dispatch loop over TCP, after a handshake; every connection of the
server works on the one store, which the application also uses directly; the
gateway polls through a session; partners talk to each other.

## Modules and how they correspond to the code

**Common.** `FairQueue` is the wait queue that tokio's `Semaphore` and `Mutex` share:
arrival order, and a dropped future leaves from wherever it stands. It is modelled
from the way the code uses tokio.

**Client.**

* **S7Pool**. A step is a section under the pool's `std::sync::Mutex` or an
  operation of the semaphore. `pc[t]` follows a task through `acquire` and through
  the drop of its guard, which returns the connection first (`ReturnConn`) and the
  permit afterwards (`ReturnPermit`, the order in which Rust drops the body of
  `drop` and then the fields). `CancelWaiting` and `CancelWithPermit` drop the
  future at its await points.
* **S7Session**. Tasks queue at the mutex; the head owns it. An operation is one or
  more exchanges (`Send`, `ReadHeader`, `ReadPayload`) under the lock. The PLC
  answers in order, late or never, and an answer may be cut between the TPKT header
  and the rest; a reader that is out of step takes payload bytes for a header
  (`Swallow`). A frame whose length is below four, or whose rest is no COTP Data PDU with
  an S7 header, is consumed and ends the operation with `UnexpectedResponse`
  (`Unexpected`). A peer may stop reading (`Stall`): `write_all` then waits, with the mutex
  held and no timeout. `DropFuture` drops an operation at any await. `reconnect` dials without
  the lock and replaces the whole of `Inner` under it (`Swap`). Request contents are
  abstracted to an identity, and `last` records what the last exchange asked, got and
  could know.
* **MultiVars** models both batching loops with the byte counts they compute; an
  item is its length. Two variants (read and write) share the loop. **VarCodec** has
  the requests and responses of ReadVar and WriteVar as sequences of bytes, with
  padding and the 16-bit length in bits, so that the counts can be compared with what
  is sent.
* **BlockOps**. A step is one exchange and what the caller makes of its answer;
  what lies inside an exchange is `S7Session`'s matter. `upload`, `full_upload` and
  `download` keep the mutex from their first exchange to their last (`Holding`);
  listing, comparing, filling and forcing take it anew. The PLC (external) keeps blocks,
  serves them in chunks, lists them in pages that end where it likes, may refuse any
  request, and either deletes or uploads when it gets function 0x1F. It sends some blocks
  behind a data header and others without (`Bare`), and answers of several lengths to the
  start of an upload (`StartLens`), of which those of 8 and 9 bytes make the code panic. A
  call that times out or is dropped while it waits leaves its answer to whoever reads next:
  `astray` says so, and from then on an exchange may fail, return or go on with any bytes
  (`Stray`, followed for `MaxStray` exchanges). The code promises nothing there and the
  properties speak of the time before (`InStep`). **BlockStore** is the promise behind the
  transfers: blocks are read and installed whole while answers can be trusted. `BlockOps`
  refines it; the mapping hides chunks and ids and shows what has been offered and read. A
  block is read as it is unless it comes without a data header and its first byte looks like
  one; then four bytes and all after the first chunk are lost (`AsRead`).
* **Queries** has the requests of the clock, SZL, CP, protection, module and block
  queries, the parsers of their answers, and the server's handlers for them
  (`handle_user_data`, `handle_clock_user_data`, `handle_szl_user_data`), as operators.
  Where the code would index or read past the end the result is `Panic`; where it falls
  back to scanning for printable text it is `Guess`.
* **PlusSession** and **PlusCodec**. A call draws a sequence number, sends, and takes the
  next frame of the stream. The codec has VLQ numbers, integrity tails, frames, data
  areas and items; the HMAC is an abstract digest. A request has to fit a TPKT frame,
  which is a tighter limit than that of the frame inside it (`Fits`). An item that the
  PLC refuses is returned as Ok with no bytes, as the code does.

**Server.**

* **IsoCodec** has TPKT, COTP, the S7 header and the negotiation, with their length
  checks. **Handshake** composes `connect` with `server_handshake` inside the connections of
  **S7Server**, which models `serve` and the spawned task from `client_connected` to the
  drop of its permit, with the kernel's queue of connections. Every step of
  `Handshake` is a step of `S7Server` or leaves its variables alone.
* **DataStore** and **Dispatch**, which extends it. A section under the store's mutex is
  a step; an access is followed by the two sections of `fire_*` that take the callback
  list out and put it back. Requests are processed item by item. A request is its kind:
  a frame that ends the loop, a header that does not decode, a refused body or
  function, a control or password request, a query (its answer is in `Queries`), a
  clock setting, a read, a write. An answer to a read that is longer than a TPKT frame
  (`MaxBody`) is not sent and ends the loop; a peer that does not read holds it up
  (`PeerStalls`).

**Partner.** `Partner` models two peers from connect and accept on; `wire[p]` holds the
frames on their way to `p`. `BulkTransfer` is what a partner promises: whole messages,
once, in order, and Ok only for a message that arrived. `Partner` refines it with the
identity mapping on the three history variables. An empty message has no slices: its
`bsend` returns Ok at once and sends nothing, so it is neither offered nor delivered.

**Gateway.** `Gateway::run` registers the tags, connects to one PLC after the other and
spawns a poller for each. A step of a poller is one exchange and what follows it up to
the next await: a read that fails drops the values collected so far, a write sets the
node and notifies nobody. A request may be answered in time, too late for its timeout, or
never; a late answer stays on the stream (`late`) and is taken for that of the next request,
since `recv_s7` compares nothing. `db_read` and `db_write` are given data block and byte
only: a marker is looked for in data block 0, a bit tag is its whole byte. `OwnCells` is
what an address means and `TagCells` what the poller accesses. Addresses come from `parse_tag` with its text already cut into
parts. Under `Gateway::run` no commands come, because it drops the senders; the runs
also look at pollers whose senders live.

The `MC*` modules give the constants their values, and `MCDispatch` states the
properties of `Queries`. The `*Proofs` modules hold the theorems.

Definitions marked `Mutant` are plausible mistakes in the code (a dropped guard, an
off-by-one, a missing release). No specification uses them: each property has one
that violates it when it replaces the definition it is a variant of.

## Runs

| Run | Instance | Shows |
|---|---|---|
| `pool` | 4 tasks, 3 connections, size 2 | bound on connections, permits conserved; a blocked `acquire` ends |
| `session` | 2 tasks, 3 requests, 2 reconnects, references modulo 3 | a client that is connected, and whose futures were not dropped, returns the right answer; nothing crosses a reconnect; stale answers differ in `pdu_ref`; every operation ends unless the peer stops reading for good |
| `multi_vars` | all lists of up to 4 of 4 lengths, and 21 items; 4 PDU sizes | batches partition the items, requests fit and responses fit but for two bytes, exchanges are as few as possible; Ok means all; the encoders send the bytes that were counted, up to 8191 of data, and the server decodes what was sent, but for the numbers of timers and counters |
| `server` | 2 clients, a foreign peer, 1 permit | permits and client count exact; both sides agree on the PDU size; frames round-trip; `connect` returns |
| `dispatch` | 2 connections and the application, 1 area of 2 bytes; dates, tables and replies of up to 90 bytes | answers in order, no torn item, locked areas frozen, every request answered to a peer that reads, up to one that ends the loop; the clock reads back; tables are understood; queries return |
| `partner` | 2 peers taking turns, 2 sends each, slices of 2 bytes | the handshake ends while the connection is up; refinement of `BulkTransfer`; a `bsend` that hangs waits for an application in no call or on a silent connection |
| `block_ops` | 2 tasks, 2 blocks, chunks of 4 bytes, pages of 1 number | until an answer is left behind: transfers refine `BlockStore`; lists, comparisons, fills and forces are right when undisturbed; every call returns or panics |
| `gateway` | 2 PLCs, 7 configurations | writes stay within the bytes of their tag; subscribers of PLCs in step catch up; pollers end unless their PLC stops reading |
| `plus` | 2 tasks, sequence numbers modulo 2, lids with one bit of offset | undisturbed calls have their own answers; calls return while the PLC answers; encodings round-trip |
| `store_callbacks` | 2 threads, 1 callback | **violated**: a registered callback can be lost |
| `partner_any_order` | 2 peers, 1 send each | **violated**: crossing `bsend`s return Ok undelivered |
| `full_upload_deletes` | as `block_ops`, a PLC that deletes on 0x1F | **violated**: `full_upload` deletes the block |

The three violations, and other places where a property had to be stated with an
exception because the code differs from a comment, are quoted under `findings` in
`PROJECT.json`. Among the latter: the two bytes by which a response may exceed the PDU;
`force_bit` addressing byte `8 * byte_addr`; lids of S7CommPlus with room for 12 bits of
offset; replies of a few lengths at which `get_block_info`, `get_cp_info`,
`get_protection`, `upload` and `full_upload` read past the end; the order-code version
that the server writes where the client does not look; timers and counters whose number
the server divides by eight; bytes of a block that `upload` takes for a data header; bit
tags whose write overwrites the byte; timeouts of a partner that nothing uses.

Properties of pure operators (`EncodedAsCounted`, `EnvelopesRoundTrip`,
`EncodingsRoundTrip`, `ClockReadsBack`, `TablesUnderstood`, `QueriesReturn`) quantify over
their inputs and depend on no variable; a guard makes TLC evaluate them in few states.

### Bounds

* Pool and server have more tasks than permits and, in the pool, one more connection
  than permits, so that contention, hand-over and an excess connection are all
  reachable. The server instance has one permit: the handshakes multiply the states, and
  the proofs cover every number of permits.
* In the session three requests suffice for a request to be given up, its late answer to
  be taken by the next one, and `pdu_ref` to wrap. References (`RefMod` for 2^16) are
  such that no answer is a whole cycle late, which is the assumption of
  `RefTellsAnswersApart`.
* In the dispatch instance `c1` sends two reads, of one item or of two, which exceed a frame
  (`MaxBody` is 3 bytes), and `c2` one of the other requests, and a write has two items with room in between; the clock has one
  reading and the callbacks one member there because the properties do not tell them
  apart. Dates lie at the ends of every field and of the century; days cover a leap
  century year and one that is not.
* Blocks are shorter than a chunk, end with a part of one, or are beyond the limit of
  upload, and one of two is sent without a data header, which its first byte looks like;
  lists take two pages. One exchange is followed after an answer was left behind: the
  properties end there. Each program pits the calls that can disturb each other.
* Gateway configurations have a bit with a byte behind it, a read-only byte, a word with
  a malformed offset, two PLCs that share a name, a marker, a timer, and malformed tags.
  In some of them connections may stall and break and one answer may be late (`MaxLate`),
  which is enough for every later exchange to take the answer of the one before.
* S7CommPlus numbers are five bits in groups of two instead of 32 in groups of seven;
  lids keep one bit of offset. One variable more than a count holds, and a value too long
  for a frame, are among the inputs.
* Partner messages have none, one and two slices.

Counters are bounded in the guards by `MaxSend`, `MaxAsk`, `MaxReq`, `MaxLink`,
`MaxStream`, `MaxStray` and `MaxLate`; where these bounds stop all activity, or the system may rest, the
configuration switches off the deadlock check.

## Fairness

Fairness is given only to what the runtime does on its own: a task that is ready is
polled, a timer fires, a semaphore or mutex is handed on in order.

* Pool: in addition, a borrower drops its guard.
* Session: weak fairness on the client's steps only. The PLC may never answer and a
  dial may hang for ever (its handshake has no timeout); futures need not be dropped. A
  write ends only while the peer reads or is gone; `OperationsEnd` has that as hypothesis.
* Handshake and server: the accept loop and the tasks of both sides run, and peers with
  an open connection close it eventually, since the server has no timeout of its own.
* Dispatch: each connection's loop runs, but while it waits to write to a peer that does
  not read. Clients and application are free to stop.
* Partner: a task that can read or write does. Applications need not call `brecv`, and a
  broken connection need not report an error.
* Block operations: an exchange ends, by its answer or by the request timeout. That takes a
  peer that reads: `S7Session` has the other case.
* Gateway: pollers run, and the branch of `select!` that sees the shutdown is strongly
  fair, because `select!` picks among the ready branches at random. A poller whose PLC does
  not read waits in its write.
* S7CommPlus: tasks run and the PLC answers; there is no timeout, so without the second
  a call may hang. Nothing is assumed once a frame has been torn by a dropped call.

## Proofs

The theorems hold for every value of the constants under the named assumptions
(`PoolConstants`, `ServerConstants`, `HandshakeConstants`, `MessageConstants`,
`MultiVarsConstants`, `SessionConstants`, `DispatchConstants`, `PartnerConstants`,
`BlockConstants`), which say that sets of tasks and clients are finite, bounds are natural
numbers, and requests and messages are well formed; every run evaluates those of its
modules. Each proof has an inductive invariant `IInv`, a lemma or a named step per action,
and a temporal theorem at the end. `FairQueueProofs` has the facts about joining, leaving
and heading a queue that the others share. The invariants were model-checked on the
instances of the runs before they were proved.

Facts about lists of every length are proved by the least counterexample: `LeastOf` in
`MultiVarsProofs` gives the least number at which a claim fails, and the claim at the number
before refutes it. That takes the place of an induction theorem where the claim can be
written as a set of numbers, as it can for sums and for cuts of a list.

* **S7PoolProofs**: `TypeOK`, `BoundedConnections`, `PermitsConserved`. The bound is not inductive alone: starting a connect is safe
  because the idle queue is empty under a permit and permits are conserved, and they
  are conserved because a release wakes a queued task that holds none (`QueueInv`).
  `HeldInv` ties guards to stages.
* **S7SessionProofs**: `TypeOK`, `TrustWhileConnected`, `NothingFromOldTransport`,
  `RefTellsAnswersApart`, and that no two tasks are inside an exchange. The trust rests on
  `InStep`: a connected client none of whose futures was dropped has nothing on its stream
  but what is left of the exchange of the mutex's owner, which `OneExchange` spells out
  stage by stage, broken connections and broken frames included. The freshness rests on `StreamInv`: all
  that is on the stream was made on the present transport, with a reference as many
  requests behind as were made since, up to wrap-around. From that follows
  `LateAnswersTold`, which needs no bound on the requests; `RefTellsAnswersApart` follows
  from it when there are no more requests than references (`MaxReq <= RefMod`, the
  hypothesis of `SessionRefs`, true of the run).
* **MultiVarsProofs**: `TypeOK`, `BatchesPartition`, `OkMeansAllAcked`, `RequestsFit` and
  `ResponsesNearlyFit` for all item lists, PDU sizes and limits. `IInv` ties the
  acknowledged items to the start of the batch. `Budgets` says that the two counters of the
  loop are differences of running sums (`Sums`), so that what a batch was allowed to take
  is what it takes on the wire. `MultiVarsFewest` is what `FewestExchanges` says for lists
  of any length: the batches are one of the ways to cut the items (`Cuts`), and none has
  fewer. It rests on `Ahead`: after n batches no other way to cut the items is past the
  loop's position, because a part of an allowed batch is allowed.
* **S7ServerProofs**: `TypeOK`, `PermitsAddUp`, `ClientCountExact`. The invariant adds that
  the queued connections are distinct and have no task yet. Every step of `Handshake` is a
  step of `S7Server` or a stutter (`HandshakeImplementsServer`), so permits and count are
  exact there too. `PduSizeAgreed` rests on `PeerInv`: client and server take turns, what is
  on the way is what the one waiting for it expects, and the answer to a negotiation carries
  the size that the server has stored; that the codec reads what it wrote is a lemma.
  `EnvelopesRoundTrip` is proved for every set of COTP PDUs whose fields fit their bytes
  (`MessageConstants`): a field that was appended is found again behind what precedes it
  (`BehindFields`), TPKT's length field counts the frame (`FramesRoundTrip`), and the
  decoder, which skips over parameters, finds the TSAP (`TsapFound`).
* **DispatchProofs**: `TypeOK`, `AnswersInOrder`, `LockedAreaFrozen`, `NoTornItem`.
  `InTurn` says that a loop that runs has answered all it has read but for the request in
  progress. An item is never torn because the bytes that are read as one item always hold
  one value (`EvenMem`): a write covers such an item or misses it, and a purge makes all
  bytes zero. That needs accesses that do not overlap in part (`ItemsAligned`, a hypothesis
  of the theorem, which the run evaluates as well).
* **PartnerProofs**: `Implements`, the refinement of `BulkTransfer`, and
  `ConfirmedWasDelivered`, for messages of any length and slices of any size, when
  applications take turns (`TakeTurns`, without which the run `partner_any_order` violates
  the latter). The invariant says for each direction what may be on the wire at each stage
  of the handshake (`WireShape`), that data on its way is the slice the reader expects next
  of the first message not yet delivered (`DataInv`), that an acknowledgement is of the
  slice its reader wrote last (`AckInv`), and how far the two ends are apart while the
  connection works (`UpInv`) and after it broke (`SendInv`, `TurnInv`).
* **BlockOpsProofs**: `TransfersAreWhole`, the refinement of `BlockStore`,
  `ForceTouchesOneBit`, `ListIsPlausible` and `UndisturbedCallsAreExact`, for any number of
  tasks, blocks of any length, chunks, pages and fills of any size, with refusals and
  dropped calls anywhere, with and without data headers, up to the point where an answer is
  left on the stream: the invariants are proved as `InStep => IInv` and `InStep => RInv`,
  which is inductive because a client never gets back in step (`InStepBefore`), and the
  refinement maps every later step to one that `BlockStore` leaves open. `IInv` says of each call what it has sent (`Sent`), what it has
  read (`Got`: the beginning of the block as the PLC has it *now*, which holds because
  `upload` keeps the mutex throughout, or what is left of a block whose first bytes passed
  for a header, `ChunkMisread`) and, for a force that nobody disturbed, that the byte
  it read is still there (`Forcing`). The refinement and the forced bit follow from it.
  Lists and loops need `RInv`, which says that whatever has not been listed or read yet is
  still ahead: of a list, numbers from its place on (`ListsRight`); of `upload_all_blocks`,
  the types to come and the numbers left of the present one (`UploadsRight`); of
  `compare_blocks`, the local blocks left and then the types left (`ComparesRight`); of
  `db_fill`, the bytes behind its offset (`FillsRight`). `BlockOpsStep` and `RightStep` prove
  that every step keeps the two; what only they use is inside them as named steps.

Only model-checked:

* all liveness (fairness is outside the prover's reach);
* what the item codecs, the S7CommPlus codec and the parsers of `Queries` compute
  (`EncodedAsCounted`, `EncodingsRoundTrip`, `ClockReadsBack`, `TablesUnderstood`,
  `QueriesReturn`): functions that walk over bytes of mixed layout, whose value for every
  input would need an induction for each;
* `AnswersAreOwn` of `PlusSession`, and `Gateway`: not proved.

## Not modelled, and why

* Byte-level framing towards the PLC: a write that is cut by a dropped future (hazard
  at `client.rs:205`).
* The pool composed with sessions: a connection whose last exchange timed out is lent
  again (hazard at `pool.rs:102`); what its borrower then sees is what `S7Session` shows of
  a client after a timeout.
* What calls return once an answer was left on the stream, beyond that it can be anything:
  `recv_s7` compares no reference, and no property of `BlockOps` or `Gateway` speaks of a
  client in that state. `S7Session` shows that the references would tell.
* Changes undone by a force that somebody disturbs (hazard at `client.rs:948`): the
  properties are about undisturbed calls.
* PDU sizes of 50 bytes or less in block transfers, for which `upload` underflows and
  `download` does not end (`BlockConstants` excludes them).
* Panics of user callbacks, and the poisoning of mutexes that follows them.
* Text heuristics of `get_cpu_info` and `get_order_code` (scans for printable runs), the
  protocol guess, and the obfuscation of passwords: no state and no counterpart that
  would say what is right.
* The event queue of the store, which nothing fills, and the size hints of
  `register_area`, which nothing reads.
* Sequence numbers and byte counters of the partner: sent and counted, never compared;
  calls of a partner that are dropped half way, and its `connected` flag.
* Splitting the text of tags and configuration files; TLS certificates.
* Transports, CLI and benchmarks: thin layers around sockets or single client calls.

## Plan

1. Proofs: `AnswersAreOwn` of `PlusSession`.
2. `PooledSession`: the pool composed with sessions.
3. `Partner`: drop of a call half way, and the `connected` flag behind `get_status`.
