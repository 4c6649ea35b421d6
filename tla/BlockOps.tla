------------------------------ MODULE BlockOps ------------------------------
(***************************************************************************)
(* The operations of S7Client that take several exchanges (client.rs):     *)
(* upload, full_upload, download, create_db, list_blocks_of_type,          *)
(* upload_all_blocks, compare_blocks, db_fill and force_bit, beside the    *)
(* jobs of one exchange (delete_block, plc_stop, memory_reset, ..), called *)
(* by tasks that share one client and its mutex.                           *)
(*                                                                         *)
(* upload, full_upload and download hold the mutex from their first        *)
(* exchange to their last; the others take it anew for every exchange or   *)
(* for every block.  A step is one exchange: request, answer and what the  *)
(* caller makes of it (S7Session has what lies inside an exchange).  The   *)
(* PLC is external: it keeps blocks, serves them in chunks and lists them  *)
(* in pages, as the code expects of it.                                    *)
(*                                                                         *)
(* recv_s7 gives its caller the next answer, whoever it is for.  A call    *)
(* that times out, or is dropped, while it waits leaves its answer to the  *)
(* next exchange, and from then on the client is astray.                   *)
(***************************************************************************)
EXTENDS FairQueue, FiniteSetsExt

CONSTANTS
  Tasks,      \* tasks that share the client
  Programs,   \* what the tasks may be written to do: the operations each calls
  BlockTypes, \* the block types a caller goes through, in order
  Keys,       \* pairs of a block type and a number
  Contents,   \* contents of blocks: sequences of bytes
  AtStart,    \* what may be on the PLC at first, by key
  NewDbs,     \* those that BlockData::new_db builds
  Locals,     \* lists of keys and contents a caller compares with
  Chunk,      \* pdu_size - 50: bytes of a block in one exchange
  PageSize,   \* most block numbers in one answer to list_blocks_of_type
  MaxBlock,   \* upload gives up beyond this many bytes (4 MB in the code)
  HeaderLen,  \* bytes of the header of a block, 20
  FillChunk,  \* bytes db_fill writes in one exchange, 240
  FillValues, \* values db_fill writes
  ForceBytes, \* bytes of the process image that are forced
  Bits,       \* bits of a byte
  Functions1F,\* how PLCs read function 0x1F: "delete" or "upload"
  Bare,       \* blocks whose bytes the PLC sends without a data header
  StartLens,  \* lengths of its answers to the start of an upload
  MaxStray,   \* exchanges followed once the client is astray
  None        \* no block

\* The bytes that blocks are made of, at first and when db_fill has run.
Bytes == FillValues \cup UNION {{b[i] : i \in DOMAIN b} : b \in Contents}

\* BlockData::from_bytes needs the whole header; compare_blocks leaves out the
\* local blocks it fails on.
Parses(entry) == Len(entry[2]) >= HeaderLen
Known(local) == SelectSeq(local, Parses)

\* With a PDU of 50 bytes or less upload underflows and download never ends.
ASSUME BlockConstants ==
  /\ Chunk \in Nat \ {0} /\ PageSize \in Nat \ {0} /\ FillChunk \in Nat \ {0}
  /\ Keys \subseteq STRING \X Nat /\ BlockTypes \in Seq(STRING)
  /\ Contents \subseteq Seq(Bytes)
  /\ None \notin Seq(Bytes) /\ None \notin Keys \X Contents
  /\ \A l \in Locals : Known(l) \in Seq(Keys \X Seq(Bytes))
  /\ ForceBytes \subseteq Nat
  /\ NewDbs \subseteq Contents /\ AtStart \subseteq [Keys -> Contents \cup {None}]
  /\ Functions1F \subseteq {"delete", "upload"}
  /\ Bare \subseteq Keys /\ StartLens \subseteq Nat /\ MaxStray \in Nat

VARIABLES
  blocks,  \* PLC: blocks[k] is the content of k, or None
  image,   \* PLC: the bits set in each byte of the process image
  fn1F,    \* PLC: how it reads function 0x1F
  program, \* program[t]: the operations task t calls
  queue,   \* tasks at the mutex of the client, the head owns it
  call,    \* call[t]: the call t is in
  astray   \* 0, or 1 more than the exchanges made since an answer was left behind

vars == <<blocks, image, fn1F, program, queue, call, astray>>

-----------------------------------------------------------------------------
(* Calls                                                                   *)

Reads1F == {"full_upload", "upload_all_blocks", "compare_blocks"}
Jobs == {"delete_block", "memory_reset", "control"}
Piecewise == {"upload_all_blocks", "compare_blocks", "db_fill", "force_bit"}

\* Mutant: the mutex is released between the chunks of an upload.
HoldingLess == {"up_end", "down_data", "down_end"}

\* Exchanges made with the mutex held since the one before.
Holding == {"up_data", "up_end", "down_data", "down_end"}
Exchanges == {"up_start", "up_data", "up_end", "down_start", "down_data", "down_end",
              "page", "info", "fill", "byte_read", "byte_write", "job"}

\* op: the operation called      at: its next exchange, "ok", or "panicked"
\* key, data: the block and its bytes       off: bytes of it transferred
\* buf: PLC, the bytes of a download it has received
\* types, nums, cur: block types to list, numbers found, least number to come
\* todo: blocks still to compare, and then those only the PLC has?
\* read, only: the blocks read, those reported as being on the PLC only
\* always, ever, quiet, cut: what happened since the call began: blocks that
\*   were there all the time, or at some time; nobody else changed anything;
\*   an error was taken for the end of a list or for a missing block
NoCall == [op |-> "none", at |-> "idle", key |-> None, data |-> <<>>, off |-> 0,
           buf |-> <<>>, types |-> <<>>, nums |-> {}, cur |-> 0, todo |-> <<>>,
           local |-> <<>>, plcOnly |-> FALSE, read |-> [k \in Keys |-> None], only |-> {},
           always |-> {}, ever |-> {}, quiet |-> TRUE, cut |-> FALSE]
Panicked == [NoCall EXCEPT !.at = "panicked"]

Owns(t) == queue # <<>> /\ Head(queue) = t
At(t, x) == call[t].at = x /\ Owns(t)

Present(b) == {k \in Keys : b[k] # None}

\* What a call under way sees of a change of the PLC.
Seen(c, b) ==
  IF c.op = "list_blocks" /\ c.at # "ok"
  THEN [c EXCEPT !.always = @ \cap Present(b), !.ever = @ \cup Present(b)] ELSE c
Disturbed(c) == IF c.op \in Piecewise THEN [c EXCEPT !.quiet = FALSE] ELSE c

\* The call of t becomes c, the memory of the PLC b and im.  A call that is
\* over drops its guard; so does one whose next exchange begins with lock().
Advance(t, c, b, im) ==
  /\ blocks' = b /\ image' = im
  /\ call' = [u \in Tasks |->
                IF u = t THEN Seen(c, b)
                ELSE IF b = blocks /\ im = image THEN call[u] ELSE Seen(Disturbed(call[u]), b)]
  /\ queue' = IF c.at \in Holding THEN queue
              ELSE IF c.at \in Exchanges THEN Append(Without(queue, t), t)
              ELSE Without(queue, t)
  /\ UNCHANGED <<fn1F, program>>

Go(t, c) == Advance(t, c, blocks, image)

\* The call returns Ok; only a result that carries something is kept.
Returned(c) ==
  IF c.op \in {"upload", "full_upload", "list_blocks"} \cup Piecewise
  THEN [c EXCEPT !.at = "ok"] ELSE NoCall

-----------------------------------------------------------------------------
(* What follows a block that was read, or a list that was completed        *)

\* The for loop over the block types.
NextType(c) ==
  IF c.types = <<>> THEN Returned(c) ELSE [c EXCEPT !.at = "page", !.nums = {}, !.cur = 0]

\* upload_all_blocks: for num in numbers { full_upload }; the PLC chose the order.
FirstNumber(nums) == CHOOSE n \in nums : TRUE
NextNumber(c) ==
  IF c.nums = {} THEN NextType([c EXCEPT !.types = Tail(@)])
  ELSE [c EXCEPT !.at = "up_start", !.key = <<Head(c.types), FirstNumber(c.nums)>>,
                 !.nums = @ \ {FirstNumber(c.nums)}]

\* compare_blocks: for (bt, bn, local_bytes) in local { full_upload }, then,
\* if asked to, a list of every type.
NextLocal(c) ==
  IF c.todo # <<>> THEN [c EXCEPT !.at = "up_start", !.key = Head(c.todo)[1], !.todo = Tail(@)]
  ELSE IF c.plcOnly THEN NextType([c EXCEPT !.types = BlockTypes])
  ELSE Returned(c)

\* A block was read, or could not be and compare_blocks goes on.
AfterBlock(c) ==
  LET d == [c EXCEPT !.key = None, !.data = <<>>, !.off = 0] IN
  CASE c.op = "upload_all_blocks" -> NextNumber(d)
    [] c.op = "compare_blocks" -> NextLocal(d)
    [] OTHER -> Returned(d)

LocalKeys(c) == {c.local[i][1] : i \in DOMAIN c.local}

\* list_blocks_of_type returns the numbers of Head(types).
AfterList(c) ==
  CASE c.op = "upload_all_blocks" -> NextNumber(c)
    [] c.op = "compare_blocks" ->
         NextType([c EXCEPT !.types = Tail(@),
                            !.only = @ \cup ({<<Head(c.types), n>> : n \in c.nums} \ LocalKeys(c))])
    [] OTHER -> Returned(c)

-----------------------------------------------------------------------------
(* Calls begin and end                                                     *)

Begin(t, c) ==
  /\ call[t].at = "idle" /\ c.op \in program[t]
  /\ call' = [call EXCEPT ![t] = c]
  /\ queue' = Append(queue, t)
  /\ UNCHANGED <<blocks, image, fn1F, program, astray>>

CallUpload(t) ==
  \E op \in {"upload", "full_upload"}, k \in Keys :
    Begin(t, [NoCall EXCEPT !.op = op, !.at = "up_start", !.key = k])

\* download, and create_db, which downloads what new_db builds.
CallDownload(t) ==
  \E op \in {"download", "create_db"}, k \in Keys :
    \E c \in IF op = "create_db" THEN NewDbs ELSE Contents :
      Begin(t, [NoCall EXCEPT !.op = op, !.at = "down_start", !.key = k, !.data = c])

CallList(t) ==
  \E i \in DOMAIN BlockTypes :
    Begin(t, [NoCall EXCEPT !.op = "list_blocks", !.at = "page", !.types = <<BlockTypes[i]>>,
                            !.always = Present(blocks), !.ever = Present(blocks)])

CallUploadAll(t) ==
  Begin(t, NextType([NoCall EXCEPT !.op = "upload_all_blocks", !.types = BlockTypes]))

\* Local blocks that do not parse are left out of the comparison.
CallCompare(t) ==
  \E l \in Locals, p \in BOOLEAN :
    LET c == NextLocal([NoCall EXCEPT !.op = "compare_blocks", !.todo = Known(l),
                                      !.local = Known(l), !.plcOnly = p])
    IN  c.at # "ok" /\ Begin(t, c)

CallFill(t) ==
  \E k \in {k \in Keys : k[1] = "DB"}, v \in FillValues :
    Begin(t, [NoCall EXCEPT !.op = "db_fill", !.at = "info", !.key = k, !.data = <<v>>])

\* force_bit(area, byte_addr, bit, value) reads the byte first; force_byte and
\* force_cancel_byte do not.  The start of the area is byte_addr * 8, and
\* ReadVarRequest::encode takes a start in bytes.
WireByte(byte) == byte * 8

CallForce(t) ==
  \/ \E b \in ForceBytes, i \in Bits, v \in BOOLEAN :
       Begin(t, [NoCall EXCEPT !.op = "force_bit", !.at = "byte_read", !.key = <<b, i, v>>])
  \/ \E b \in ForceBytes, s \in {{}, Bits} :
       Begin(t, [NoCall EXCEPT !.op = "force_byte", !.at = "byte_write", !.key = <<b>>,
                               !.data = <<s>>])

CallJob(t) ==
  \/ \E op \in Jobs \ {"delete_block"} : Begin(t, [NoCall EXCEPT !.op = op, !.at = "job"])
  \/ \E k \in Keys :
       Begin(t, [NoCall EXCEPT !.op = "delete_block", !.at = "job", !.key = k])

\* The caller takes the result.
Collect(t) ==
  /\ call[t].at = "ok"
  /\ call' = [call EXCEPT ![t] = NoCall]
  /\ UNCHANGED <<blocks, image, fn1F, program, queue, astray>>

\* The caller drops the future: at lock() or before anything was written, or
\* while it waits for an answer.  The PLC is not told.
Abandon(t) ==
  /\ call[t].at \in Exchanges
  /\ call' = [call EXCEPT ![t] = NoCall]
  /\ queue' = Without(queue, t)
  /\ UNCHANGED astray \/ (Owns(t) /\ astray' = 1)
  /\ UNCHANGED <<blocks, image, fn1F, program>>

\* An exchange that is refused by the PLC or times out ends the call.  But
\* compare_blocks reports a block it cannot read as OnlyLocal and goes on.
Failed(c, missing) ==
  IF c.op = "compare_blocks" /\ c.at \in {"up_start", "up_data", "up_end"}
  THEN AfterBlock([c EXCEPT !.cut = @ \/ ~missing]) ELSE NoCall

Fail(t) ==
  /\ call[t].at \in Exchanges /\ Owns(t)
  /\ Go(t, Failed(call[t], FALSE))
  /\ astray' \in {astray, 1}

\* The PLC did what it was asked, and the answer tells, or comes too late for
\* a call that timed out or was dropped.
Done(t, c, b, im) ==
  \/ Advance(t, c, b, im) /\ UNCHANGED astray
  \/ Advance(t, NoCall, b, im) /\ astray' = 1

\* An answer that was left behind makes this exchange take the answer of
\* another one: the call fails, or it goes on or returns, with any bytes for
\* those it asked for, and the PLC may have done what it was asked.
Misled(c) == {NoCall} \cup {[c EXCEPT !.at = x, !.data = d] : x \in {c.at, "ok"}, d \in Contents}

Stray(t) ==
  /\ call[t].at \in Exchanges /\ Owns(t)
  /\ \E c \in Misled(call[t]), k \in Keys :
       \E b \in {blocks[k], None, c.data} : Advance(t, c, [blocks EXCEPT ![k] = b], image)
  /\ astray' = astray + 1

-----------------------------------------------------------------------------
(* upload and full_upload                                                  *)

\* The answer has two bytes that are skipped, an id and a length of four bytes
\* each, and is taken for complete from 8 bytes on: get_u32 panics on the rest.
Started(c, len) ==
  IF len < 8 THEN Failed(c, FALSE) ELSE IF len < 10 THEN Panicked ELSE [c EXCEPT !.at = "up_data"]

\* A PLC that reads 0x1F as delete removes the block and sends an answer
\* too short for an upload id, or one that comes too late.
UploadStart(t) ==
  /\ At(t, "up_start")
  /\ LET c == call[t] IN
     IF blocks[c.key] = None THEN Go(t, Failed(c, TRUE)) /\ UNCHANGED astray
     ELSE IF c.op \in Reads1F /\ fn1F = "delete"
     THEN \/ Advance(t, Failed(c, FALSE), [blocks EXCEPT ![c.key] = None], image) /\ astray' \in {astray, 1}
          \/ Advance(t, NoCall, [blocks EXCEPT ![c.key] = None], image) /\ astray' = 1
     ELSE (\E len \in StartLens : Go(t, Started(c, len))) /\ UNCHANGED astray

DataHeader == <<255, 9, 0, 0>>

\* PLC: how far the next answer goes, and the bytes in it, the first time behind
\* a data header, if the block has one.
ChunkEnd(content, off) == Min({off + Chunk, Len(content)})
DataReply(k, content, off) ==
  IF content = None THEN <<>>
  ELSE (IF off = 0 /\ k \notin Bare THEN DataHeader ELSE <<>>)
         \o SubSeq(content, off + 1, ChunkEnd(content, off))

\* The data header is skipped while nothing has been read, if it looks like one.
Stripped(body, data) ==
  IF data = <<>> /\ Len(body) >= 4 /\ body[1] \in {0, 255} THEN SubSeq(body, 5, Len(body)) ELSE body

\* A chunk that is not full is the last one.
LastChunk(chunk) == Len(chunk) < Chunk

UploadData(t) ==
  /\ At(t, "up_data")
  /\ LET c == call[t]
         body == DataReply(c.key, blocks[c.key], c.off)
         chunk == Stripped(body, c.data)
         d == [c EXCEPT !.data = @ \o chunk, !.off = ChunkEnd(blocks[c.key], @)]
     IN  IF body = <<>> THEN Go(t, [c EXCEPT !.at = "up_end"])
         ELSE IF LastChunk(chunk) THEN Go(t, [d EXCEPT !.at = "up_end"])
         ELSE IF Len(d.data) > MaxBlock THEN Go(t, Failed(c, FALSE))
         ELSE Go(t, d)
  /\ UNCHANGED astray

UploadEnd(t) ==
  /\ At(t, "up_end")
  /\ LET c == call[t] IN Go(t, AfterBlock([c EXCEPT !.read[c.key] = c.data]))
  /\ UNCHANGED astray

-----------------------------------------------------------------------------
(* download                                                                *)

ChunkTo(data, off) == SubSeq(data, off + 1, ChunkEnd(data, off))

\* One more chunk is with the PLC; the first one goes with the start job.
DownloadData(t) ==
  /\ At(t, "down_start") \/ At(t, "down_data")
  /\ LET c == call[t]
         end == ChunkEnd(c.data, c.off)
     IN  Go(t, [c EXCEPT !.buf = @ \o ChunkTo(c.data, c.off), !.off = end,
                         !.at = IF end < Len(c.data) THEN "down_data" ELSE "down_end"])
  /\ UNCHANGED astray

DownloadEnd(t) ==
  /\ At(t, "down_end")
  /\ LET c == call[t] IN Done(t, Returned(c), [blocks EXCEPT ![c.key] = c.buf], image)

-----------------------------------------------------------------------------
(* list_blocks_of_type                                                     *)

\* PLC: the numbers it has not listed yet, and those up to `last` of them.
NumbersOf(type, K) == {k[2] : k \in {k \in K : k[1] = type}}
Left(c) == {n \in NumbersOf(Head(c.types), Present(blocks)) : n >= c.cur}
Page(c, last) == {n \in Left(c) : n <= last}

\* Mutant: the sequence number of the answer is not carried over.
ListedSameSeq(c, last) == [c EXCEPT !.nums = @ \cup Page(c, last)]

\* Mutant: every page replaces the one before.
ListedLastPage(c, last) == [c EXCEPT !.nums = Page(c, last), !.cur = last + 1]

\* The numbers are added to the list, and `seq` tells the PLC where to go on.
Listed(c, last) == [c EXCEPT !.nums = @ \cup Page(c, last), !.cur = last + 1]

\* An answer whose return code is not 0xFF ends the list and is no error: the
\* PLC has no (more) such blocks, or it refuses to go on.
ListPage(t) ==
  /\ At(t, "page")
  /\ LET c == call[t] IN
     \/ Left(c) = {} /\ Go(t, AfterList(c))
     \/ Left(c) # {} /\ Go(t, AfterList([c EXCEPT !.cut = TRUE]))
     \/ \E last \in Left(c) :
          /\ Cardinality(Page(c, last)) <= PageSize
          /\ Go(t, IF Left(c) = Page(c, last) THEN AfterList(Listed(c, last)) ELSE Listed(c, last))
  /\ UNCHANGED astray

-----------------------------------------------------------------------------
(* db_fill                                                                 *)

\* get_ag_block_info tells the size of the block; zero is an error.
FillInfo(t) ==
  /\ At(t, "info")
  /\ LET c == call[t] IN
     IF blocks[c.key] \in {None, <<>>} THEN Go(t, NoCall)
     ELSE Go(t, [c EXCEPT !.at = "fill", !.data = [i \in 1..Len(blocks[c.key]) |-> c.data[1]]])
  /\ UNCHANGED astray

Filled(old, data, off, end) == [i \in DOMAIN old |-> IF i \in (off + 1)..end THEN data[i] ELSE old[i]]

\* Mutant: the bytes after the last whole chunk are left out.
WholeChunks(off, size) == IF off + FillChunk > size THEN off ELSE off + FillChunk

FillTo(off, size) == Min({off + FillChunk, size})

\* db_write of one chunk.  The PLC refuses bytes outside the block.
FillWrite(t) ==
  /\ At(t, "fill")
  /\ LET c == call[t]
         size == Len(c.data)
         end == FillTo(c.off, size)
         d == IF c.off + FillChunk < size THEN [c EXCEPT !.off = end]
              ELSE Returned([c EXCEPT !.off = end])
     IN  IF blocks[c.key] = None \/ Len(blocks[c.key]) < end THEN Go(t, NoCall) /\ UNCHANGED astray
         ELSE Done(t, d, [blocks EXCEPT ![c.key] = Filled(@, c.data, c.off, end)], image)

-----------------------------------------------------------------------------
(* Forcing, and the jobs of one exchange                                   *)

ByteRead(t) ==
  /\ At(t, "byte_read")
  /\ LET c == call[t] IN
     Go(t, [c EXCEPT !.at = "byte_write", !.data = <<image[WireByte(c.key[1])]>>])
  /\ UNCHANGED astray

\* Mutant: the other bits are not kept.
ForcedAlone(byte, bit, value) == IF value THEN {bit} ELSE {}

\* byte_val |= 1 << bit, or byte_val &= !(1 << bit).
Forced(byte, bit, value) == IF value THEN byte \cup {bit} ELSE byte \ {bit}

ByteWrite(t) ==
  /\ At(t, "byte_write")
  /\ LET c == call[t]
         new == IF c.op = "force_bit" THEN Forced(c.data[1], c.key[2], c.key[3]) ELSE c.data[1]
     IN  Done(t, Returned(c), blocks, [image EXCEPT ![WireByte(c.key[1])] = new])

\* delete_block sends the same bytes as the start of full_upload: a PLC that
\* reads them as an upload acknowledges and deletes nothing.
DeleteBlock(t) ==
  /\ At(t, "job") /\ call[t].op = "delete_block"
  /\ LET c == call[t] IN
     IF blocks[c.key] = None THEN Go(t, NoCall) /\ UNCHANGED astray
     ELSE Done(t, Returned(c),
               IF fn1F = "delete" THEN [blocks EXCEPT ![c.key] = None] ELSE blocks, image)

\* memory_reset and overall_reset.  A PLC that is not in STOP refuses.
Reset(t) ==
  /\ At(t, "job") /\ call[t].op = "memory_reset"
  /\ Done(t, NoCall, [k \in Keys |-> None], image)

\* plc_stop, plc_hot_start, plc_cold_start, copy_ram_to_rom, compress,
\* set_session_password, clear_session_password: an acknowledgement is all
\* that comes back, and no block is touched.
Control(t) ==
  /\ At(t, "job") /\ call[t].op = "control"
  /\ Go(t, NoCall)
  /\ UNCHANGED astray

-----------------------------------------------------------------------------
Init ==
  /\ blocks \in AtStart
  /\ image = [b \in {WireByte(f) : f \in ForceBytes} |-> {}]
  /\ program \in Programs
  /\ fn1F \in Functions1F
  /\ queue = <<>>
  /\ call = [t \in Tasks |-> NoCall]
  /\ astray = 0

Exchange(t) ==
  \/ Fail(t)
  \/ UploadStart(t) \/ UploadData(t) \/ UploadEnd(t) \/ DownloadData(t) \/ DownloadEnd(t)
  \/ ListPage(t) \/ FillInfo(t) \/ FillWrite(t) \/ ByteRead(t) \/ ByteWrite(t)
  \/ DeleteBlock(t) \/ Reset(t) \/ Control(t)

\* Every answer so far was taken by the call that waited for it.
InStep == astray = 0

Orderly ==
  \E t \in Tasks :
    \/ CallUpload(t) \/ CallDownload(t) \/ CallList(t) \/ CallUploadAll(t) \/ CallCompare(t)
    \/ CallFill(t) \/ CallForce(t) \/ CallJob(t)
    \/ Exchange(t) \/ Collect(t) \/ Abandon(t)

Next ==
  \/ InStep /\ Orderly
  \/ astray \in 1..MaxStray /\ \E t \in Tasks : Stray(t)

\* Every exchange ends, by the answer or by the request timeout, as long as the
\* peer takes what is written to it (write_all has no timeout).
Spec == Init /\ [][Next]_vars
FairSpec == Spec /\ \A t \in Tasks : WF_vars(InStep /\ Exchange(t))

-----------------------------------------------------------------------------
(* Properties                                                              *)

Offer ==
  [t \in Tasks |-> IF call[t].op \in {"download", "create_db"}
                   THEN <<call[t].key, call[t].data>> ELSE None]
ReadSoFar == [t \in Tasks |-> call[t].read]

\* What upload makes of a block: when its first bytes come without a data header
\* and look like one, four of them are lost, and so is all after the first chunk.
Misjudged(k, content) ==
  k \in Bare /\ content # None /\ ChunkEnd(content, 0) >= 4 /\ content[1] \in {0, 255}
AsRead(k, content) ==
  IF Misjudged(k, content) THEN SubSeq(content, 5, ChunkEnd(content, 0)) ELSE content

Store == INSTANCE BlockStore WITH offer <- Offer, read <- ReadSoFar,
                                  view <- [k \in Keys |-> AsRead(k, blocks[k])], trusted <- InStep

\* upload, full_upload and download move a block in chunks, and calls of
\* several tasks, failures and abandoned calls come between any two
\* exchanges; yet blocks are read and installed whole, until an answer is left
\* behind by a call that timed out or was dropped.  It rests on the mutex
\* being held over the transfer and on the chunks meeting at the seams.  A
\* block is read as it is unless upload takes its first bytes for a header.
TransfersAreWhole == Store!Spec

\* list_blocks_of_type releases the mutex after every page, while others
\* create and delete blocks: the list has every block that was there
\* throughout and none that was never there, unless the PLC refused a page
\* or an answer was left behind.
ListIsPlausible ==
  InStep =>
  \A t \in Tasks :
    LET c == call[t] IN
    c.op = "list_blocks" /\ c.at = "ok" =>
      /\ c.nums \subseteq NumbersOf(Head(c.types), c.ever)
      /\ ~c.cut => NumbersOf(Head(c.types), c.always) \subseteq c.nums

\* BlockCmpResult of a local block.
Verdict(local, plc) ==
  IF plc = None THEN "OnlyLocal"
  ELSE IF Len(plc) >= HeaderLen /\ local = plc THEN "Match" ELSE "Mismatch"

\* The blocks of the types that upload_all_blocks and compare_blocks go through.
Wanted == {k \in Keys : \E i \in DOMAIN BlockTypes : BlockTypes[i] = k[1]}

\* A call that takes the mutex several times does what its doc says when it
\* returns Ok, nobody else changed the PLC meanwhile and no answer was left
\* behind: upload_all_blocks has every block of its types and compare_blocks
\* judges it (as upload reads it: see AsRead), db_fill has filled the block,
\* force_bit has set the bit (of the byte it addresses).
UndisturbedCallsAreExact ==
  InStep =>
  \A t \in Tasks :
    LET c == call[t] IN
    c.at = "ok" /\ c.quiet =>
      /\ c.op = "upload_all_blocks" /\ ~c.cut => \A k \in Wanted : c.read[k] = AsRead(k, blocks[k])
      /\ c.op = "compare_blocks" /\ ~c.cut =>
           /\ \A i \in DOMAIN c.local : LET k == c.local[i][1] IN
                Verdict(c.local[i][2], c.read[k]) = Verdict(c.local[i][2], AsRead(k, blocks[k]))
           /\ c.plcOnly => c.only = (Present(blocks) \cap Wanted) \ LocalKeys(c)
      /\ c.op = "db_fill" => blocks[c.key] = [i \in DOMAIN blocks[c.key] |-> c.data[1]]
      /\ c.op = "force_bit" => (c.key[2] \in image[WireByte(c.key[1])]) = c.key[3]

\* force_bit reads and writes a whole byte in two exchanges: it changes one
\* bit and nothing else as long as nobody wrote to the image in between and
\* the byte it writes is its own answer and not one left behind.
ForceTouchesOneBit ==
  [][InStep =>
     \A t \in Tasks :
       LET c == call[t] IN
       At(t, "byte_write") /\ c.op = "force_bit" /\ c.quiet =>
         \A b \in DOMAIN image : \A i \in Bits :
           ((i \in image[b]) # (i \in image'[b])) => b = 8 * c.key[1] /\ i = c.key[2]]_vars

\* Every call returns (or panics), whatever the others do and wherever
\* exchanges fail, as long as no answer is left behind.
CallsReturn == \A t \in Tasks : call[t].at \in Exchanges ~> (call[t].at \notin Exchanges \/ ~InStep)

\* "Full-upload a PLC block including MC7 (executable) code (S7 function
\* 0x1F)": reading blocks leaves them alone.
ReadingKeepsBlocks ==
  [][InStep /\ queue # <<>> /\ call[Head(queue)].op \in Reads1F \cup {"upload"} => blocks' = blocks]_vars
=============================================================================
