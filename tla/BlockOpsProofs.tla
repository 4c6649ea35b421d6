--------------------------- MODULE BlockOpsProofs ---------------------------
(***************************************************************************)
(* The block operations of a shared S7Client move blocks whole: for any    *)
(* number of tasks and blocks, blocks of any length and chunks of any      *)
(* size, with failures and abandoned calls between any two exchanges.      *)
(***************************************************************************)
EXTENDS BlockOps, FairQueueProofs

-----------------------------------------------------------------------------
(* The inductive invariant                                                 *)

Uploaders == {"upload", "full_upload", "upload_all_blocks", "compare_blocks"}
Downloaders == {"download", "create_db"}
Uploading == {"up_start", "up_data", "up_end"}
Downloading == {"down_start", "down_data", "down_end"}
NothingRead == [k \in Keys |-> None]
Memory == [Keys -> Seq(Bytes) \cup {None}]
Image == [{WireByte(f) : f \in ForceBytes} -> SUBSET Bits]

\* The loops of upload_all_blocks and compare_blocks: numbers found are of blocks
\* there can be, and so are those still to be compared.
Looping(c) ==
  /\ c.types \in Seq(STRING)
  /\ c.types # <<>> => \A n \in c.nums : n \in Nat /\ <<Head(c.types), n>> \in Keys
  /\ c.todo \in Seq(Keys \X Seq(Bytes))

\* Where in its call each operation may be, and with which block.
Shape(c) ==
  /\ DOMAIN c = DOMAIN NoCall /\ c.at \in Exchanges \cup {"idle", "ok", "panicked"}
  /\ c.at \in {"idle", "panicked"} => c.op = "none"
  /\ c.at \in Uploading => c.op \in Uploaders /\ c.key \in Keys
  /\ c.at \in {"up_start", "page"} => c.data = <<>> /\ c.off = 0
  /\ c.at \in Uploading /\ c.op = "upload_all_blocks" => c.types # <<>>
  /\ c.at \in Downloading <=> c.op \in Downloaders
  /\ c.at = "page" => c.op \in {"list_blocks", "upload_all_blocks", "compare_blocks"} /\ c.types # <<>>
  /\ c.op \in {"list_blocks", "upload_all_blocks", "compare_blocks"} => Looping(c)
  /\ c.at \in {"info", "fill"} => c.op = "db_fill" /\ c.key \in Keys /\ c.off \in Nat
  /\ c.at = "info" => c.data[1] \in FillValues
  /\ c.at = "fill" => c.data \in Seq(Bytes)
  /\ c.at \in {"byte_read", "byte_write"} => c.op \in {"force_bit", "force_byte"}
  /\ c.at = "job" => c.op \in Jobs
  /\ c.op = "delete_block" => c.key \in Keys
  /\ c.op \notin Uploaders => c.read = NothingRead

\* What download has sent is the beginning of its block.
Sent(c) ==
  c.op \in Downloaders =>
    /\ c.key \in Keys /\ c.data \in Contents
    /\ c.off \in Nat /\ c.off <= Len(c.data) /\ c.buf = SubSeq(c.data, 1, c.off)
    /\ c.at = "down_end" => c.off = Len(c.data)

\* What upload has read is the beginning of the block as the PLC has it now;
\* of one whose first bytes it takes for a header, there is one answer only.
Got(c, b) ==
  /\ c.at \in {"up_data", "up_end"} => b[c.key] # None
  /\ c.at = "up_data" =>
       /\ c.off \in Nat /\ c.off <= Len(b[c.key]) /\ c.data = SubSeq(b[c.key], 1, c.off)
       /\ Misjudged(c.key, b[c.key]) => c.off = 0
  /\ c.at = "up_end" => c.data = AsRead(c.key, b[c.key])

\* A bit is forced in the byte that was read, unless that was disturbed.
Forcing(c, im) ==
  /\ c.at \in {"byte_read", "byte_write"} => c.key[1] \in ForceBytes
  /\ c.at = "byte_write" => c.data[1] \in SUBSET Bits
  /\ c.op = "force_bit" => c.key[2] \in Bits
  /\ c.at = "byte_write" /\ c.op = "force_bit" /\ c.quiet =>
       c.data[1] = im[WireByte(c.key[1])]

CallOK(c, b, im) == Shape(c) /\ Sent(c) /\ Got(c, b) /\ Forcing(c, im)

\* A transfer holds the mutex from its first exchange to its last.
IInv ==
  /\ blocks \in Memory /\ image \in Image
  /\ queue \in Seq(Tasks)
  /\ call = [t \in Tasks |-> call[t]]
  /\ \A t \in Tasks : CallOK(call[t], blocks, image) /\ (call[t].at \in Holding => Owns(t))

-----------------------------------------------------------------------------
(* Records and queues                                                      *)

OfferOf(c) == IF c.op \in Downloaders THEN <<c.key, c.data>> ELSE None

\* Nobody is called.
LEMMA IdleCall ==
  ASSUME NEW b, NEW im
  PROVE  /\ CallOK(NoCall, b, im) /\ NoCall.at \notin Exchanges /\ NoCall.read = NothingRead
         /\ NoCall.op = "none"
BY Zenon DEF NoCall, CallOK, Shape, Sent, Got, Forcing, Exchanges, Uploaders, Downloaders, Uploading,
       Downloading, Jobs, NothingRead

\* An upload panicked: nobody is called any more.
LEMMA PanickedCall ==
  ASSUME NEW b, NEW im
  PROVE  /\ CallOK(Panicked, b, im) /\ Panicked.read = NothingRead /\ Panicked.op = "none"
         /\ OfferOf(Panicked) = None
BY Zenon DEF Panicked, NoCall, CallOK, Shape, Sent, Got, Forcing, Exchanges, Uploaders, Downloaders, Uploading,
       Downloading, Jobs, NothingRead, OfferOf

\* c and d differ in nothing but what they have seen of others.
Alike(c, d) ==
  /\ DOMAIN d = DOMAIN NoCall /\ d.op = c.op /\ d.at = c.at /\ d.key = c.key /\ d.data = c.data
  /\ d.off = c.off /\ d.buf = c.buf /\ d.types = c.types /\ d.nums = c.nums /\ d.todo = c.todo
  /\ d.read = c.read

\* What a call has seen of the blocks is a note of the model: nothing else in it changes.
LEMMA SeenAlike ==
  ASSUME NEW c, NEW b, DOMAIN c = DOMAIN NoCall
  PROVE  Alike(c, Seen(c, b)) /\ Seen(c, b).quiet = c.quiet
BY Zenon DEF NoCall, Alike, Seen

-----------------------------------------------------------------------------
(* One exchange                                                            *)

\* What every step must do: keep the invariant and be a step of BlockStore.
Step == IInv' /\ (Store!Whole \/ UNCHANGED <<blocks, Offer, ReadSoFar>>)

\* A task without a call has no block to install.
LEMMA NoOffer == OfferOf(NoCall) = None
BY Zenon DEF OfferOf, NoCall, Downloaders

-----------------------------------------------------------------------------
(* Loops over blocks                                                       *)

\* A call of upload, or a loop, between two blocks: it reads another one or
\* a list, or is over, and holds no mutex.
Between(c) ==
  /\ DOMAIN c = DOMAIN NoCall /\ c.op \in Uploaders
  /\ c.op \in {"upload_all_blocks", "compare_blocks"} => Looping(c)
Next1(c, d) ==
  /\ d.op = c.op /\ d.read = c.read /\ Shape(d)
  /\ d.at \in {"ok", "page", "up_start"}

\* The outer loop of upload_all_blocks and compare_blocks goes on to the next block type.
LEMMA NextTypeOK ==
  ASSUME NEW c, DOMAIN c = DOMAIN NoCall, c.op \in {"upload_all_blocks", "compare_blocks"},
         c.types \in Seq(STRING), c.todo \in Seq(Keys \X Seq(Bytes)), c.data = <<>>, c.off = 0
  PROVE  Next1(c, NextType(c))
<1>2. CASE c.types = <<>>
  <2>1. NextType(c) = [c EXCEPT !.at = "ok"]
    BY Zenon, <1>2 DEF NextType, Returned, Piecewise
  <2> QED
    BY Zenon, <1>2, <2>1 DEF Next1, Shape, Looping, NoCall, Uploaders, Downloaders, Uploading, Downloading, Exchanges
<1>3. CASE c.types # <<>>
  <2>1. NextType(c) = [c EXCEPT !.at = "page", !.nums = {}, !.cur = 0]
    BY Zenon, <1>3 DEF NextType
  <2> QED
    BY <1>3, <2>1 DEF Next1, Shape, Looping, NoCall, Uploaders, Downloaders, Uploading, Downloading, Exchanges
<1> QED
  BY Zenon, <1>2, <1>3

\* The inner loop of upload_all_blocks goes on to the next number it has listed.
LEMMA NextNumberOK ==
  ASSUME NEW c, Between(c), c.op = "upload_all_blocks", c.types # <<>>, c.data = <<>>, c.off = 0
  PROVE  Next1(c, NextNumber(c))
<1>1. Looping(c) /\ DOMAIN c = DOMAIN NoCall
  BY Zenon DEF Between
<1>2. CASE c.nums = {}
  <2> DEFINE d == [c EXCEPT !.types = Tail(c.types)]
  <2>1. Tail(c.types) \in Seq(STRING)
    BY Zenon, <1>1, TailCases DEF Looping
  <2>2. /\ DOMAIN d = DOMAIN NoCall /\ d.op = c.op /\ d.read = c.read /\ d.types = Tail(c.types)
        /\ d.todo = c.todo /\ d.data = <<>> /\ d.off = 0
    BY Zenon, <1>1, <1>2 DEF NoCall
  <2>3. NextNumber(c) = NextType(d)
    BY Zenon, <1>2 DEF NextNumber
  <2> HIDE DEF d
  <2>4. c.todo \in Seq(Keys \X Seq(Bytes))
    BY Zenon, <1>1 DEF Looping
  <2>5. Next1(d, NextType(d))
    BY Zenon, <2>1, <2>2, <2>4, NextTypeOK
  <2> QED
    BY Zenon, <2>2, <2>3, <2>5 DEF Next1
<1>3. CASE c.nums # {}
  <2> DEFINE n == FirstNumber(c.nums)
  <2>1. n \in c.nums /\ <<Head(c.types), n>> \in Keys
    BY Zenon, <1>1, <1>3 DEF Looping, FirstNumber
  <2>2. NextNumber(c) = [c EXCEPT !.at = "up_start", !.key = <<Head(c.types), n>>, !.nums = c.nums \ {n}]
    BY Zenon, <1>3 DEF NextNumber
  <2> HIDE DEF n
  <2> QED
    BY <1>1, <2>1, <2>2 DEF Next1, Shape, Looping, NoCall, Uploaders, Downloaders, Uploading, Downloading, Exchanges
<1> QED
  BY Zenon, <1>2, <1>3

\* compare_blocks goes on to the next local block, then to what only the PLC has.
LEMMA NextLocalOK ==
  ASSUME NEW c, Between(c), c.op = "compare_blocks", c.data = <<>>, c.off = 0
  PROVE  Next1(c, NextLocal(c))
<1>1. Looping(c) /\ DOMAIN c = DOMAIN NoCall
  BY Zenon DEF Between
<1>2. CASE c.todo # <<>>
  <2>1. Head(c.todo)[1] \in Keys /\ Tail(c.todo) \in Seq(Keys \X Seq(Bytes))
    BY <1>1, <1>2, TailCases DEF Looping
  <2>2. NextLocal(c) = [c EXCEPT !.at = "up_start", !.key = Head(c.todo)[1], !.todo = Tail(c.todo)]
    BY Zenon, <1>2 DEF NextLocal
  <2> QED
    BY <1>1, <2>1, <2>2 DEF Next1, Shape, Looping, NoCall, Uploaders, Downloaders, Uploading, Downloading, Exchanges
<1>3. CASE c.todo = <<>> /\ c.plcOnly
  <2> DEFINE d == [c EXCEPT !.types = BlockTypes]
  <2>1. /\ DOMAIN d = DOMAIN NoCall /\ d.op = c.op /\ d.read = c.read /\ d.types = BlockTypes
        /\ d.todo = c.todo /\ d.data = <<>> /\ d.off = 0
    BY Zenon, <1>1 DEF NoCall
  <2>2. NextLocal(c) = NextType(d)
    BY Zenon, <1>3 DEF NextLocal
  <2> HIDE DEF d
  <2>3. c.todo \in Seq(Keys \X Seq(Bytes)) /\ BlockTypes \in Seq(STRING)
    BY Zenon, <1>1, BlockConstants DEF Looping
  <2>4. Next1(d, NextType(d))
    BY Zenon, <2>1, <2>3, NextTypeOK
  <2> QED
    BY Zenon, <2>1, <2>2, <2>4 DEF Next1
<1>4. CASE c.todo = <<>> /\ ~c.plcOnly
  <2>1. NextLocal(c) = [c EXCEPT !.at = "ok"]
    BY Zenon, <1>4 DEF NextLocal, Returned, Piecewise
  <2> QED
    BY <1>1, <2>1 DEF Next1, Shape, Looping, NoCall, Uploaders, Downloaders, Uploading, Downloading, Exchanges
<1> QED
  BY Zenon, <1>2, <1>3, <1>4

\* A block was read, or could not be.
LEMMA AfterBlockOK ==
  ASSUME NEW c, Between(c), c.op = "upload_all_blocks" => c.types # <<>>
  PROVE  Next1(c, AfterBlock(c))
<1> DEFINE d == [c EXCEPT !.key = None, !.data = <<>>, !.off = 0]
<1>1. /\ DOMAIN d = DOMAIN NoCall /\ d.op = c.op /\ d.read = c.read /\ d.types = c.types
      /\ d.nums = c.nums /\ d.todo = c.todo /\ d.data = <<>> /\ d.off = 0
  BY Zenon DEF NoCall, Between
<1>2. AfterBlock(c) = CASE c.op = "upload_all_blocks" -> NextNumber(d)
                        [] c.op = "compare_blocks" -> NextLocal(d)
                        [] OTHER -> Returned(d)
  BY Zenon DEF AfterBlock
<1> HIDE DEF d
<1>3. Between(d)
  BY Zenon, <1>1 DEF Between, Looping
<1>4. CASE c.op = "upload_all_blocks"
  <2>1. Next1(d, NextNumber(d))
    BY Zenon, <1>1, <1>3, <1>4, NextNumberOK
  <2> QED
    BY Zenon, <1>1, <1>2, <1>4, <2>1 DEF Next1
<1>5. CASE c.op = "compare_blocks"
  <2>1. Next1(d, NextLocal(d))
    BY Zenon, <1>1, <1>3, <1>5, NextLocalOK
  <2> QED
    BY Zenon, <1>1, <1>2, <1>5, <2>1 DEF Next1
<1>6. CASE c.op \in {"upload", "full_upload"}
  <2>1. AfterBlock(c) = [d EXCEPT !.at = "ok"]
    BY Zenon, <1>1, <1>2, <1>6 DEF Returned
  <2> QED
    BY <1>1, <1>6, <2>1 DEF Next1, Shape, NoCall, Uploaders, Downloaders, Uploading, Downloading, Exchanges
<1> QED
  BY Zenon, <1>4, <1>5, <1>6 DEF Between, Uploaders

\* A list is complete.
LEMMA AfterListOK ==
  ASSUME NEW c, Shape(c), c.at = "page"
  PROVE  Next1(c, AfterList(c))
<1>1. c.op \in {"list_blocks", "upload_all_blocks", "compare_blocks"} /\ c.types # <<>> /\ Looping(c)
      /\ DOMAIN c = DOMAIN NoCall /\ c.data = <<>> /\ c.off = 0
  BY Zenon DEF Shape
<1>2. CASE c.op = "upload_all_blocks"
  <2>1. Between(c) /\ AfterList(c) = NextNumber(c)
    BY Zenon, <1>1, <1>2 DEF Between, AfterList, Uploaders
  <2> QED
    BY Zenon, <1>1, <1>2, <2>1, NextNumberOK
<1>3. CASE c.op = "compare_blocks"
  <2> DEFINE S == c.only \cup ({<<Head(c.types), n>> : n \in c.nums} \ LocalKeys(c))
             d == [c EXCEPT !.types = Tail(c.types), !.only = S]
  <2>1. /\ DOMAIN d = DOMAIN NoCall /\ d.op = c.op /\ d.read = c.read /\ d.types = Tail(c.types)
        /\ d.todo = c.todo /\ d.data = <<>> /\ d.off = 0
    BY Zenon, <1>1 DEF NoCall
  <2>2. AfterList(c) = NextType(d)
    BY Zenon, <1>3 DEF AfterList
  <2> HIDE DEF d
  <2>3. Tail(c.types) \in Seq(STRING) /\ c.todo \in Seq(Keys \X Seq(Bytes))
    BY Zenon, <1>1, TailCases DEF Looping
  <2>4. Next1(d, NextType(d))
    BY Zenon, <1>3, <2>1, <2>3, NextTypeOK
  <2> QED
    BY Zenon, <2>1, <2>2, <2>4 DEF Next1
<1>4. CASE c.op = "list_blocks"
  <2>1. AfterList(c) = [c EXCEPT !.at = "ok"]
    BY Zenon, <1>4 DEF AfterList, Returned
  <2> QED
    BY <1>1, <1>4, <2>1 DEF Next1, Shape, Looping, NoCall, Uploaders, Downloaders, Uploading, Downloading, Exchanges
<1> QED
  BY Zenon, <1>1, <1>2, <1>3, <1>4

\* What a task that owns the mutex is at.
LEMMA AtStage ==
  ASSUME IInv, NEW t \in Tasks, NEW x \in Exchanges, At(t, x)
  PROVE  /\ Owns(t) /\ call[t].at = x /\ call[t].at \in Exchanges
         /\ CallOK(call[t], blocks, image) /\ DOMAIN call[t] = DOMAIN NoCall
         /\ blocks \in Memory /\ image \in Image
BY Zenon DEF IInv, At, CallOK, Shape

\* The usize::min of two lengths.
LEMMA LesserOf ==
  ASSUME NEW m \in Nat, NEW n \in Nat
  PROVE  Min({m, n}) = IF m <= n THEN m ELSE n
<1>1. \E x \in {m, n} : \A y \in {m, n} : x <= y
  OBVIOUS
<1>2. Min({m, n}) \in {m, n} /\ \A y \in {m, n} : Min({m, n}) <= y
  BY Zenon, <1>1 DEF Min
<1> QED
  BY <1>2

\* A chunk continues what was transferred, and a short one completes it.
ChunkOK(d, off, e) ==
  /\ e \in Nat /\ off <= e /\ e <= Len(d) /\ Len(d) \in Nat
  /\ SubSeq(d, off + 1, e) \in Seq(Bytes) /\ Len(SubSeq(d, off + 1, e)) = e - off
  /\ SubSeq(d, 1, off) \o SubSeq(d, off + 1, e) = SubSeq(d, 1, e)
  /\ e - off < Chunk => e = Len(d)
  /\ e = Len(d) => SubSeq(d, 1, e) = d

\* The PLC lists numbers of blocks there are.
LEMMA LeftAreKeys ==
  ASSUME NEW c, NEW n \in Left(c)
  PROVE  n \in Nat /\ <<Head(c.types), n>> \in Keys
<1>1. PICK k \in Keys : k[1] = Head(c.types) /\ n = k[2]
  BY Zenon DEF Left, NumbersOf, Present
<1>2. k \in STRING \X Nat
  BY Zenon, BlockConstants
<1>3. k = <<k[1], k[2]>> /\ k[2] \in Nat
  BY <1>2
<1> QED
  BY Zenon, <1>1, <1>3

-----------------------------------------------------------------------------
(* db_fill, forcing and jobs                                               *)

\* Bytes of a block are overwritten by bytes, and it keeps its length.
LEMMA FilledBytes ==
  ASSUME NEW old \in Seq(Bytes), NEW data \in Seq(Bytes), NEW off \in Nat, NEW e \in Nat, e <= Len(data)
  PROVE  Filled(old, data, off, e) \in [DOMAIN old -> Bytes] /\ Filled(old, data, off, e) \in Seq(Bytes)
<1>1. DOMAIN old = 1..Len(old) /\ Len(old) \in Nat
  OBVIOUS
<1>2. ASSUME NEW i \in DOMAIN old PROVE (IF i \in (off + 1)..e THEN data[i] ELSE old[i]) \in Bytes
  <2>1. old[i] \in Bytes
    OBVIOUS
  <2>2. ASSUME i \in (off + 1)..e PROVE data[i] \in Bytes
    <3>1. i \in 1..Len(data)
      BY <2>2
    <3> QED
      BY <3>1
  <2> QED
    BY Zenon, <2>1, <2>2
<1>3. Filled(old, data, off, e) \in [DOMAIN old -> Bytes]
  BY Zenon, <1>2 DEF Filled
<1> QED
  BY <1>1, <1>3

\* What force_bit and force_byte write to the image.
NewByte(c) == IF c.op = "force_bit" THEN Forced(c.data[1], c.key[2], c.key[3]) ELSE c.data[1]

-----------------------------------------------------------------------------
(* The specification                                                       *)

\* At first nobody is called.
LEMMA BlocksStart == ASSUME Init PROVE IInv /\ Store!Init
<1>1. /\ call = [t \in Tasks |-> NoCall] /\ queue = <<>> /\ blocks \in [Keys -> Contents \cup {None}]
      /\ image = [b \in {WireByte(f) : f \in ForceBytes} |-> {}]
  BY Zenon, BlockConstants DEF Init
<1>2. blocks \in Memory /\ image \in Image /\ queue \in Seq(Tasks)
  BY <1>1, BlockConstants DEF Memory, Image
<1>3. \A t \in Tasks : call[t] = NoCall
  BY Zenon, <1>1
<1>4. /\ CallOK(NoCall, blocks, image) /\ NoCall.at \notin Holding /\ NoCall.read = NothingRead
      /\ OfferOf(NoCall) = None
  BY Zenon, IdleCall, NoOffer DEF Holding, Exchanges
<1>5. IInv
  BY Zenon, <1>1, <1>2, <1>3, <1>4 DEF IInv
<1>6. Offer = [t \in Tasks |-> None]
  <2>1. \A t \in Tasks : OfferOf(call[t]) = None
    BY Zenon, <1>3, <1>4
  <2> QED
    BY Zenon, <2>1 DEF Offer, OfferOf, Downloaders
<1>7. ReadSoFar = [t \in Tasks |-> [k \in Keys |-> None]]
  BY Zenon, <1>3, <1>4 DEF ReadSoFar, NothingRead
<1> QED
  BY Zenon, <1>1, <1>5, <1>6, <1>7 DEF Store!Init

\* Every step keeps the invariant, and is a step of BlockStore or none at all: first what
\* the steps have in common, then every exchange and every call by itself.
LEMMA BlockOpsStep == IInv /\ [Orderly]_vars => Step
\* A task leaves the queue; if it was not first, who was first stays so.
<1>LeavesQueue.
  ASSUME NEW S, NEW q \in Seq(S), NEW t
  PROVE  /\ Without(q, t) \in Seq(S)
         /\ q # <<>> /\ Head(q) # t => Without(q, t) # <<>> /\ Head(Without(q, t)) = Head(q)
  <2> USE <1>LeavesQueue
  <2> DEFINE w == Without(q, t)
  <2>1. CASE Places(q, t) = {}
    BY Zenon, <2>1 DEF Without
  <2>2. CASE Places(q, t) # {}
    <3>1. PICK k \in Places(q, t) : w = DropAt(q, k)
      BY Zenon, <2>2 DEF Without
    <3>2. k \in 1..Len(q) /\ q[k] = t /\ Len(q) \in Nat
      BY <3>1 DEF Places
    <3>3. /\ DropAt(q, k) \in Seq(S) /\ Len(DropAt(q, k)) = Len(q) - 1
          /\ \A i \in 1..(Len(q) - 1) : DropAt(q, k)[i] = IF i < k THEN q[i] ELSE q[i + 1]
      BY Zenon, <3>2, DropAtProperties
    <3> HIDE DEF w
    <3>4. ASSUME q # <<>>, Head(q) # t PROVE w # <<>> /\ Head(w) = Head(q)
      <4>1. Head(q) = q[1] /\ 1 < k
        BY <3>2, <3>4
      <4>2. 1 \in 1..(Len(q) - 1) /\ w[1] = q[1] /\ Len(w) >= 1
        BY <3>1, <3>2, <3>3, <4>1
      <4>3. w \in Seq(S)
        BY Zenon, <3>1, <3>3
      <4> QED
        BY <4>1, <4>2, <4>3
    <3> QED
      BY Zenon, <3>1, <3>3, <3>4 DEF w
  <2> QED
    BY Zenon, <2>1, <2>2
\* One exchange of the task that owns the mutex, and what it does to the others.
<1>Advances. \A t \in Tasks, b \in Memory, im \in Image : \A c :
  IInv /\ Owns(t) /\ Advance(t, c, b, im) /\ CallOK(c, b, im) =>
    /\ IInv' /\ blocks' = b
    /\ Offer' = [Offer EXCEPT ![t] = OfferOf(c)]
    /\ ReadSoFar' = [ReadSoFar EXCEPT ![t] = c.read]
  \* Nor when another task changed the PLC's memory between two of its exchanges; for
  \* force_bit, whose read and write are two exchanges, that is noted.
  <2>DisturbedAlike.
    ASSUME NEW c, NEW b, DOMAIN c = DOMAIN NoCall
    PROVE  /\ Alike(c, Seen(Disturbed(c), b))
           /\ c.op = "force_bit" => Seen(Disturbed(c), b).quiet = FALSE
    <3> USE <2>DisturbedAlike
    <3>1. Alike(c, Disturbed(c)) /\ (c.op = "force_bit" => Disturbed(c).quiet = FALSE)
      BY Zenon DEF NoCall, Alike, Disturbed, Piecewise
    <3> QED
      BY <3>1, SeenAlike DEF Alike
  \* So the call is as good as it was.
  <2>AlikeOK.
    ASSUME NEW c, NEW d, NEW b, NEW im, CallOK(c, b, im), Alike(c, d), d.quiet = c.quiet
    PROVE  CallOK(d, b, im)
    <3> USE <2>AlikeOK
    <3>1. Shape(d)
      BY DEF CallOK, Alike, Shape, Looping
    <3>2. Sent(d) /\ Got(d, b)
      BY Zenon DEF CallOK, Alike, Sent, Got
    <3>3. Forcing(d, im)
      BY Zenon DEF CallOK, Alike, Forcing
    <3> QED
      BY Zenon, <3>1, <3>2, <3>3 DEF CallOK
  \* A call that does not hold the mutex, when the PLC's memory changes.
  <2>DisturbedOK.
    ASSUME NEW c, NEW d, NEW b, NEW im, NEW b2, NEW im2, CallOK(c, b, im), Alike(c, d),
           c.at \notin Holding, c.op = "force_bit" => d.quiet = FALSE
    PROVE  CallOK(d, b2, im2)
    <3> USE <2>DisturbedOK
    <3>1. Shape(d)
      BY DEF CallOK, Alike, Shape, Looping
    <3>2. Sent(d) /\ Got(d, b2)
      BY Zenon DEF CallOK, Alike, Sent, Got, Holding
    <3>3. Forcing(d, im2)
      BY Zenon DEF CallOK, Alike, Forcing
    <3> QED
      BY Zenon, <3>1, <3>2, <3>3 DEF CallOK
  \* The call of t goes on with an exchange, and the others at most see it.
  <2>OthersKeep.
    ASSUME IInv, NEW t \in Tasks, NEW u \in Tasks, u # t, NEW c, NEW b, NEW im, Owns(t), Advance(t, c, b, im)
    PROVE  CallOK(call'[u], b, im) /\ Alike(call[u], call'[u]) /\ call'[u].at \notin Holding
    <3> USE <2>OthersKeep
    <3>1. call[u].at \notin Holding /\ CallOK(call[u], blocks, image)
      BY Zenon DEF IInv, Owns
    <3>2. call'[u] = IF b = blocks /\ im = image THEN call[u] ELSE Seen(Disturbed(call[u]), b)
      BY Zenon DEF Advance
    <3>3. DOMAIN call[u] = DOMAIN NoCall
      BY Zenon, <3>1 DEF CallOK, Shape
    <3>4. CASE b = blocks /\ im = image
      BY Zenon, <3>1, <3>2, <3>3, <3>4 DEF Alike
    <3>5. CASE ~(b = blocks /\ im = image)
      <4>1. call'[u] = Seen(Disturbed(call[u]), b)
        BY Zenon, <3>2, <3>5
      <4>2. Alike(call[u], call'[u]) /\ (call[u].op = "force_bit" => call'[u].quiet = FALSE)
        BY Zenon, <3>3, <4>1, <2>DisturbedAlike
      <4>3. CallOK(call'[u], b, im)
        BY Zenon, <3>1, <4>2, <2>DisturbedOK
      <4> QED
        BY Zenon, <3>1, <4>2, <4>3 DEF Alike
    <3> QED
      BY Zenon, <3>4, <3>5
  \* One exchange of the task that owns the mutex: if its own call comes out right, the
  \* invariant holds, and the mapped variables of BlockStore change at that task alone.
  <2>Advances.
    ASSUME IInv, NEW t \in Tasks, NEW c, NEW b \in Memory, NEW im \in Image, Owns(t), Advance(t, c, b, im),
           CallOK(c, b, im)
    PROVE  /\ IInv' /\ blocks' = b
           /\ Offer' = [Offer EXCEPT ![t] = OfferOf(c)]
           /\ ReadSoFar' = [ReadSoFar EXCEPT ![t] = c.read]
    <3> USE <2>Advances
    <3>1. blocks' = b /\ image' = im /\ call' = [u \in Tasks |-> call'[u]] /\ call'[t] = Seen(c, b)
      BY Zenon DEF Advance
    <3>2. Alike(c, call'[t]) /\ call'[t].quiet = c.quiet
      BY <3>1, SeenAlike DEF CallOK, Shape
    <3>3. CallOK(call'[t], b, im)
      BY Zenon, <3>2, <2>AlikeOK
    <3>4. ASSUME NEW u \in Tasks, u # t
          PROVE  CallOK(call'[u], b, im) /\ Alike(call[u], call'[u]) /\ call'[u].at \notin Holding
      BY Zenon, <3>4, <2>OthersKeep
    <3>5. queue' \in Seq(Tasks) /\ (call'[t].at \in Holding => Owns(t)')
      <4>1. queue \in Seq(Tasks) /\ call'[t].at = c.at
        BY Zenon, <3>2 DEF IInv, Alike
      <4>2. Without(queue, t) \in Seq(Tasks)
        BY Zenon, <4>1, <1>LeavesQueue
      <4> QED
        BY <4>1, <4>2 DEF Advance, Owns
    <3>6. IInv'
      BY Zenon, <3>1, <3>3, <3>4, <3>5 DEF IInv
    <3>7. ASSUME NEW u \in Tasks PROVE Offer'[u] = [Offer EXCEPT ![t] = OfferOf(c)][u]
      <4>1. Offer'[u] = OfferOf(call'[u]) /\ Offer[u] = OfferOf(call[u]) /\ DOMAIN Offer = Tasks
        BY Zenon DEF Offer, OfferOf, Downloaders
      <4> QED
        BY <3>2, <3>4, <4>1 DEF Alike, OfferOf
    <3>8. ASSUME NEW u \in Tasks PROVE ReadSoFar'[u] = [ReadSoFar EXCEPT ![t] = c.read][u]
      BY Zenon, <3>2, <3>4 DEF Alike, ReadSoFar
    <3>9. Offer' = [Offer EXCEPT ![t] = OfferOf(c)]
      BY Zenon, <3>7 DEF Offer
    <3>10. ReadSoFar' = [ReadSoFar EXCEPT ![t] = c.read]
      BY Zenon, <3>8 DEF ReadSoFar
    <3> QED
      BY Zenon, <3>1, <3>6, <3>9, <3>10
  <2> QED
    BY Zenon, <2>Advances
\* What the refinement mapping gives for one task.
<1>MapTypes.
  ASSUME NEW t \in Tasks
  PROVE  /\ Offer = [Offer EXCEPT ![t] = OfferOf(call[t])] /\ Offer[t] = OfferOf(call[t])
         /\ ReadSoFar = [ReadSoFar EXCEPT ![t] = call[t].read] /\ ReadSoFar[t] = call[t].read
         /\ DOMAIN ReadSoFar = Tasks
  BY Zenon, <1>MapTypes DEF Offer, OfferOf, Downloaders, ReadSoFar
\* Nothing is read or installed.
<1>GoesOn.
  ASSUME IInv, NEW t \in Tasks, NEW c, Owns(t), Go(t, c), CallOK(c, blocks, image),
         OfferOf(c) = OfferOf(call[t]), c.read = call[t].read
  PROVE  Step
  <2> USE <1>GoesOn
  <2>1. blocks \in Memory /\ image \in Image /\ Advance(t, c, blocks, image)
    BY Zenon DEF IInv, Go
  <2>2. /\ IInv' /\ blocks' = blocks /\ Offer' = [Offer EXCEPT ![t] = OfferOf(c)]
        /\ ReadSoFar' = [ReadSoFar EXCEPT ![t] = c.read]
    BY <2>1, <1>Advances
  <2> QED
    BY Zenon, <2>2, <1>MapTypes DEF Step
\* A call ends or begins.
<1>StoreCall.
  ASSUME NEW t \in Tasks, NEW o \in (Keys \X Contents) \cup {None}, blocks' = blocks,
         Offer' = [Offer EXCEPT ![t] = o], ReadSoFar' = [ReadSoFar EXCEPT ![t] = NothingRead]
  PROVE  Store!Whole
  <2> USE <1>StoreCall
  <2>1. Store!Call(t)
    BY Zenon DEF Store!Call, NothingRead
  <2> QED
    BY Zenon, <2>1 DEF Store!Whole
\* A call returns an error, or Ok with nothing to hand out.
<1>GoesIdle.
  ASSUME IInv, NEW t \in Tasks, Owns(t), Go(t, NoCall)
  PROVE  Step
  <2> USE <1>GoesIdle
  <2>1. blocks \in Memory /\ image \in Image /\ Advance(t, NoCall, blocks, image)
    BY Zenon DEF IInv, Go
  <2>2. CallOK(NoCall, blocks, image) /\ NoCall.read = NothingRead
    BY Zenon, IdleCall
  <2>3. /\ IInv' /\ blocks' = blocks /\ Offer' = [Offer EXCEPT ![t] = OfferOf(NoCall)]
        /\ ReadSoFar' = [ReadSoFar EXCEPT ![t] = NoCall.read]
    BY <2>1, <2>2, <1>Advances
  <2>4. Store!Whole
    BY Zenon, <2>2, <2>3, NoOffer, <1>StoreCall
  <2> QED
    BY Zenon, <2>3, <2>4 DEF Step
\* An upload panics.
<1>GoesPanicked.
  ASSUME IInv, NEW t \in Tasks, Owns(t), Go(t, Panicked)
  PROVE  Step
  <2> USE <1>GoesPanicked
  <2>1. blocks \in Memory /\ image \in Image /\ Advance(t, Panicked, blocks, image)
    BY Zenon DEF IInv, Go
  <2>2. CallOK(Panicked, blocks, image) /\ Panicked.read = NothingRead /\ OfferOf(Panicked) = None
    BY Zenon, PanickedCall
  <2>3. /\ IInv' /\ blocks' = blocks /\ Offer' = [Offer EXCEPT ![t] = OfferOf(Panicked)]
        /\ ReadSoFar' = [ReadSoFar EXCEPT ![t] = Panicked.read]
    BY <2>1, <2>2, <1>Advances
  <2>4. Store!Whole
    BY Zenon, <2>2, <2>3, <1>StoreCall
  <2> QED
    BY Zenon, <2>3, <2>4 DEF Step
\* A call begins.
<1>Begins.
  ASSUME IInv, NEW t \in Tasks, NEW c, Begin(t, c), CallOK(c, blocks, image), c.at \notin Holding,
         c.read = NothingRead
  PROVE  Step
  <2> USE <1>Begins
  <2>1. /\ call' = [call EXCEPT ![t] = c] /\ queue' = Append(queue, t)
        /\ blocks' = blocks /\ image' = image
    BY Zenon DEF Begin
  <2>2. /\ queue \in Seq(Tasks) /\ call = [u \in Tasks |-> call[u]]
        /\ \A u \in Tasks : CallOK(call[u], blocks, image) /\ (call[u].at \in Holding => Owns(u))
    BY Zenon DEF IInv
  <2>3. call'[t] = c /\ call' = [u \in Tasks |-> call'[u]] /\ \A u \in Tasks \ {t} : call'[u] = call[u]
    BY Zenon, <2>1, <2>2
  <2>4. queue' \in Seq(Tasks) /\ (queue # <<>> => queue' # <<>> /\ Head(queue') = Head(queue))
    BY <2>1, <2>2
  <2>5. \A u \in Tasks : Owns(u) => Owns(u)'
    BY Zenon, <2>4 DEF Owns
  <2>6. IInv'
    BY Zenon, <2>1, <2>2, <2>3, <2>4, <2>5 DEF IInv
  <2>7. OfferOf(c) \in (Keys \X Contents) \cup {None}
    BY Zenon DEF OfferOf, CallOK, Sent
  <2>8. Offer' = [Offer EXCEPT ![t] = OfferOf(c)] /\ ReadSoFar' = [ReadSoFar EXCEPT ![t] = NothingRead]
    BY Zenon, <2>3 DEF Offer, OfferOf, ReadSoFar, Downloaders
  <2>9. Store!Whole
    BY Zenon, <2>1, <2>7, <2>8, <1>StoreCall
  <2> QED
    BY Zenon, <2>6, <2>9 DEF Step
\* A call that is over, or is given up, is forgotten.
<1>Forgotten.
  ASSUME IInv, NEW t \in Tasks, Collect(t) \/ Abandon(t)
  PROVE  Step
  <2> USE <1>Forgotten
  <2>1. /\ call' = [call EXCEPT ![t] = NoCall] /\ blocks' = blocks /\ image' = image
        /\ queue' = queue \/ queue' = Without(queue, t)
    BY Zenon DEF Collect, Abandon
  <2>2. /\ queue \in Seq(Tasks) /\ call = [u \in Tasks |-> call[u]]
        /\ \A u \in Tasks : CallOK(call[u], blocks, image) /\ (call[u].at \in Holding => Owns(u))
    BY Zenon DEF IInv
  <2>3. call'[t] = NoCall /\ call' = [u \in Tasks |-> call'[u]] /\ \A u \in Tasks \ {t} : call'[u] = call[u]
    BY Zenon, <2>1, <2>2
  <2>4. queue' \in Seq(Tasks) /\ \A u \in Tasks \ {t} : Owns(u) => Owns(u)'
    <3>1. /\ Without(queue, t) \in Seq(Tasks)
          /\ queue # <<>> /\ Head(queue) # t =>
               Without(queue, t) # <<>> /\ Head(Without(queue, t)) = Head(queue)
      BY Zenon, <2>2, <1>LeavesQueue
    <3> QED
      BY Zenon, <2>1, <2>2, <3>1 DEF Owns
  <2>5. CallOK(NoCall, blocks, image) /\ NoCall.at \notin Holding /\ NoCall.read = NothingRead
    BY Zenon, IdleCall DEF Holding, Exchanges
  <2>6. IInv'
    BY Zenon, <2>1, <2>2, <2>3, <2>4, <2>5 DEF IInv
  <2>7. Offer' = [Offer EXCEPT ![t] = OfferOf(NoCall)] /\ ReadSoFar' = [ReadSoFar EXCEPT ![t] = NothingRead]
    BY Zenon, <2>3, <2>5 DEF Offer, OfferOf, ReadSoFar, Downloaders
  <2>8. Store!Whole
    BY Zenon, <2>1, <2>7, NoOffer, <1>StoreCall
  <2> QED
    BY Zenon, <2>6, <2>8 DEF Step
\* What a loop goes on with holds nothing of a transfer.
<1>BetweenOK.
  ASSUME NEW c, NEW d, NEW b, NEW im, c.op \in Uploaders \cup {"list_blocks"}, Next1(c, d)
  PROVE  CallOK(d, b, im) /\ OfferOf(d) = None /\ d.at \notin Holding
  BY Zenon, <1>BetweenOK DEF Next1, CallOK, Sent, Got, Forcing, OfferOf, Uploaders, Downloaders, Holding
\* A call begins.
<1>BeginStep. \A t \in Tasks :
  IInv /\ (\/ CallUpload(t) \/ CallDownload(t) \/ CallList(t) \/ CallUploadAll(t) \/ CallCompare(t)
           \/ CallFill(t) \/ CallForce(t) \/ CallJob(t)) => Step
  \* Calls that read, list, fill, force or ask for a job.
  <2>StartsCall.
    ASSUME IInv, NEW t \in Tasks, NEW c, Begin(t, c), Shape(c), Forcing(c, image), c.at \notin Holding,
           c.op \notin Downloaders, c.read = NothingRead
    PROVE  Step
    <3> USE <2>StartsCall
    <3>1. CallOK(c, blocks, image)
      BY Zenon DEF CallOK, Sent, Got, Holding
    <3> QED
      BY Zenon, <3>1, <1>Begins
  \* upload and full_upload are called.
  <2>CallUploadStep. ASSUME IInv, NEW t \in Tasks, CallUpload(t) PROVE Step
    <3> USE <2>CallUploadStep
    <3>1. PICK op \in {"upload", "full_upload"}, k \in Keys :
            Begin(t, [NoCall EXCEPT !.op = op, !.at = "up_start", !.key = k])
      BY Zenon DEF CallUpload
    <3> DEFINE c == [NoCall EXCEPT !.op = op, !.at = "up_start", !.key = k]
    <3>2. /\ Shape(c) /\ Forcing(c, image) /\ c.at \notin Holding /\ c.op \notin Downloaders
          /\ c.read = NothingRead
      BY Zenon DEF NoCall, Shape, Forcing, Holding, Downloaders, Uploaders, Uploading, Downloading, Exchanges, NothingRead
    <3> QED
      BY Zenon, <3>1, <3>2, <2>StartsCall
  \* download and create_db are called.
  <2>CallDownloadStep. ASSUME IInv, NEW t \in Tasks, CallDownload(t) PROVE Step
    <3> USE <2>CallDownloadStep
    <3>1. PICK op \in Downloaders, k \in Keys, d \in Contents :
            Begin(t, [NoCall EXCEPT !.op = op, !.at = "down_start", !.key = k, !.data = d])
      BY Zenon, BlockConstants DEF CallDownload, Downloaders
    <3> DEFINE c == [NoCall EXCEPT !.op = op, !.at = "down_start", !.key = k, !.data = d]
    <3>2. d \in Seq(Bytes) /\ SubSeq(d, 1, 0) = <<>> /\ Len(d) \in Nat
      BY BlockConstants
    <3>3. /\ c.op = op /\ c.at = "down_start" /\ c.key = k /\ c.data = d /\ c.off = 0 /\ c.buf = <<>>
          /\ c.read = NothingRead /\ DOMAIN c = DOMAIN NoCall
      BY Zenon DEF NoCall, NothingRead
    <3> HIDE DEF c
    <3>4. Shape(c)
      BY Zenon, <3>3 DEF Shape, Downloaders, Uploaders, Uploading, Downloading, Exchanges
    <3>5. Sent(c) /\ Got(c, blocks) /\ Forcing(c, image) /\ c.at \notin Holding
      BY <3>2, <3>3 DEF Sent, Got, Forcing, Holding, Downloaders
    <3>6. CallOK(c, blocks, image)
      BY Zenon, <3>4, <3>5 DEF CallOK
    <3> QED
      BY Zenon, <3>1, <3>3, <3>5, <3>6, <1>Begins DEF c
  \* list_blocks is called.
  <2>CallListStep. ASSUME IInv, NEW t \in Tasks, CallList(t) PROVE Step
    <3> USE <2>CallListStep
    <3>1. PICK i \in DOMAIN BlockTypes :
            Begin(t, [NoCall EXCEPT !.op = "list_blocks", !.at = "page", !.types = <<BlockTypes[i]>>,
                                    !.always = Present(blocks), !.ever = Present(blocks)])
      BY Zenon DEF CallList
    <3> DEFINE c == [NoCall EXCEPT !.op = "list_blocks", !.at = "page", !.types = <<BlockTypes[i]>>,
                                   !.always = Present(blocks), !.ever = Present(blocks)]
    <3>2. <<BlockTypes[i]>> \in Seq(STRING) /\ <<BlockTypes[i]>> # <<>> /\ <<>> \in Seq(Keys \X Seq(Bytes))
      BY BlockConstants
    <3>3. /\ c.op = "list_blocks" /\ c.at = "page" /\ c.types = <<BlockTypes[i]>> /\ c.nums = {} /\ c.todo = <<>>
          /\ c.data = <<>> /\ c.off = 0 /\ c.read = NothingRead /\ DOMAIN c = DOMAIN NoCall
      BY Zenon DEF NoCall, NothingRead
    <3> HIDE DEF c
    <3>4. Shape(c) /\ Forcing(c, image) /\ c.at \notin Holding /\ c.op \notin Downloaders
      BY Zenon, <3>2, <3>3 DEF Shape, Looping, Forcing, Holding, Downloaders, Uploaders, Uploading, Downloading, Exchanges
    <3> QED
      BY Zenon, <3>1, <3>3, <3>4, <2>StartsCall DEF c
  \* A call that loops over blocks begins with the first of them.
  <2>StartsLoop.
    ASSUME IInv, NEW t \in Tasks, NEW c, NEW d, c.op \in Uploaders, c.read = NothingRead, Next1(c, d), Begin(t, d)
    PROVE  Step
    <3> USE <2>StartsLoop
    <3>1. CallOK(d, blocks, image) /\ d.at \notin Holding
      BY Zenon, <1>BetweenOK
    <3> QED
      BY Zenon, <3>1, <1>Begins DEF Next1
  \* upload_all_blocks is called.
  <2>CallUploadAllStep. ASSUME IInv, NEW t \in Tasks, CallUploadAll(t) PROVE Step
    <3> USE <2>CallUploadAllStep
    <3> DEFINE c == [NoCall EXCEPT !.op = "upload_all_blocks", !.types = BlockTypes]
    <3>1. /\ c.op = "upload_all_blocks" /\ c.types = BlockTypes /\ c.todo = <<>> /\ c.data = <<>> /\ c.off = 0
          /\ c.read = NothingRead /\ DOMAIN c = DOMAIN NoCall
      BY Zenon DEF NoCall, NothingRead
    <3>2. Begin(t, NextType(c))
      BY Zenon DEF CallUploadAll
    <3> HIDE DEF c
    <3>3. BlockTypes \in Seq(STRING) /\ <<>> \in Seq(Keys \X Seq(Bytes))
      BY BlockConstants
    <3>4. Next1(c, NextType(c))
      BY Zenon, <3>1, <3>3, NextTypeOK
    <3> QED
      BY <3>1, <3>2, <3>4, <2>StartsLoop DEF Uploaders
  \* compare_blocks is called.
  <2>CallCompareStep. ASSUME IInv, NEW t \in Tasks, CallCompare(t) PROVE Step
    <3> USE <2>CallCompareStep
    <3>1. PICK l \in Locals, p \in BOOLEAN :
            Begin(t, NextLocal([NoCall EXCEPT !.op = "compare_blocks", !.todo = Known(l), !.local = Known(l),
                                              !.plcOnly = p]))
      BY Zenon DEF CallCompare
    <3> DEFINE c == [NoCall EXCEPT !.op = "compare_blocks", !.todo = Known(l), !.local = Known(l), !.plcOnly = p]
    <3>2. /\ c.op = "compare_blocks" /\ c.types = <<>> /\ c.todo = Known(l) /\ c.data = <<>> /\ c.off = 0
          /\ c.read = NothingRead /\ DOMAIN c = DOMAIN NoCall
      BY Zenon DEF NoCall, NothingRead
    <3>6. Begin(t, NextLocal(c))
      BY Zenon, <3>1
    <3> HIDE DEF c
    <3>3. Known(l) \in Seq(Keys \X Seq(Bytes)) /\ <<>> \in Seq(STRING)
      BY BlockConstants
    <3>4. Between(c)
      BY Zenon, <3>2, <3>3 DEF Between, Looping, Uploaders
    <3>5. Next1(c, NextLocal(c))
      BY Zenon, <3>2, <3>4, NextLocalOK
    <3> QED
      BY <3>2, <3>5, <3>6, <2>StartsLoop DEF Uploaders
  \* db_fill is called.
  <2>CallFillStep. ASSUME IInv, NEW t \in Tasks, CallFill(t) PROVE Step
    <3> USE <2>CallFillStep
    <3>1. PICK k \in Keys, v \in FillValues :
            Begin(t, [NoCall EXCEPT !.op = "db_fill", !.at = "info", !.key = k, !.data = <<v>>])
      BY Zenon DEF CallFill
    <3> DEFINE c == [NoCall EXCEPT !.op = "db_fill", !.at = "info", !.key = k, !.data = <<v>>]
    <3>2. /\ c.op = "db_fill" /\ c.at = "info" /\ c.key = k /\ c.data[1] = v /\ c.off = 0
          /\ c.read = NothingRead /\ DOMAIN c = DOMAIN NoCall
      BY Zenon DEF NoCall, NothingRead
    <3> HIDE DEF c
    <3>3. Shape(c) /\ Forcing(c, image) /\ c.at \notin Holding /\ c.op \notin Downloaders
      BY <3>2 DEF Shape, Forcing, Holding, Downloaders, Uploaders, Uploading, Downloading, Exchanges
    <3> QED
      BY Zenon, <3>1, <3>2, <3>3, <2>StartsCall DEF c
  \* force_bit or force_byte is called.
  <2>CallForceStep. ASSUME IInv, NEW t \in Tasks, CallForce(t) PROVE Step
    <3> USE <2>CallForceStep
    <3>1. CASE \E b \in ForceBytes, i \in Bits, v \in BOOLEAN :
                 Begin(t, [NoCall EXCEPT !.op = "force_bit", !.at = "byte_read", !.key = <<b, i, v>>])
      <4>1. PICK b \in ForceBytes, i \in Bits, v \in BOOLEAN :
              Begin(t, [NoCall EXCEPT !.op = "force_bit", !.at = "byte_read", !.key = <<b, i, v>>])
        BY Zenon, <3>1
      <4> DEFINE c == [NoCall EXCEPT !.op = "force_bit", !.at = "byte_read", !.key = <<b, i, v>>]
      <4>2. /\ c.op = "force_bit" /\ c.at = "byte_read" /\ c.key[1] = b /\ c.key[2] = i
            /\ c.read = NothingRead /\ DOMAIN c = DOMAIN NoCall
        BY Zenon DEF NoCall, NothingRead
      <4> HIDE DEF c
      <4>3. Shape(c) /\ Forcing(c, image) /\ c.at \notin Holding /\ c.op \notin Downloaders
        BY Zenon, <4>2 DEF Shape, Forcing, Holding, Downloaders, Uploaders, Uploading, Downloading, Exchanges
      <4> QED
        BY Zenon, <4>1, <4>2, <4>3, <2>StartsCall DEF c
    <3>2. CASE \E b \in ForceBytes, s \in {{}, Bits} :
                 Begin(t, [NoCall EXCEPT !.op = "force_byte", !.at = "byte_write", !.key = <<b>>, !.data = <<s>>])
      <4>1. PICK b \in ForceBytes, s \in {{}, Bits} :
              Begin(t, [NoCall EXCEPT !.op = "force_byte", !.at = "byte_write", !.key = <<b>>, !.data = <<s>>])
        BY Zenon, <3>2
      <4> DEFINE c == [NoCall EXCEPT !.op = "force_byte", !.at = "byte_write", !.key = <<b>>, !.data = <<s>>]
      <4>2. /\ c.op = "force_byte" /\ c.at = "byte_write" /\ c.key[1] = b /\ c.data[1] = s
            /\ c.read = NothingRead /\ DOMAIN c = DOMAIN NoCall
        BY Zenon DEF NoCall, NothingRead
      <4> HIDE DEF c
      <4>3. Shape(c) /\ Forcing(c, image) /\ c.at \notin Holding /\ c.op \notin Downloaders
        BY Zenon, <4>2 DEF Shape, Forcing, Holding, Downloaders, Uploaders, Uploading, Downloading, Exchanges
      <4> QED
        BY Zenon, <4>1, <4>2, <4>3, <2>StartsCall DEF c
    <3> QED
      BY Zenon, <3>1, <3>2 DEF CallForce
  \* An operation of one exchange is called: delete_block, memory_reset and the like.
  <2>CallJobStep. ASSUME IInv, NEW t \in Tasks, CallJob(t) PROVE Step
    <3> USE <2>CallJobStep
    <3>1. ASSUME NEW c, c.op \in Jobs, c.at = "job", c.op = "delete_block" => c.key \in Keys,
                 c.read = NothingRead, DOMAIN c = DOMAIN NoCall, Begin(t, c)
          PROVE  Step
      <4>1. Shape(c) /\ Forcing(c, image) /\ c.at \notin Holding /\ c.op \notin Downloaders
        BY Zenon, <3>1 DEF Shape, Forcing, Holding, Downloaders, Uploaders, Uploading, Downloading, Exchanges, Jobs
      <4> QED
        BY Zenon, <3>1, <4>1, <2>StartsCall
    <3>2. CASE \E op \in Jobs \ {"delete_block"} : Begin(t, [NoCall EXCEPT !.op = op, !.at = "job"])
      <4>1. PICK op \in Jobs \ {"delete_block"} : Begin(t, [NoCall EXCEPT !.op = op, !.at = "job"])
        BY Zenon, <3>2
      <4> DEFINE c == [NoCall EXCEPT !.op = op, !.at = "job"]
      <4>2. c.op = op /\ c.at = "job" /\ c.read = NothingRead /\ DOMAIN c = DOMAIN NoCall
        BY Zenon DEF NoCall, NothingRead
      <4> QED
        BY Zenon, <3>1, <4>1, <4>2
    <3>3. CASE \E k \in Keys : Begin(t, [NoCall EXCEPT !.op = "delete_block", !.at = "job", !.key = k])
      <4>1. PICK k \in Keys : Begin(t, [NoCall EXCEPT !.op = "delete_block", !.at = "job", !.key = k])
        BY Zenon, <3>3
      <4> DEFINE c == [NoCall EXCEPT !.op = "delete_block", !.at = "job", !.key = k]
      <4>2. /\ c.op = "delete_block" /\ c.op \in Jobs /\ c.at = "job" /\ c.key = k
            /\ c.read = NothingRead /\ DOMAIN c = DOMAIN NoCall
        BY Zenon DEF NoCall, NothingRead, Jobs
      <4> QED
        BY Zenon, <3>1, <4>1, <4>2
    <3> QED
      BY Zenon, <3>2, <3>3 DEF CallJob
  <2> QED
    BY Zenon, <2>CallUploadStep, <2>CallDownloadStep, <2>CallListStep, <2>CallUploadAllStep, <2>CallCompareStep, <2>CallFillStep,
     <2>CallForceStep, <2>CallJobStep
\* A call ends, or compare_blocks goes on with the next block.
<1>FailedOK.
  ASSUME NEW c, NEW missing \in BOOLEAN, Shape(c), c.at \in Exchanges
  PROVE  Failed(c, missing) = NoCall \/ (c.op = "compare_blocks" /\ Next1(c, Failed(c, missing)))
  <2> USE <1>FailedOK
  <2>1. CASE c.op = "compare_blocks" /\ c.at \in Uploading
    <3> DEFINE d == [c EXCEPT !.cut = c.cut \/ ~missing]
    <3>1. Failed(c, missing) = AfterBlock(d)
      BY Zenon, <2>1 DEF Failed, Uploading
    <3>2. /\ DOMAIN d = DOMAIN NoCall /\ d.op = c.op /\ d.read = c.read /\ d.types = c.types
          /\ d.nums = c.nums /\ d.todo = c.todo
      BY Zenon DEF Shape, NoCall
    <3> HIDE DEF d
    <3>3. Between(d)
      BY Zenon, <2>1, <3>2 DEF Between, Shape, Looping, Uploaders
    <3>4. Next1(d, AfterBlock(d))
      BY Zenon, <2>1, <3>2, <3>3, AfterBlockOK
    <3> QED
      BY Zenon, <2>1, <3>1, <3>2, <3>4 DEF Next1
  <2>2. CASE ~(c.op = "compare_blocks" /\ c.at \in Uploading)
    BY Zenon, <2>2 DEF Failed, Uploading
  <2> QED
    BY Zenon, <2>1, <2>2
\* Between two blocks nothing is on offer.
<1>GoesBetween.
  ASSUME IInv, NEW t \in Tasks, NEW d, Owns(t), call[t].op \in Uploaders \cup {"list_blocks"},
         Next1(call[t], d), Go(t, d)
  PROVE  Step
  <2> USE <1>GoesBetween
  <2>1. CallOK(d, blocks, image) /\ OfferOf(d) = None
    BY Zenon, <1>BetweenOK
  <2>2. OfferOf(call[t]) = None /\ d.read = call[t].read
    BY Zenon DEF OfferOf, Uploaders, Downloaders, Next1
  <2> QED
    BY Zenon, <2>1, <2>2, <1>GoesOn
\* An exchange fails: the call is over, or compare_blocks goes on to the next block.
<1>GoesFailed.
  ASSUME IInv, NEW t \in Tasks, NEW missing \in BOOLEAN, Owns(t), call[t].at \in Exchanges,
         Go(t, Failed(call[t], missing))
  PROVE  Step
  <2> USE <1>GoesFailed
  <2>1. Shape(call[t])
    BY Zenon DEF IInv, CallOK
  <2>2. CASE Failed(call[t], missing) = NoCall
    <3>1. Go(t, NoCall)
      BY Zenon, <2>2
    <3> QED
      BY Zenon, <3>1, <1>GoesIdle
  <2>3. CASE call[t].op = "compare_blocks" /\ Next1(call[t], Failed(call[t], missing))
    BY Zenon, <2>3, <1>GoesBetween DEF Uploaders
  <2> QED
    BY Zenon, <2>1, <2>2, <2>3, <1>FailedOK
\* An exchange fails for want of a connection.
<1>FailStep. ASSUME IInv, NEW t \in Tasks, Fail(t) PROVE Step
  BY Zenon, <1>FailStep, <1>GoesFailed DEF Fail
\* An upload starts.
<1>UploadStarts. \A t \in Tasks : IInv /\ UploadStart(t) => Step
  \* One block is deleted, or all of them are.
  <2>StoreErase.
    ASSUME NEW t \in Tasks, NEW K \in SUBSET Keys, blocks' = [k \in Keys |-> IF k \in K THEN None ELSE blocks[k]],
           Offer' = Offer, NEW r, r = ReadSoFar[t] \/ r = NothingRead,
           ReadSoFar' = [ReadSoFar EXCEPT ![t] = r]
    PROVE  Store!Whole
    <3> USE <2>StoreErase
    <3>1. ReadSoFar' = ReadSoFar \/ ReadSoFar' = [ReadSoFar EXCEPT ![t] = NothingRead]
      BY Zenon, <1>MapTypes
    <3>2. Store!Erase(t, K)
      BY Zenon, <3>1 DEF Store!Erase, NothingRead
    <3> QED
      BY Zenon, <3>2 DEF Store!Whole
  \* The exchange that starts an upload.
  <2>UploadStartStep. ASSUME IInv, NEW t \in Tasks, UploadStart(t) PROVE Step
    <3> USE <2>UploadStartStep
    <3> DEFINE c == call[t]
    <3>1. /\ Owns(t) /\ c.at = "up_start" /\ c.at \in Exchanges /\ DOMAIN c = DOMAIN NoCall
          /\ CallOK(c, blocks, image) /\ blocks \in Memory /\ image \in Image
      BY Zenon, AtStage DEF UploadStart, Exchanges
    <3>2. c.op \in Uploaders /\ c.key \in Keys /\ c.data = <<>> /\ c.off = 0
      BY Zenon, <3>1 DEF CallOK, Shape, Uploading
    <3>3. CASE blocks[c.key] = None
      BY Zenon, <3>1, <3>3, <1>GoesFailed DEF UploadStart
    <3>4. CASE blocks[c.key] # None /\ c.op \in Reads1F /\ fn1F = "delete"
      <4> DEFINE b == [blocks EXCEPT ![c.key] = None]
      <4>1. PICK f \in {Failed(c, FALSE), NoCall} : Advance(t, f, b, image)
        BY Zenon, <3>4 DEF UploadStart
      <4>2. /\ b \in Memory /\ b = [k \in Keys |-> IF k \in {c.key} THEN None ELSE blocks[k]]
        BY Zenon, <3>1, <3>2 DEF Memory
      <4>3. f = NoCall \/ Next1(c, f)
        BY Zenon, <3>1, <1>FailedOK DEF CallOK
      <4> HIDE DEF b
      <4>4. CallOK(f, b, image) /\ OfferOf(f) = None /\ (f.read = c.read \/ f.read = NothingRead)
        BY Zenon, <3>2, <4>3, <1>BetweenOK, IdleCall, NoOffer DEF Next1
      <4>5. /\ IInv' /\ blocks' = b /\ Offer' = [Offer EXCEPT ![t] = OfferOf(f)]
            /\ ReadSoFar' = [ReadSoFar EXCEPT ![t] = f.read]
        BY <3>1, <4>1, <4>2, <4>4, <1>Advances
      <4>6. Offer' = Offer /\ ReadSoFar[t] = c.read
        <5>1. OfferOf(c) = None
          BY Zenon, <3>2 DEF OfferOf, Uploaders, Downloaders
        <5> QED
          BY Zenon, <4>4, <4>5, <5>1, <1>MapTypes
      <4>7. Store!Whole
        <5>1. {c.key} \in SUBSET Keys
          BY Zenon, <3>2
        <5> QED
          BY Zenon, <4>2, <4>4, <4>5, <4>6, <5>1, <2>StoreErase
      <4> QED
        BY Zenon, <4>5, <4>7 DEF Step
    <3>5. CASE blocks[c.key] # None /\ ~(c.op \in Reads1F /\ fn1F = "delete")
      <4> DEFINE d == [c EXCEPT !.at = "up_data"]
      <4>1. \/ Go(t, Failed(c, FALSE))
            \/ Go(t, Panicked)
            \/ Go(t, d)
        BY Zenon, <3>5 DEF UploadStart, Started
      <4>2. /\ DOMAIN d = DOMAIN NoCall /\ d.at = "up_data" /\ d.op = c.op /\ d.key = c.key
            /\ d.read = c.read /\ d.data = c.data /\ d.off = c.off /\ d.types = c.types /\ d.nums = c.nums /\ d.todo = c.todo
        BY Zenon, <3>1 DEF NoCall
      <4> HIDE DEF d
      <4>3. Shape(d)
        BY Zenon, <3>1, <3>2, <4>2 DEF CallOK, Shape, Looping, Uploaders, Downloaders, Uploading, Downloading, Exchanges
      <4>4. blocks[c.key] \in Seq(Bytes)
        BY Zenon, <3>1, <3>2, <3>5 DEF Memory
      <4>5. SubSeq(blocks[c.key], 1, 0) = <<>> /\ Len(blocks[c.key]) \in Nat
        BY <4>4
      <4>6. Got(d, blocks)
        <5>1. 0 \in Nat /\ 0 <= Len(blocks[c.key])
          BY <4>5
        <5> QED
          BY Zenon, <3>2, <3>5, <4>2, <4>5, <5>1 DEF Got
      <4>7. Sent(d) /\ Forcing(d, image) /\ OfferOf(d) = None /\ OfferOf(c) = None
        BY Zenon, <3>2, <4>2 DEF Sent, Forcing, OfferOf, Uploaders, Downloaders
      <4>8. CallOK(d, blocks, image)
        BY Zenon, <4>3, <4>6, <4>7 DEF CallOK
      <4>9. CASE Go(t, Failed(c, FALSE))
        BY Zenon, <3>1, <4>9, <1>GoesFailed
      <4>10. CASE Go(t, Panicked)
        BY Zenon, <3>1, <4>10, <1>GoesPanicked
      <4>11. CASE Go(t, d)
        BY Zenon, <3>1, <4>2, <4>7, <4>8, <4>11, <1>GoesOn
      <4> QED
        BY Zenon, <4>1, <4>9, <4>10, <4>11
    <3> QED
      BY Zenon, <3>3, <3>4, <3>5
  <2> QED
    BY Zenon, <2>UploadStartStep
\* The next chunk of a block goes on where the last one stopped, and one shorter than the
\* chunk size is the last.
<1>ChunkOf.
  ASSUME NEW d \in Seq(Bytes), NEW off \in Nat, off <= Len(d)
  PROVE  ChunkOK(d, off, ChunkEnd(d, off))
  <2> USE <1>ChunkOf
  <2> DEFINE e == ChunkEnd(d, off)
  <2>1. Len(d) \in Nat /\ Chunk \in Nat \ {0}
    BY BlockConstants
  <2>2. e = IF off + Chunk <= Len(d) THEN off + Chunk ELSE Len(d)
    BY <2>1, LesserOf DEF ChunkEnd
  <2> HIDE DEF e
  <2>3. e \in Nat /\ off <= e /\ e <= Len(d) /\ (e - off < Chunk => e = Len(d))
    BY <2>1, <2>2
  <2>4. SubSeq(d, off + 1, e) \in Seq(Bytes) /\ Len(SubSeq(d, off + 1, e)) = e - off
    BY Zenon, <2>3, PartOf
  <2>5. SubSeq(d, 1, off) \o SubSeq(d, off + 1, e) = SubSeq(d, 1, e)
    BY Zenon, <2>3, JoinParts
  <2>6. e = Len(d) => SubSeq(d, 1, e) = d
    BY Zenon, AllOf
  <2> QED
    BY Zenon, <2>1, <2>3, <2>4, <2>5, <2>6 DEF e, ChunkOK
\* An upload reads on.
<1>Uploads. \A t \in Tasks : IInv /\ UploadData(t) => Step
  \* Four bytes in front, and skipped again.
  <2>SkipFour.
    ASSUME NEW S, NEW p \in Seq(S), NEW h, h = <<255, 9, 0, 0>>, NEW w, w = h \o p
    PROVE  Len(w) = 4 + Len(p) /\ w[1] = 255 /\ SubSeq(w, 5, Len(w)) = p
    <3> USE <2>SkipFour
    <3> DEFINE T == S \cup {255, 9, 0}
               r == SubSeq(w, 5, Len(w))
    <3>1. h \in Seq(T) /\ p \in Seq(T) /\ Len(h) = 4 /\ h[1] = 255 /\ Len(p) \in Nat
      OBVIOUS
    <3>2. /\ w \in Seq(T) /\ Len(w) = Len(h) + Len(p) /\ \A i \in 1..Len(h) : w[i] = h[i]
          /\ \A i \in 1..Len(p) : w[Len(h) + i] = p[i]
      BY <3>1, ConcatCases
    <3> HIDE DEF T
    <3>3. Len(w) = 4 + Len(p) /\ w[1] = 255 /\ \A i \in 1..Len(p) : w[4 + i] = p[i]
      BY <3>1, <3>2
    <3>4. r \in Seq(T) /\ Len(r) = Len(p) /\ \A i \in 1..Len(p) : r[i] = w[4 + i]
      BY <3>1, <3>2, <3>3, PartOf
    <3> HIDE DEF r
    <3>5. r = p
      BY <3>1, <3>3, <3>4, SameSeq
    <3> QED
      BY Zenon, <3>3, <3>5 DEF r
  \* What upload takes out of the answer is the chunk, and an empty answer is
  \* one without a chunk.
  <2>ChunkRead.
    ASSUME NEW k, NEW d \in Seq(Bytes), NEW off \in Nat, off <= Len(d), d # None, ~Misjudged(k, d)
    PROVE  /\ Stripped(DataReply(k, d, off), SubSeq(d, 1, off)) = SubSeq(d, off + 1, ChunkEnd(d, off))
           /\ DataReply(k, d, off) = <<>> => SubSeq(d, 1, off) = d
    <3> USE <2>ChunkRead
    <3> DEFINE p == SubSeq(d, off + 1, ChunkEnd(d, off))
               s == SubSeq(d, 1, off)
    <3>0. ChunkOK(d, off, ChunkEnd(d, off))
      BY Zenon, <1>ChunkOf
    <3>1. p \in Seq(Bytes) /\ Len(p) = ChunkEnd(d, off) - off /\ ChunkEnd(d, off) \in Nat /\ off <= ChunkEnd(d, off)
      BY Zenon, <3>0 DEF ChunkOK
    <3>2. s \in Seq(Bytes) /\ Len(s) = off
      BY Zenon, FirstOf
    <3>3. DataReply(k, d, off) = (IF off = 0 /\ k \notin Bare THEN DataHeader ELSE <<>>) \o p
      BY Zenon DEF DataReply
    <3>6. 1 \in 1..Len(p) => p[1] = d[off + 1]
      BY <3>0, PartOf DEF ChunkOK
    <3> HIDE DEF p, s
    <3>4. CASE off = 0 /\ k \notin Bare
      <4>1. s = <<>>
        BY <3>2, <3>4
      <4>2. PICK h, w : h = <<255, 9, 0, 0>> /\ w = h \o p /\ DataReply(k, d, off) = w
        BY Zenon, <3>3, <3>4 DEF DataHeader
      <4>3. Len(w) = 4 + Len(p) /\ w[1] = 255 /\ SubSeq(w, 5, Len(w)) = p
        <5>1. p \in Seq(Bytes)
          BY Zenon, <3>1
        <5> QED
          BY ONLY <4>2, <5>1, <2>SkipFour
      <4>4. Len(p) \in Nat
        BY <3>1
      <4>5. Stripped(w, s) = p
        BY ONLY <4>1, <4>3, <4>4 DEF Stripped
      <4>6. DataReply(k, d, off) # <<>>
        BY <4>2, <4>3, <4>4
      <4> QED
        BY Zenon, <4>2, <4>5, <4>6 DEF p, s
    <3>5. CASE ~(off = 0 /\ k \notin Bare)
      <4>1. p = <<>> \o p
        BY <3>1
      <4>2. DataReply(k, d, off) = p
        BY Zenon, <3>3, <3>5, <4>1
      <4>3. Stripped(DataReply(k, d, off), s) = p
        <5>1. CASE off # 0
          <6>1. s # <<>>
            BY <3>2, <5>1
          <6> QED
            BY Zenon, <4>2, <6>1 DEF Stripped
        <5>2. CASE off = 0
          <6>1. ~(ChunkEnd(d, 0) >= 4 /\ d[1] \in {0, 255})
            BY Zenon, <3>5, <5>2 DEF Misjudged
          <6>2. ~(Len(p) >= 4 /\ p[1] \in {0, 255})
            BY <3>1, <3>6, <5>2, <6>1
          <6> QED
            BY Zenon, <4>2, <6>2 DEF Stripped
        <5> QED
          BY Zenon, <5>1, <5>2
      <4>4. ASSUME p = <<>> PROVE s = d
        <5>1. ChunkEnd(d, off) = off /\ ChunkEnd(d, off) - off < Chunk
          BY <3>1, <4>4, BlockConstants
        <5> QED
          BY Zenon, <3>0, <5>1 DEF s, ChunkOK
      <4> QED
        BY Zenon, <4>2, <4>3, <4>4 DEF p, s
    <3> QED
      BY Zenon, <3>4, <3>5
  \* A chunk without a header that looks like one loses four bytes, and is
  \* taken for the last.
  <2>ChunkMisread.
    ASSUME NEW k, NEW d \in Seq(Bytes), Misjudged(k, d)
    PROVE  /\ DataReply(k, d, 0) # <<>>
           /\ Stripped(DataReply(k, d, 0), <<>>) = AsRead(k, d)
           /\ LastChunk(AsRead(k, d)) /\ <<>> \o AsRead(k, d) = AsRead(k, d)
    <3> USE <2>ChunkMisread
    <3> DEFINE n == ChunkEnd(d, 0)
               p == SubSeq(d, 1, n)
               q == SubSeq(p, 5, n)
               w == SubSeq(d, 5, n)
    <3>1. k \in Bare /\ d # None /\ n >= 4 /\ d[1] \in {0, 255} /\ AsRead(k, d) = w
      BY Zenon DEF Misjudged, AsRead
    <3>2. Len(d) \in Nat /\ Chunk \in Nat \ {0}
      BY BlockConstants
    <3>3. n \in Nat /\ n <= Len(d) /\ n <= Chunk
      BY <3>2, LesserOf DEF ChunkEnd
    <3>4. DataReply(k, d, 0) = <<>> \o SubSeq(d, 0 + 1, n)
      BY Zenon, <3>1 DEF DataReply
    <3> HIDE DEF n
    <3>5. p \in Seq(Bytes) /\ Len(p) = n /\ \A i \in 1..n : p[i] = d[i]
      BY ONLY <3>3, <2>ChunkMisread, FirstOf
    <3>6. DataReply(k, d, 0) = p
      <4>1. <<>> \o p = p
        BY <3>5
      <4>2. 0 + 1 = 1
        OBVIOUS
      <4> QED
        BY Zenon, <3>4, <4>1, <4>2
    <3> HIDE DEF p
    <3>7. q \in Seq(Bytes) /\ Len(q) = n - 4 /\ \A i \in 1..(n - 4) : q[i] = p[4 + i]
      BY ONLY <3>1, <3>3, <3>5, PartOf
    <3>8. w \in Seq(Bytes) /\ Len(w) = n - 4 /\ \A i \in 1..(n - 4) : w[i] = d[4 + i]
      BY ONLY <3>1, <3>3, <2>ChunkMisread, PartOf
    <3> HIDE DEF q, w
    <3>9. q = w
      <4>1. ASSUME NEW i \in 1..(n - 4) PROVE q[i] = w[i]
        <5>1. 4 + i \in 1..n
          BY <3>1, <3>3
        <5>2. p[4 + i] = d[4 + i]
          BY Zenon, <3>5, <5>1
        <5> QED
          BY Zenon, <3>7, <3>8, <5>2
      <4>2. \A i \in 1..Len(q) : q[i] = w[i]
        BY Zenon, <3>7, <4>1
      <4> QED
        BY ONLY <3>7, <3>8, <4>2, SameSeq
    <3>10. p # <<>> /\ Len(p) >= 4 /\ p[1] \in {0, 255}
      BY ONLY <3>1, <3>3, <3>5
    <3>11. Stripped(p, <<>>) = q
      BY Zenon, <3>5, <3>10 DEF Stripped, q
    <3>12. Len(w) < Chunk /\ <<>> \o w = w
      BY ONLY <3>1, <3>2, <3>3, <3>8
    <3> QED
      BY Zenon, <3>1, <3>6, <3>9, <3>10, <3>11, <3>12 DEF LastChunk
  \* An upload goes on with the same block.
  <2>UploadGoesOn.
    ASSUME IInv, NEW t \in Tasks, Owns(t), call[t].at = "up_data", NEW d, Go(t, d),
           DOMAIN d = DOMAIN NoCall, d.at \in {"up_data", "up_end"}, d.op = call[t].op, d.key = call[t].key,
           d.read = call[t].read, d.types = call[t].types, d.nums = call[t].nums, d.todo = call[t].todo,
           Got(d, blocks)
    PROVE  Step
    <3> USE <2>UploadGoesOn
    <3> DEFINE c == call[t]
    <3>1. Shape(c) /\ c.op \in Uploaders /\ c.key \in Keys
      BY Zenon DEF IInv, CallOK, Shape, Uploading
    <3> HIDE DEF c
    <3>2. Shape(d)
      BY Zenon, <3>1 DEF c, Shape, Looping, Uploaders, Downloaders, Uploading, Downloading, Exchanges
    <3>3. Sent(d) /\ Forcing(d, image) /\ OfferOf(d) = None /\ OfferOf(c) = None
      BY Zenon, <3>1 DEF c, Sent, Forcing, OfferOf, Uploaders, Downloaders
    <3>4. CallOK(d, blocks, image)
      BY Zenon, <3>2, <3>3 DEF CallOK
    <3> QED
      BY Zenon, <3>3, <3>4, <1>GoesOn DEF c
  \* An upload reads one chunk.
  <2>UploadDataStep. ASSUME IInv, NEW t \in Tasks, UploadData(t) PROVE Step
    <3> USE <2>UploadDataStep
    <3> DEFINE c == call[t]
               b == blocks[c.key]
               body == DataReply(c.key, b, c.off)
               chunk == Stripped(body, c.data)
               d == [c EXCEPT !.data = c.data \o chunk, !.off = ChunkEnd(b, c.off)]
               e == ChunkEnd(b, c.off)
               M == Misjudged(c.key, b)
    <3>1. /\ Owns(t) /\ c.at = "up_data" /\ c.at \in Exchanges /\ DOMAIN c = DOMAIN NoCall
          /\ CallOK(c, blocks, image) /\ blocks \in Memory
      BY Zenon, AtStage DEF UploadData, Exchanges
    <3>2. c.key \in Keys /\ b # None /\ c.off \in Nat /\ c.off <= Len(b) /\ c.data = SubSeq(b, 1, c.off)
      BY Zenon, <3>1 DEF CallOK, Shape, Got, Uploading
    <3>3. b \in Seq(Bytes)
      BY Zenon, <3>1, <3>2 DEF Memory
    <3>4. ~M => chunk = SubSeq(b, c.off + 1, e) /\ (body = <<>> => c.data = b) /\ AsRead(c.key, b) = b
      BY Zenon, <3>2, <3>3, <2>ChunkRead DEF AsRead
    <3>13. M => body # <<>> /\ LastChunk(chunk) /\ c.data \o chunk = AsRead(c.key, b)
      <4> SUFFICES ASSUME M PROVE body # <<>> /\ LastChunk(chunk) /\ c.data \o chunk = AsRead(c.key, b)
        BY Zenon
      <4>1. c.off = 0
        BY Zenon, <3>1 DEF CallOK, Got
      <4>2. SubSeq(b, 1, 0) = <<>>
        BY <3>3
      <4>3. c.data = <<>>
        BY Zenon, <3>2, <4>1, <4>2
      <4> QED
        BY Zenon, <3>3, <4>1, <4>3, <2>ChunkMisread
    <3>5. ~M => /\ e \in Nat /\ c.off <= e /\ e <= Len(b) /\ Len(chunk) = e - c.off
                /\ c.data \o chunk = SubSeq(b, 1, e) /\ (e - c.off < Chunk => SubSeq(b, 1, e) = b)
      <4> HIDE DEF b, c, chunk, e, M
      <4>1. PICK n : n = c.off
        BY Zenon
      <4>2. b \in Seq(Bytes) /\ n \in Nat /\ n <= Len(b) /\ e = ChunkEnd(b, n)
        BY Zenon, <3>2, <3>3, <4>1 DEF e
      <4>3. ChunkOK(b, n, e)
        BY ONLY Zenon, <4>2, <1>ChunkOf
      <4> QED
        BY ONLY Zenon, <3>2, <3>4, <4>1, <4>3 DEF ChunkOK
    <3>6. /\ DOMAIN d = DOMAIN NoCall /\ d.at = "up_data" /\ d.op = c.op /\ d.key = c.key /\ d.read = c.read
          /\ d.types = c.types /\ d.nums = c.nums /\ d.todo = c.todo
          /\ d.data = c.data \o chunk /\ d.off = e
      BY Zenon, <3>1 DEF NoCall
    <3>7. \/ body = <<>> /\ Go(t, [c EXCEPT !.at = "up_end"])
          \/ LastChunk(chunk) /\ Go(t, [d EXCEPT !.at = "up_end"])
          \/ Go(t, Failed(c, FALSE))
          \/ ~LastChunk(chunk) /\ Go(t, d)
      BY Zenon DEF UploadData
    <3> HIDE DEF c, b, body, chunk, d, e, M
    <3>8. ~M => d.data = SubSeq(b, 1, e)
      BY ONLY Zenon, <3>5, <3>6
    <3>9. CASE body = <<>> /\ Go(t, [c EXCEPT !.at = "up_end"])
      <4> DEFINE f == [c EXCEPT !.at = "up_end"]
      <4>1. /\ DOMAIN f = DOMAIN NoCall /\ f.at = "up_end" /\ f.op = c.op /\ f.key = c.key /\ f.read = c.read
            /\ f.types = c.types /\ f.nums = c.nums /\ f.todo = c.todo /\ f.data = c.data
        BY Zenon, <3>1 DEF NoCall
      <4> HIDE DEF f
      <4>2. Got(f, blocks)
        BY Zenon, <3>2, <3>4, <3>9, <3>13, <4>1 DEF Got, b
      <4> QED
        BY Zenon, <3>1, <3>9, <4>1, <4>2, <2>UploadGoesOn DEF c, f
    <3>10. CASE LastChunk(chunk) /\ Go(t, [d EXCEPT !.at = "up_end"])
      <4> DEFINE f == [d EXCEPT !.at = "up_end"]
      <4>1. /\ DOMAIN f = DOMAIN NoCall /\ f.at = "up_end" /\ f.op = c.op /\ f.key = c.key /\ f.read = c.read
            /\ f.types = c.types /\ f.nums = c.nums /\ f.todo = c.todo /\ f.data = d.data
        BY Zenon, <3>6 DEF NoCall
      <4> HIDE DEF f
      <4>2. d.data = AsRead(c.key, b)
        BY Zenon, <3>4, <3>5, <3>6, <3>8, <3>10, <3>13 DEF LastChunk
      <4>3. Got(f, blocks)
        BY Zenon, <3>2, <4>1, <4>2 DEF Got, b
      <4> QED
        BY Zenon, <3>1, <3>10, <4>1, <4>3, <2>UploadGoesOn DEF c, f
    <3>11. CASE Go(t, Failed(c, FALSE))
      BY Zenon, <3>1, <3>11, <1>GoesFailed DEF c
    <3>12. CASE ~LastChunk(chunk) /\ Go(t, d)
      <4>1. Got(d, blocks)
        BY Zenon, <3>2, <3>5, <3>6, <3>8, <3>12, <3>13 DEF Got, b, M
      <4> QED
        BY Zenon, <3>1, <3>6, <3>12, <4>1, <2>UploadGoesOn DEF c
    <3> QED
      BY Zenon, <3>7, <3>9, <3>10, <3>11, <3>12
  <2> QED
    BY <2>UploadDataStep
\* The whole block has been read, while the mutex was held.
<1>UploadEndStep. ASSUME IInv, NEW t \in Tasks, UploadEnd(t) PROVE Step
  <2> USE <1>UploadEndStep
  <2> DEFINE c == call[t]
             r == [c.read EXCEPT ![c.key] = c.data]
             d == [c EXCEPT !.read = r]
             f == AfterBlock(d)
  <2>1. /\ Owns(t) /\ c.at = "up_end" /\ DOMAIN c = DOMAIN NoCall /\ CallOK(c, blocks, image)
        /\ blocks \in Memory /\ image \in Image
    BY Zenon, AtStage DEF UploadEnd, Exchanges
  <2>2. c.key \in Keys /\ c.data = AsRead(c.key, blocks[c.key]) /\ c.op \in Uploaders /\ Shape(c)
    BY Zenon, <2>1 DEF CallOK, Shape, Got, Uploading
  <2>3. Advance(t, f, blocks, image)
    BY Zenon DEF UploadEnd, Go
  <2>4. /\ DOMAIN d = DOMAIN NoCall /\ d.op = c.op /\ d.read = r /\ d.types = c.types /\ d.nums = c.nums
        /\ d.todo = c.todo
    BY Zenon, <2>1 DEF NoCall
  <2> HIDE DEF d, c
  <2>5. Between(d) /\ (d.op = "upload_all_blocks" => d.types # <<>>)
    BY Zenon, <2>1, <2>2, <2>4 DEF Between, Shape, Looping, Uploading
  <2>6. Next1(d, f)
    BY Zenon, <2>5, AfterBlockOK
  <2> HIDE DEF f
  <2>7. CallOK(f, blocks, image) /\ OfferOf(f) = None
    BY Zenon, <2>2, <2>4, <2>6, <1>BetweenOK
  <2>8. /\ IInv' /\ blocks' = blocks /\ Offer' = [Offer EXCEPT ![t] = OfferOf(f)]
        /\ ReadSoFar' = [ReadSoFar EXCEPT ![t] = f.read]
    BY <2>1, <2>3, <2>7, <1>Advances
  <2>9. Offer' = Offer
    <3>1. OfferOf(c) = None
      BY Zenon, <2>2 DEF OfferOf, Uploaders, Downloaders
    <3> QED
      BY Zenon, <2>7, <2>8, <3>1, <1>MapTypes DEF c
  <2>10. ReadSoFar' = [ReadSoFar EXCEPT ![t][c.key] = AsRead(c.key, blocks[c.key])]
    <3>1. f.read = r /\ ReadSoFar[t] = c.read /\ DOMAIN ReadSoFar = Tasks
      BY Zenon, <2>4, <2>6, <1>MapTypes DEF Next1, c
    <3> QED
      BY Zenon, <2>2, <2>8, <3>1
  <2>11. Store!Read(t, c.key)
    BY Zenon, <2>2, <2>8, <2>9, <2>10 DEF Store!Read
  <2> QED
    BY Zenon, <2>2, <2>8, <2>11 DEF Step, Store!Whole
\* One more chunk is sent: what the PLC has is still the beginning of the
\* block, and all of it before the download is ended.
<1>DownloadDataStep. ASSUME IInv, NEW t \in Tasks, DownloadData(t) PROVE Step
  <2> USE <1>DownloadDataStep
  <2> DEFINE c == call[t]
             e == ChunkEnd(c.data, c.off)
             a == IF e < Len(c.data) THEN "down_data" ELSE "down_end"
             d == [c EXCEPT !.buf = c.buf \o ChunkTo(c.data, c.off), !.off = e, !.at = a]
  <2>1. /\ Owns(t) /\ c.at \in {"down_start", "down_data"} /\ DOMAIN c = DOMAIN NoCall
        /\ CallOK(c, blocks, image)
    BY Zenon, AtStage DEF DownloadData, Exchanges
  <2>2. Shape(c) /\ c.op \in Downloaders /\ c.read = NothingRead
    BY Zenon, <2>1 DEF CallOK, Shape, Downloading, Downloaders, Uploaders
  <2>3. /\ c.key \in Keys /\ c.data \in Contents /\ c.off \in Nat /\ c.off <= Len(c.data)
        /\ c.buf = SubSeq(c.data, 1, c.off)
    BY Zenon, <2>1, <2>2 DEF CallOK, Sent
  <2>4. Go(t, d)
    BY Zenon DEF DownloadData, ChunkEnd
  <2>5. /\ DOMAIN d = DOMAIN NoCall /\ d.at = a /\ d.op = c.op /\ d.key = c.key /\ d.data = c.data
        /\ d.read = c.read /\ d.off = e /\ d.buf = c.buf \o ChunkTo(c.data, c.off)
    BY Zenon, <2>1 DEF NoCall
  <2>6. ChunkTo(c.data, c.off) = SubSeq(c.data, c.off + 1, e)
    BY Zenon DEF ChunkTo, ChunkEnd
  <2> HIDE DEF c, d, e
  <2>7. /\ e \in Nat /\ e <= Len(c.data) /\ Len(c.data) \in Nat
        /\ SubSeq(c.data, 1, c.off) \o SubSeq(c.data, c.off + 1, e) = SubSeq(c.data, 1, e)
    <3>1. PICK s, n : s = c.data /\ n = c.off
      BY Zenon
    <3>2. s \in Seq(Bytes) /\ n \in Nat /\ n <= Len(s) /\ e = ChunkEnd(s, n)
      BY Zenon, <2>3, <3>1, BlockConstants DEF e
    <3>3. ChunkOK(s, n, e)
      BY ONLY Zenon, <3>2, <1>ChunkOf
    <3> QED
      BY ONLY Zenon, <3>1, <3>3 DEF ChunkOK
  <2>8. d.buf = SubSeq(c.data, 1, e)
    BY ONLY Zenon, <2>3, <2>5, <2>6, <2>7
  <2>9. d.at = "down_data" \/ (d.at = "down_end" /\ e = Len(c.data))
    BY ONLY <2>5, <2>7
  <2>10. Shape(d)
    BY Zenon, <2>2, <2>5, <2>9 DEF Shape, Uploaders, Downloaders, Uploading, Downloading, Exchanges
  <2>11. Sent(d)
    BY ONLY Zenon, <2>3, <2>5, <2>7, <2>8, <2>9 DEF Sent
  <2>12. Got(d, blocks) /\ Forcing(d, image) /\ OfferOf(d) = OfferOf(c)
    BY Zenon, <2>2, <2>5, <2>9 DEF Got, Forcing, OfferOf, Downloaders
  <2>13. CallOK(d, blocks, image)
    BY Zenon, <2>10, <2>11, <2>12 DEF CallOK
  <2> QED
    BY Zenon, <2>1, <2>4, <2>5, <2>12, <2>13, <1>GoesOn DEF c
\* The call is over, and the memory of the PLC has become b and im.
<1>Ends.
  ASSUME IInv, NEW t \in Tasks, NEW b \in Memory, NEW im \in Image, Owns(t), Advance(t, NoCall, b, im)
  PROVE  /\ IInv' /\ blocks' = b /\ Offer' = [Offer EXCEPT ![t] = None]
         /\ ReadSoFar' = [ReadSoFar EXCEPT ![t] = NothingRead]
  <2> USE <1>Ends
  <2>1. CallOK(NoCall, b, im) /\ NoCall.read = NothingRead
    BY Zenon, IdleCall
  <2> QED
    BY <2>1, <1>Advances, NoOffer
\* The block is installed whole, and only now.
<1>DownloadEndStep. ASSUME IInv, NEW t \in Tasks, DownloadEnd(t) PROVE Step
  <2> USE <1>DownloadEndStep
  <2> DEFINE c == call[t]
             b == [blocks EXCEPT ![c.key] = c.buf]
  <2>1. /\ Owns(t) /\ c.at = "down_end" /\ CallOK(c, blocks, image) /\ blocks \in Memory /\ image \in Image
    BY Zenon, AtStage DEF DownloadEnd, Exchanges
  <2>2. c.op \in Downloaders /\ c.read = NothingRead
    BY Zenon, <2>1 DEF CallOK, Shape, Downloading, Downloaders, Uploaders
  <2>3. /\ c.key \in Keys /\ c.data \in Contents /\ c.buf = SubSeq(c.data, 1, Len(c.data))
    BY Zenon, <2>1, <2>2 DEF CallOK, Sent
  <2>4. c.data \in Seq(Bytes)
    BY Zenon, <2>3, BlockConstants
  <2>5. Advance(t, NoCall, b, image)
    <3>1. Returned(c) = NoCall
      BY Zenon, <2>2 DEF Returned, Downloaders, Piecewise
    <3> QED
      BY Zenon, <3>1 DEF DownloadEnd, Done
  <2>6. OfferOf(c) = <<c.key, c.data>> /\ OfferOf(c) # None
    <3>1. <<c.key, c.data>> \in Keys \X Contents
      BY Zenon, <2>3
    <3> QED
      BY Zenon, <2>2, <3>1, BlockConstants DEF OfferOf
  <2>7. Offer[t] = OfferOf(c) /\ ReadSoFar = [ReadSoFar EXCEPT ![t] = NothingRead]
    BY Zenon, <2>2, <1>MapTypes
  <2> HIDE DEF c
  <2>8. c.buf = c.data
    BY Zenon, <2>3, <2>4, AllOf
  <2>9. b \in Memory
    BY Zenon, <2>1, <2>3, <2>4, <2>8 DEF Memory
  <2>10. /\ IInv' /\ blocks' = b /\ Offer' = [Offer EXCEPT ![t] = None]
         /\ ReadSoFar' = [ReadSoFar EXCEPT ![t] = NothingRead]
    BY Zenon, <2>1, <2>5, <2>9, <1>Ends
  <2>11. Store!Install(t)
    BY <2>6, <2>7, <2>8, <2>10 DEF Store!Install
  <2> QED
    BY Zenon, <2>10, <2>11 DEF Step, Store!Whole
\* A list goes on.
<1>Lists. \A t \in Tasks : IInv /\ ListPage(t) => Step
  \* Numbers are added to a list, which goes on or is complete.
  <2>ListGoesOn.
    ASSUME IInv, NEW t \in Tasks, Owns(t), call[t].at = "page", NEW d,
           DOMAIN d = DOMAIN NoCall, d.at = "page", d.op = call[t].op, d.types = call[t].types,
           d.todo = call[t].todo, d.read = call[t].read, d.data = call[t].data, d.off = call[t].off,
           \A n \in d.nums : n \in call[t].nums \/ n \in Left(call[t]),
           Go(t, d) \/ Go(t, AfterList(d))
    PROVE  Step
    <3> USE <2>ListGoesOn
    <3> DEFINE c == call[t]
    <3>1. Shape(c)
      BY Zenon DEF IInv, CallOK
    <3>2. /\ c.op \in {"list_blocks", "upload_all_blocks", "compare_blocks"} /\ c.types # <<>> /\ Looping(c)
          /\ c.data = <<>> /\ c.off = 0
      BY Zenon, <3>1 DEF Shape
    <3>3. \A n \in d.nums : n \in Nat /\ <<Head(c.types), n>> \in Keys
      BY Zenon, <3>2, LeftAreKeys DEF Looping
    <3> HIDE DEF c
    <3>4. Looping(d)
      BY Zenon, <3>2, <3>3 DEF c, Looping
    <3>5. Shape(d)
      BY Zenon, <3>1, <3>2, <3>4 DEF c, Shape, Uploaders, Downloaders, Uploading, Downloading, Exchanges
    <3>6. Next1(c, d)
      BY Zenon, <3>5 DEF c, Next1
    <3>7. Next1(c, AfterList(d))
      <4>1. Next1(d, AfterList(d))
        BY Zenon, <3>5, AfterListOK
      <4> QED
        BY Zenon, <4>1 DEF c, Next1
    <3>8. c.op \in Uploaders \cup {"list_blocks"}
      BY Zenon, <3>2 DEF Uploaders
    <3> QED
      BY Zenon, <3>6, <3>7, <3>8, <1>GoesBetween DEF c
  \* A page is added, or an error taken for the end of the list.
  <2>ListPageStep. ASSUME IInv, NEW t \in Tasks, ListPage(t) PROVE Step
    <3> USE <2>ListPageStep
    <3> DEFINE c == call[t]
               e == [c EXCEPT !.cut = TRUE]
    <3>1. Owns(t) /\ c.at = "page" /\ DOMAIN c = DOMAIN NoCall
      BY Zenon, AtStage DEF ListPage, Exchanges
    <3>2. PICK last :
            \/ Go(t, AfterList(c)) \/ Go(t, AfterList(e)) \/ Go(t, Listed(c, last)) \/ Go(t, AfterList(Listed(c, last)))
      BY Zenon DEF ListPage
    <3> DEFINE P == Page(c, last)
               d == Listed(c, last)
    <3>3. /\ DOMAIN e = DOMAIN NoCall /\ e.at = c.at /\ e.op = c.op /\ e.types = c.types /\ e.todo = c.todo
          /\ e.read = c.read /\ e.data = c.data /\ e.off = c.off /\ e.nums = c.nums
      BY Zenon, <3>1 DEF NoCall
    <3>4. /\ DOMAIN d = DOMAIN NoCall /\ d.at = c.at /\ d.op = c.op /\ d.types = c.types /\ d.todo = c.todo
          /\ d.read = c.read /\ d.data = c.data /\ d.off = c.off /\ d.nums = c.nums \cup P
      BY Zenon, <3>1 DEF NoCall, Listed
    <3>5. \A n \in P : n \in Left(c)
      BY Zenon DEF Page
    <3> HIDE DEF P, d, e
    <3>6. CASE Go(t, AfterList(c))
      BY Zenon, <3>1, <3>6, <2>ListGoesOn
    <3>7. CASE Go(t, AfterList(e))
      BY Zenon, <3>1, <3>3, <3>7, <2>ListGoesOn
    <3>8. CASE Go(t, d) \/ Go(t, AfterList(d))
      BY Zenon, <3>1, <3>4, <3>5, <3>8, <2>ListGoesOn
    <3> QED
      BY Zenon, <3>2, <3>6, <3>7, <3>8 DEF d
  <2> QED
    BY Zenon, <2>ListPageStep
\* Calls that neither upload nor download: whatever the PLC does with the
\* request, and whether the answer tells, nothing is read and nothing offered.
<1>IsDone.
  ASSUME IInv, NEW t \in Tasks, Owns(t), call[t].op \notin Uploaders, call[t].op \notin Downloaders,
         NEW d, d = NoCall \/ d.op = call[t].op, d.read = NothingRead,
         NEW b \in Memory, NEW im \in Image, CallOK(d, b, im), Done(t, d, b, im)
  PROVE  IInv' /\ blocks' = b /\ Offer' = Offer /\ ReadSoFar' = ReadSoFar
  <2> USE <1>IsDone
  <2>1. call[t].read = NothingRead /\ OfferOf(call[t]) = None
    BY Zenon DEF IInv, CallOK, Shape, OfferOf
  <2>2. OfferOf(d) = None
    BY Zenon, NoOffer DEF OfferOf
  <2>3. CASE Advance(t, d, b, im)
    <3>1. /\ IInv' /\ blocks' = b /\ Offer' = [Offer EXCEPT ![t] = OfferOf(d)]
          /\ ReadSoFar' = [ReadSoFar EXCEPT ![t] = d.read]
      BY <2>3, <1>Advances
    <3> QED
      BY Zenon, <2>1, <2>2, <3>1, <1>MapTypes
  <2>4. CASE Advance(t, NoCall, b, im)
    <3>1. /\ IInv' /\ blocks' = b /\ Offer' = [Offer EXCEPT ![t] = None]
          /\ ReadSoFar' = [ReadSoFar EXCEPT ![t] = NothingRead]
      BY Zenon, <2>4, <1>Ends
    <3> QED
      BY Zenon, <2>1, <3>1, <1>MapTypes
  <2> QED
    BY Zenon, <2>3, <2>4 DEF Done
\* The size of the block to be filled is known.
<1>FillInfoStep. ASSUME IInv, NEW t \in Tasks, FillInfo(t) PROVE Step
  <2> USE <1>FillInfoStep
  <2> DEFINE c == call[t]
             s == [i \in 1..Len(blocks[c.key]) |-> c.data[1]]
             d == [c EXCEPT !.at = "fill", !.data = s]
  <2>1. /\ Owns(t) /\ c.at = "info" /\ DOMAIN c = DOMAIN NoCall /\ CallOK(c, blocks, image) /\ blocks \in Memory
    BY Zenon, AtStage DEF FillInfo, Exchanges
  <2>2. Shape(c) /\ c.op = "db_fill" /\ c.key \in Keys /\ c.off \in Nat /\ c.data[1] \in Bytes
    BY Zenon, <2>1 DEF CallOK, Shape, Bytes
  <2>3. CASE blocks[c.key] \in {None, <<>>}
    BY Zenon, <2>1, <2>3, <1>GoesIdle DEF FillInfo
  <2>4. CASE blocks[c.key] \notin {None, <<>>}
    <3>1. Go(t, d)
      BY Zenon, <2>4 DEF FillInfo
    <3>2. s \in Seq(Bytes)
      <4>1. blocks[c.key] \in Seq(Bytes)
        BY Zenon, <2>1, <2>2, <2>4 DEF Memory
      <4>2. Len(blocks[c.key]) \in Nat
        BY <4>1
      <4> QED
        BY <2>2, <4>2
    <3>3. /\ DOMAIN d = DOMAIN NoCall /\ d.at = "fill" /\ d.op = c.op /\ d.key = c.key /\ d.off = c.off
          /\ d.data = s /\ d.read = c.read
      BY Zenon, <2>1 DEF NoCall
    <3> HIDE DEF d, s, c
    <3>4. Shape(d)
      BY Zenon, <2>1, <2>2, <3>2, <3>3 DEF Shape, Uploaders, Downloaders, Uploading, Downloading, Exchanges
    <3>5. Sent(d) /\ Got(d, blocks) /\ Forcing(d, image) /\ OfferOf(d) = None /\ OfferOf(c) = None
      BY Zenon, <2>2, <3>3 DEF Sent, Got, Forcing, OfferOf, Downloaders
    <3>6. CallOK(d, blocks, image)
      BY Zenon, <3>4, <3>5 DEF CallOK
    <3> QED
      BY Zenon, <2>1, <3>1, <3>3, <3>5, <3>6, <1>GoesOn DEF c
  <2> QED
    BY Zenon, <2>3, <2>4
\* One chunk is written.
<1>FillWriteStep. ASSUME IInv, NEW t \in Tasks, FillWrite(t) PROVE Step
  <2> USE <1>FillWriteStep
  <2> DEFINE c == call[t]
             size == Len(c.data)
             e == FillTo(c.off, size)
             f == [c EXCEPT !.off = e]
             d == IF c.off + FillChunk < size THEN f ELSE Returned(f)
             old == blocks[c.key]
             b == [blocks EXCEPT ![c.key] = Filled(old, c.data, c.off, e)]
  <2>1. /\ Owns(t) /\ c.at = "fill" /\ DOMAIN c = DOMAIN NoCall /\ CallOK(c, blocks, image)
        /\ blocks \in Memory /\ image \in Image
    BY Zenon, AtStage DEF FillWrite, Exchanges
  <2>2. Shape(c) /\ c.op = "db_fill" /\ c.key \in Keys /\ c.off \in Nat /\ c.data \in Seq(Bytes)
    BY Zenon, <2>1 DEF CallOK, Shape
  <2>3. c.read = NothingRead
    BY Zenon, <2>2 DEF Shape, Uploaders
  <2>4. e \in Nat /\ e <= Len(c.data)
    <3>1. c.off + FillChunk \in Nat /\ Len(c.data) \in Nat
      BY <2>2, BlockConstants
    <3> QED
      BY <3>1, LesserOf DEF FillTo
  <2>5. CASE old = None \/ Len(old) < e
    BY Zenon, <2>1, <2>5, <1>GoesIdle DEF FillWrite
  <2>6. CASE ~(old = None \/ Len(old) < e)
    <3>1. Done(t, d, b, image)
      BY Zenon, <2>6 DEF FillWrite
    <3>2. /\ DOMAIN f = DOMAIN NoCall /\ f.at = "fill" /\ f.op = c.op /\ f.key = c.key /\ f.off = e
          /\ f.data = c.data /\ f.read = c.read
      BY Zenon, <2>1 DEF NoCall
    <3>3. /\ DOMAIN d = DOMAIN NoCall /\ d.at \in {"fill", "ok"} /\ d.op = c.op /\ d.key = c.key /\ d.off = e
          /\ d.data = c.data /\ d.read = c.read
      <4> HIDE DEF f
      <4>1. Returned(f) = [f EXCEPT !.at = "ok"]
        BY Zenon, <2>2, <3>2 DEF Returned, Piecewise
      <4> QED
        BY Zenon, <3>2, <4>1 DEF NoCall
    <3>4. old \in Seq(Bytes)
      BY Zenon, <2>1, <2>2, <2>6 DEF Memory
    <3>5. Filled(old, c.data, c.off, e) \in [DOMAIN old -> Bytes] /\ Filled(old, c.data, c.off, e) \in Seq(Bytes)
      BY Zenon, <2>2, <2>4, <3>4, FilledBytes
    <3>6. b \in Memory
      BY Zenon, <2>1, <2>2, <3>5 DEF Memory
    <3> HIDE DEF d, f, e, c
    <3>7. Shape(d)
      BY Zenon, <2>2, <2>3, <2>4, <3>3 DEF Shape, Uploaders, Downloaders, Uploading, Downloading, Exchanges
    <3>8. Sent(d) /\ Got(d, b) /\ Forcing(d, image)
      BY Zenon, <2>2, <3>3 DEF Sent, Got, Forcing, Downloaders
    <3>9. CallOK(d, b, image)
      BY Zenon, <3>7, <3>8 DEF CallOK
    <3>10. c.op \notin Uploaders /\ c.op \notin Downloaders
      BY Zenon, <2>2 DEF Uploaders, Downloaders
    <3>11. IInv' /\ blocks' = b /\ Offer' = Offer /\ ReadSoFar' = ReadSoFar
      <4> HIDE DEF b
      <4> QED
        BY Zenon, <2>1, <2>3, <3>1, <3>3, <3>6, <3>9, <3>10, <1>IsDone DEF c
    <3>12. Store!Overwrite(c.key)
      BY Zenon, <2>6, <3>5, <3>11 DEF Store!Overwrite
    <3> QED
      BY Zenon, <2>2, <3>11, <3>12 DEF Step, Store!Whole
  <2> QED
    BY Zenon, <2>5, <2>6
\* The byte is read that will be written.
<1>ByteReadStep. ASSUME IInv, NEW t \in Tasks, ByteRead(t) PROVE Step
  <2> USE <1>ByteReadStep
  <2> DEFINE c == call[t]
             x == image[WireByte(c.key[1])]
             d == [c EXCEPT !.at = "byte_write", !.data = <<x>>]
  <2>1. /\ Owns(t) /\ c.at = "byte_read" /\ DOMAIN c = DOMAIN NoCall /\ CallOK(c, blocks, image)
        /\ image \in Image
    BY Zenon, AtStage DEF ByteRead, Exchanges
  <2>2. /\ Shape(c) /\ c.op \in {"force_bit", "force_byte"} /\ c.key[1] \in ForceBytes
        /\ c.op = "force_bit" => c.key[2] \in Bits
    BY Zenon, <2>1 DEF CallOK, Shape, Forcing
  <2>3. Go(t, d)
    BY Zenon DEF ByteRead
  <2>4. /\ DOMAIN d = DOMAIN NoCall /\ d.at = "byte_write" /\ d.op = c.op /\ d.key = c.key /\ d.data = <<x>>
        /\ d.read = c.read
    BY Zenon, <2>1 DEF NoCall
  <2>5. x \in SUBSET Bits
    BY Zenon, <2>1, <2>2 DEF Image
  <2> HIDE DEF d, c
  <2>6. Shape(d)
    BY Zenon, <2>2, <2>4 DEF Shape, Uploaders, Downloaders, Uploading, Downloading, Exchanges
  <2>7. d.data[1] = x
    BY <2>4
  <2>8. Forcing(d, image)
    BY Zenon, <2>2, <2>4, <2>5, <2>7 DEF Forcing
  <2>9. Sent(d) /\ Got(d, blocks) /\ OfferOf(d) = None /\ OfferOf(c) = None
    BY Zenon, <2>2, <2>4 DEF Sent, Got, OfferOf, Downloaders
  <2>10. CallOK(d, blocks, image)
    BY Zenon, <2>6, <2>8, <2>9 DEF CallOK
  <2> QED
    BY Zenon, <2>1, <2>3, <2>4, <2>9, <2>10, <1>GoesOn DEF c
\* A byte is written.
<1>ByteWrites. \A t \in Tasks : IInv /\ ByteWrite(t) => Step
  \* What a byte becomes: bits of a byte.
  <2>ForcedBits.
    ASSUME NEW byte \in SUBSET Bits, NEW bit \in Bits, NEW value
    PROVE  Forced(byte, bit, value) \in SUBSET Bits
    BY Zenon, <2>ForcedBits DEF Forced
  \* The byte is written.
  <2>ByteWriteStep. ASSUME IInv, NEW t \in Tasks, ByteWrite(t) PROVE Step
    <3> USE <2>ByteWriteStep
    <3> DEFINE c == call[t]
               im == [image EXCEPT ![WireByte(c.key[1])] = NewByte(c)]
               d == Returned(c)
    <3>1. /\ Owns(t) /\ c.at = "byte_write" /\ DOMAIN c = DOMAIN NoCall /\ CallOK(c, blocks, image)
          /\ blocks \in Memory /\ image \in Image
      BY Zenon, AtStage DEF ByteWrite, Exchanges
    <3>2. /\ Shape(c) /\ c.op \in {"force_bit", "force_byte"} /\ c.key[1] \in ForceBytes
          /\ c.data[1] \in SUBSET Bits /\ (c.op = "force_bit" => c.key[2] \in Bits)
      BY Zenon, <3>1 DEF CallOK, Shape, Forcing
    <3>3. c.read = NothingRead
      BY Zenon, <3>2 DEF Shape, Uploaders
    <3>4. Done(t, d, blocks, im)
      BY Zenon DEF ByteWrite, NewByte
    <3>5. NewByte(c) \in SUBSET Bits
      BY Zenon, <3>2, <2>ForcedBits DEF NewByte
    <3>6. im \in Image
      BY Zenon, <3>1, <3>2, <3>5 DEF Image
    <3>7. \/ d = NoCall
          \/ /\ c.op = "force_bit" /\ DOMAIN d = DOMAIN NoCall /\ d.at = "ok" /\ d.op = c.op /\ d.key = c.key
             /\ d.read = c.read
      BY Zenon, <3>1, <3>2 DEF Returned, Piecewise, NoCall
    <3> HIDE DEF d, c, im
    <3>9. CallOK(d, blocks, im) /\ d.read = NothingRead /\ (d = NoCall \/ d.op = c.op)
      <4>1. CASE d = NoCall
        BY Zenon, <4>1, IdleCall
      <4>2. CASE d # NoCall
        <5>1. Shape(d)
          BY Zenon, <3>2, <3>3, <3>7, <4>2 DEF Shape, Uploaders, Downloaders, Uploading, Downloading, Exchanges
        <5>2. Sent(d) /\ Got(d, blocks) /\ Forcing(d, im)
          BY Zenon, <3>2, <3>7, <4>2 DEF Sent, Got, Forcing, Downloaders
        <5> QED
          BY Zenon, <3>3, <3>7, <4>2, <5>1, <5>2 DEF CallOK
      <4> QED
        BY Zenon, <4>1, <4>2
    <3>10. c.op \notin Uploaders /\ c.op \notin Downloaders
      BY Zenon, <3>2 DEF Uploaders, Downloaders
    <3>11. IInv' /\ blocks' = blocks /\ Offer' = Offer /\ ReadSoFar' = ReadSoFar
      BY Zenon, <3>1, <3>4, <3>6, <3>9, <3>10, <1>IsDone DEF c
    <3> QED
      BY Zenon, <3>11 DEF Step
  <2> QED
    BY <2>ByteWriteStep
\* A block is deleted, the memory reset, the PLC stopped or started.
<1>Jobs. \A t \in Tasks : IInv /\ (DeleteBlock(t) \/ Reset(t) \/ Control(t)) => Step
  \* A job of one exchange is done by the PLC, and the call is over.
  <2>JobDone.
    ASSUME IInv, NEW t \in Tasks, NEW b \in Memory, At(t, "job"), Done(t, NoCall, b, image)
    PROVE  IInv' /\ blocks' = b /\ Offer' = Offer /\ ReadSoFar' = ReadSoFar
    <3> USE <2>JobDone
    <3>1. Owns(t) /\ call[t].op \in Jobs /\ image \in Image
      BY Zenon, AtStage DEF Exchanges, CallOK, Shape
    <3>2. call[t].op \notin Uploaders /\ call[t].op \notin Downloaders
      BY Zenon, <3>1 DEF Jobs, Uploaders, Downloaders
    <3>3. CallOK(NoCall, b, image) /\ NoCall.read = NothingRead
      BY Zenon, IdleCall
    <3> QED
      BY Zenon, <3>1, <3>2, <3>3, <1>IsDone
  \* Blocks are deleted.
  <2>JobErases.
    ASSUME NEW t \in Tasks, NEW K \in SUBSET Keys, IInv', Offer' = Offer, ReadSoFar' = ReadSoFar,
           blocks' = [k \in Keys |-> IF k \in K THEN None ELSE blocks[k]]
    PROVE  Step
    <3> USE <2>JobErases
    <3>1. Store!Erase(t, K)
      BY Zenon DEF Store!Erase
    <3> QED
      BY Zenon, <3>1 DEF Step, Store!Whole
  \* A block is deleted, or the PLC takes the job for an upload.
  <2>DeleteBlockStep. ASSUME IInv, NEW t \in Tasks, DeleteBlock(t) PROVE Step
    <3> USE <2>DeleteBlockStep
    <3> DEFINE c == call[t]
               b == [blocks EXCEPT ![c.key] = None]
    <3>1. /\ Owns(t) /\ CallOK(c, blocks, image) /\ blocks \in Memory /\ c.op = "delete_block" /\ At(t, "job")
      BY Zenon, AtStage DEF DeleteBlock, Exchanges
    <3>2. c.key \in Keys /\ Returned(c) = NoCall
      BY Zenon, <3>1 DEF CallOK, Shape, Returned, Piecewise
    <3>3. Go(t, NoCall) \/ Done(t, NoCall, b, image) \/ Done(t, NoCall, blocks, image)
      BY Zenon, <3>2 DEF DeleteBlock
    <3>4. b \in Memory /\ b = [k \in Keys |-> IF k \in {c.key} THEN None ELSE blocks[k]]
      BY Zenon, <3>1, <3>2 DEF Memory
    <3> HIDE DEF b
    <3>5. CASE Go(t, NoCall)
      BY Zenon, <3>1, <3>5, <1>GoesIdle
    <3>6. CASE Done(t, NoCall, b, image)
      <4>1. IInv' /\ blocks' = b /\ Offer' = Offer /\ ReadSoFar' = ReadSoFar
        BY Zenon, <3>1, <3>4, <3>6, <2>JobDone
      <4>2. {c.key} \in SUBSET Keys
        BY Zenon, <3>2
      <4> QED
        BY Zenon, <3>4, <4>1, <4>2, <2>JobErases
    <3>7. CASE Done(t, NoCall, blocks, image)
      <4>1. IInv' /\ blocks' = blocks /\ Offer' = Offer /\ ReadSoFar' = ReadSoFar
        BY Zenon, <3>1, <3>7, <2>JobDone
      <4> QED
        BY <4>1 DEF Step
    <3> QED
      BY Zenon, <3>3, <3>5, <3>6, <3>7
  \* A reset deletes all blocks.
  <2>ResetStep. ASSUME IInv, NEW t \in Tasks, Reset(t) PROVE Step
    <3> USE <2>ResetStep
    <3>1. At(t, "job") /\ Done(t, NoCall, [k \in Keys |-> None], image)
      BY Zenon DEF Reset
    <3>2. [k \in Keys |-> None] \in Memory
      BY Zenon DEF Memory
    <3>3. IInv' /\ blocks' = [k \in Keys |-> None] /\ Offer' = Offer /\ ReadSoFar' = ReadSoFar
      BY Zenon, <3>1, <3>2, <2>JobDone
    <3>4. Keys \in SUBSET Keys /\ blocks' = [k \in Keys |-> IF k \in Keys THEN None ELSE blocks[k]]
      BY Zenon, <3>3
    <3> QED
      BY Zenon, <3>3, <3>4, <2>JobErases
  \* Other jobs leave the blocks alone.
  <2>ControlStep. ASSUME IInv, NEW t \in Tasks, Control(t) PROVE Step
    BY Zenon, <2>ControlStep, <1>GoesIdle DEF Control, At
  <2> QED
    BY Zenon, <2>DeleteBlockStep, <2>ResetStep, <2>ControlStep
\* One exchange of whatever call.
<1>ExchangeStep. ASSUME IInv, NEW t \in Tasks, Exchange(t) PROVE Step
  BY Zenon, <1>ExchangeStep, <1>FailStep, <1>UploadStarts, <1>Uploads, <1>UploadEndStep, <1>DownloadDataStep, <1>DownloadEndStep,
     <1>Lists, <1>FillInfoStep, <1>FillWriteStep, <1>ByteReadStep, <1>ByteWrites, <1>Jobs DEF Exchange
\* Every step keeps the invariant and is a step of BlockStore, or none.
<1>BlockOpsStep. ASSUME IInv, [Orderly]_vars PROVE Step
  <2> USE <1>BlockOpsStep
  <2>1. CASE Orderly
    <3>1. PICK t \in Tasks :
            \/ \/ CallUpload(t) \/ CallDownload(t) \/ CallList(t) \/ CallUploadAll(t) \/ CallCompare(t)
               \/ CallFill(t) \/ CallForce(t) \/ CallJob(t)
            \/ Exchange(t) \/ Collect(t) \/ Abandon(t)
      BY Zenon, <2>1 DEF Orderly
    <3> QED
      BY Zenon, <3>1, <1>BeginStep, <1>ExchangeStep, <1>Forgotten
  <2>2. CASE UNCHANGED vars
    <3>1. blocks' = blocks /\ image' = image /\ queue' = queue /\ call' = call
      BY Zenon, <2>2 DEF vars
    <3>2. IInv'
      BY Zenon, <3>1 DEF IInv, Owns
    <3>3. Offer' = Offer /\ ReadSoFar' = ReadSoFar
      BY Zenon, <3>1 DEF Offer, ReadSoFar
    <3> QED
      BY Zenon, <3>1, <3>2, <3>3 DEF Step
  <2> QED
    BY Zenon, <2>1, <2>2
<1> QED
  BY Zenon, <1>BlockOpsStep

\* Once an answer was left behind, the client stays astray, and what is shown
\* for a client in step says nothing any more.
LEMMA InStepBefore ==
  ASSUME [Next]_vars, InStep'
  PROVE  InStep /\ [Orderly]_vars
<1>1. CASE InStep /\ Orderly
  BY Zenon, <1>1
<1>2. CASE astray \in 1..MaxStray /\ \E t \in Tasks : Stray(t)
  <2>1. astray \in Nat /\ astray' = astray + 1
    BY <1>2, BlockConstants DEF Stray
  <2> QED
    BY <2>1 DEF InStep
<1>3. CASE UNCHANGED vars
  BY Zenon, <1>3 DEF vars, InStep
<1> QED
  BY Zenon, <1>1, <1>2, <1>3 DEF Next

\* A client in step takes no stray answer.
LEMMA InStepNext ==
  ASSUME [Next]_vars, InStep
  PROVE  [Orderly]_vars
<1>1. ~(astray \in 1..MaxStray)
  BY BlockConstants DEF InStep
<1> QED
  BY Zenon, <1>1 DEF Next

\* Before an answer is left behind, at every point of every call, what upload has
\* read is the beginning of the block as the PLC has it and what download has sent
\* the beginning of the block handed over, because the mutex is held from the first
\* exchange to the last; and the byte force_bit has read is the one it writes back
\* unless disturbed.
THEOREM BlockOpsInvariant == Spec => [](InStep => IInv)
<1>1. Init => (InStep => IInv)
  BY Zenon, BlocksStart
<1>2. (InStep => IInv) /\ [Next]_vars => (InStep => IInv)'
  BY Zenon, BlockOpsStep, InStepBefore DEF Step
<1> QED
  BY <1>1, <1>2, PTL DEF Spec

\* upload, full_upload, upload_all_blocks and compare_blocks read every block
\* whole, as it was at one moment (but for a first chunk whose bytes are taken for
\* a header), and download and create_db install it whole, whatever the other
\* operations of other tasks do in between, as long as no call times out or is
\* dropped waiting for its answer: BlockOps implements BlockStore, for blocks of
\* any length, sent with or without a header, and chunks of any size.
THEOREM BlockOpsTransfersWhole == Spec => TransfersAreWhole
<1>1. Init => Store!Init
  BY Zenon, BlocksStart
<1>2. (InStep => IInv) /\ [Next]_vars => [Store!Next]_(Store!vars)
  BY Zenon, BlockOpsStep, InStepBefore DEF Step, Store!Next, Store!vars
<1> QED
  BY <1>1, <1>2, BlockOpsInvariant, PTL DEF Spec, TransfersAreWhole, Store!Spec

-----------------------------------------------------------------------------
(* The process image                                                       *)

\* One step: who forces a bit owns the mutex, so nobody else writes.
LEMMA ForceStep == 
  IInv /\ [Orderly]_vars =>
    \A t \in Tasks : At(t, "byte_write") /\ call[t].op = "force_bit" /\ call[t].quiet =>
      \A b \in DOMAIN image : \A i \in Bits :
        (i \in image[b]) # (i \in image'[b]) => b = 8 * call[t].key[1] /\ i = call[t].key[2]
\* An exchange leaves the image alone unless it writes a forced byte.
<1>ImageKept.
  ASSUME [Orderly]_vars
  PROVE  image' = image \/ \E t \in Tasks : ByteWrite(t)
  <2> USE <1>ImageKept
  <2>1. CASE UNCHANGED vars
    BY Zenon, <2>1 DEF vars
  <2>2. CASE Orderly
    <3>1. PICK t \in Tasks :
            \/ \/ CallUpload(t) \/ CallDownload(t) \/ CallList(t) \/ CallUploadAll(t) \/ CallCompare(t)
               \/ CallFill(t) \/ CallForce(t) \/ CallJob(t)
            \/ Exchange(t) \/ Collect(t) \/ Abandon(t)
      BY Zenon, <2>2 DEF Orderly
    <3>2. CASE Collect(t) \/ Abandon(t)
      BY Zenon, <3>2 DEF Collect, Abandon
    <3>3. ASSUME NEW c, Begin(t, c) PROVE image' = image
      BY Zenon, <3>3 DEF Begin
    <3>4. ASSUME NEW c, Go(t, c) PROVE image' = image
      BY Zenon, <3>4 DEF Go, Advance
    <3>5. ASSUME NEW c, NEW b, Done(t, c, b, image) PROVE image' = image
      BY Zenon, <3>5 DEF Done, Advance
    <3>6. CASE \/ CallUpload(t) \/ CallDownload(t) \/ CallList(t) \/ CallUploadAll(t) \/ CallCompare(t)
               \/ CallFill(t) \/ CallForce(t) \/ CallJob(t)
      BY Zenon, <3>3, <3>6 DEF CallUpload, CallDownload, CallList, CallUploadAll, CallCompare, CallFill,
         CallForce, CallJob
    <3>7. CASE Exchange(t)
      <4>1. CASE UploadStart(t)
        BY Zenon, <3>4, <4>1 DEF UploadStart, Advance
      <4>2. CASE Fail(t) \/ UploadData(t) \/ UploadEnd(t) \/ DownloadData(t)
        BY Zenon, <3>4, <4>2 DEF Fail, UploadData, UploadEnd, DownloadData
      <4>3. CASE ListPage(t) \/ FillInfo(t) \/ ByteRead(t) \/ Control(t)
        BY Zenon, <3>4, <4>3 DEF ListPage, FillInfo, ByteRead, Control
      <4>4. CASE DownloadEnd(t) \/ FillWrite(t) \/ DeleteBlock(t) \/ Reset(t)
        BY Zenon, <3>4, <3>5, <4>4 DEF DownloadEnd, FillWrite, DeleteBlock, Reset
      <4> QED
        BY Zenon, <3>7, <4>1, <4>2, <4>3, <4>4 DEF Exchange
    <3> QED
      BY Zenon, <3>1, <3>2, <3>6, <3>7
  <2> QED
    BY Zenon, <2>1, <2>2
\* Only the bit that is forced changes, when the byte is as it was read.
<1>OneBit.
  ASSUME NEW byte, NEW bit, NEW value, NEW i, i # bit
  PROVE  i \in Forced(byte, bit, value) <=> i \in byte
  BY Zenon, <1>OneBit DEF Forced
\* One step: who forces a bit owns the mutex, so nobody else writes.
<1>ForceStep.
  ASSUME IInv, [Orderly]_vars, NEW t \in Tasks, At(t, "byte_write"), call[t].op = "force_bit", call[t].quiet,
         NEW b \in DOMAIN image, NEW i \in Bits, (i \in image[b]) # (i \in image'[b])
  PROVE  b = 8 * call[t].key[1] /\ i = call[t].key[2]
  <2> USE <1>ForceStep
  <2> DEFINE c == call[t]
             w == WireByte(c.key[1])
  <2>1. CallOK(c, blocks, image) /\ c.at = "byte_write" /\ image \in Image
    BY Zenon DEF IInv, At
  <2>2. c.key[1] \in ForceBytes /\ c.data[1] = image[w]
    BY Zenon, <2>1 DEF CallOK, Forcing
  <2>3. w = 8 * c.key[1]
    <3>1. PICK n : n = c.key[1]
      BY Zenon
    <3>2. n \in Nat
      BY Zenon, <2>2, <3>1, BlockConstants
    <3>3. n * 8 = 8 * n
      BY ONLY <3>2
    <3> QED
      BY Zenon, <3>1, <3>3 DEF WireByte
  <2>4. PICK u \in Tasks : ByteWrite(u)
    BY Zenon, <1>ImageKept
  <2>5. u = t
    BY Zenon, <2>4 DEF ByteWrite, At, Owns
  <2>6. image' = [image EXCEPT ![w] = Forced(image[w], c.key[2], c.key[3])]
    BY Zenon, <2>2, <2>4, <2>5 DEF ByteWrite, Done, Advance
  <2> HIDE DEF c, w
  <2>7. b = w
    BY Zenon, <2>6
  <2>8. image'[w] = Forced(image[w], c.key[2], c.key[3])
    BY Zenon, <2>6, <2>7
  <2>9. i = c.key[2]
    BY <2>7, <2>8, <1>OneBit
  <2> QED
    BY Zenon, <2>3, <2>7, <2>9 DEF c
<1> QED
  BY Zenon, <1>ForceStep

\* force_bit reads and writes a whole byte in two exchanges; when nobody wrote
\* to the image in between and no answer was left behind, it changes one bit and
\* nothing else.
THEOREM BlockOpsForcesOneBit == Spec => ForceTouchesOneBit
<1> DEFINE A == InStep =>
                \A t \in Tasks :
                  LET c == call[t] IN
                  At(t, "byte_write") /\ c.op = "force_bit" /\ c.quiet =>
                    \A b \in DOMAIN image : \A i \in Bits :
                      ((i \in image[b]) # (i \in image'[b])) => b = 8 * c.key[1] /\ i = c.key[2]
<1>1. (InStep => IInv) /\ [Next]_vars => A
  BY Zenon, ForceStep, InStepNext
<1>2. (InStep => IInv) /\ [Next]_vars => [A]_vars
  BY Zenon, <1>1
<1>3. Spec => [][A]_vars
  <2> HIDE DEF A
  <2> QED
    BY <1>2, BlockOpsInvariant, PTL DEF Spec
<1> QED
  BY Zenon, <1>3 DEF ForceTouchesOneBit

-----------------------------------------------------------------------------
(* What the loops have done so far                                         *)

Loops == {"upload_all_blocks", "compare_blocks"}

\* The keys of some types, of a list of blocks.
Typed(types) == {k \in Keys : \E i \in DOMAIN types : types[i] = k[1]}
Named(list) == {list[i][1] : i \in DOMAIN list}

\* The numbers of K before the place in the list have been listed.
Paged(c, K) == c.cur \in Nat /\ \A n \in NumbersOf(Head(c.types), K) : n < c.cur => n \in c.nums

\* list_blocks: what was found was there, and nothing is missing that was there all the time.
ListsRight(c, b) ==
  c.op = "list_blocks" =>
    /\ c.nums \subseteq NumbersOf(Head(c.types), c.ever)
    /\ c.at = "page" => c.always \subseteq Present(b) /\ Present(b) \subseteq c.ever /\ Paged(c, c.always)
    /\ c.at = "ok" /\ ~c.cut => NumbersOf(Head(c.types), c.always) \subseteq c.nums

\* upload_all_blocks: what has not been read yet is still ahead.
Ahead(c, k) ==
  \/ k \in Typed(Tail(c.types))
  \/ k[1] = Head(c.types) /\ k[2] \in c.nums
UploadsRight(c, b) ==
  \A k \in Present(b) \cap Wanted :
    \/ c.read[k] = AsRead(k, b[k])
    \/ c.at # "ok" /\ Ahead(c, k)
    \/ c.at = "page" /\ k[1] = Head(c.types)
    \/ c.at \in Uploading /\ k = c.key

\* compare_blocks: the same of the local blocks, and then of those only the PLC has.
OnlyRight(c, b) ==
  c.only \subseteq (Present(b) \cap Wanted) \ LocalKeys(c) /\ Typed(c.types) \subseteq Wanted
ComparesRight(c, b) ==
  /\ OnlyRight(c, b)
  /\ \A k \in LocalKeys(c) : c.read[k] = AsRead(k, b[k]) \/ (c.at \in Uploading /\ (k \in Named(c.todo) \/ k = c.key))
  /\ c.at \in {"page", "ok"} /\ c.plcOnly =>
       \A k \in (Present(b) \cap Wanted) \ LocalKeys(c) : k \in c.only \/ (c.at = "page" /\ k \in Typed(c.types))

LoopRight(c, b) ==
  /\ DOMAIN c.read = Keys /\ \A k \in Keys : c.read[k] \in {None, AsRead(k, b[k])}
  /\ c.at = "page" => c.nums \subseteq NumbersOf(Head(c.types), Present(b)) /\ Paged(c, Present(b))
  /\ c.op = "upload_all_blocks" => UploadsRight(c, b)
  /\ c.op = "compare_blocks" => ComparesRight(c, b)
LoopsRight(c, b) == c.op \in Loops /\ c.quiet /\ ~c.cut => LoopRight(c, b)

\* db_fill: the block is filled up to off.
FillsRight(c, b) ==
  c.op = "db_fill" /\ c.quiet =>
    /\ c.at = "info" => c.off = 0
    /\ c.at = "fill" =>
         /\ \A i \in 1..Len(c.data) : c.data[i] = c.data[1]
         /\ b[c.key] # None /\ Len(b[c.key]) = Len(c.data) /\ c.off < Len(c.data)
         /\ \A i \in 1..c.off : b[c.key][i] = c.data[1]
    /\ c.at = "ok" => b[c.key] = [i \in DOMAIN b[c.key] |-> c.data[1]]

\* force_bit: the bit is set when the byte has been written.
ForcesRight(c, im) ==
  c.op = "force_bit" =>
    /\ c.key[3] \in BOOLEAN
    /\ c.at = "ok" /\ c.quiet => (c.key[2] \in im[WireByte(c.key[1])]) = c.key[3]

Right(c, b, im) == ListsRight(c, b) /\ LoopsRight(c, b) /\ FillsRight(c, b) /\ ForcesRight(c, im)

\* Every call has done its part.
RInv == \A t \in Tasks : Right(call[t], blocks, image)

\* Calls that nothing is said about.
LEMMA RightAnyway ==
  ASSUME NEW c, NEW b, NEW im, c.op \notin Loops \cup {"list_blocks", "db_fill", "force_bit"}
  PROVE  Right(c, b, im)
BY Zenon DEF Right, ListsRight, LoopsRight, FillsRight, ForcesRight

-----------------------------------------------------------------------------
(* What a loop goes on to                                                  *)

Kept(c, d) == DOMAIN d = DOMAIN NoCall /\ d.op = c.op /\ d.quiet = c.quiet /\ d.cut = c.cut
ReadRight(c, b) == DOMAIN c.read = Keys /\ \A k \in Keys : c.read[k] \in {None, AsRead(k, b[k])}

\* Before a type is listed: what has not been dealt with is of a type still to be listed.
TypesAhead(c, b) ==
  /\ ReadRight(c, b)
  /\ c.op = "upload_all_blocks" => \A k \in Present(b) \cap Wanted : c.read[k] = AsRead(k, b[k]) \/ k \in Typed(c.types)
  /\ c.op = "compare_blocks" =>
       /\ OnlyRight(c, b) /\ \A k \in LocalKeys(c) : c.read[k] = AsRead(k, b[k])
       /\ c.plcOnly => \A k \in (Present(b) \cap Wanted) \ LocalKeys(c) : k \in c.only \/ k \in Typed(c.types)

\* Before a block is read.
NumbersAhead(c, b) ==
  ReadRight(c, b) /\ \A k \in Present(b) \cap Wanted : c.read[k] = AsRead(k, b[k]) \/ Ahead(c, k)
LocalsAhead(c, b) ==
  ReadRight(c, b) /\ OnlyRight(c, b) /\ \A k \in LocalKeys(c) : c.read[k] = AsRead(k, b[k]) \/ k \in Named(c.todo)

\* What is still to be read before a loop goes on to another block.
BlocksAhead(c, b) ==
  /\ c.op = "upload_all_blocks" => NumbersAhead(c, b)
  /\ c.op = "compare_blocks" => LocalsAhead(c, b)

\* Nothing is missing in a list that is complete.
Complete(c, b) ==
  /\ c.op = "list_blocks" =>
       /\ c.nums \subseteq NumbersOf(Head(c.types), c.ever)
       /\ ~c.cut => NumbersOf(Head(c.types), c.always) \subseteq c.nums
  /\ c.op \in Loops /\ c.quiet /\ ~c.cut => LoopRight(c, b) /\ NumbersOf(Head(c.types), Present(b)) \subseteq c.nums

\* A block that is filled with v up to off is filled on to e.
FillsOn(v, old, data, off, e) ==
  /\ old \in Seq(Bytes) /\ data \in Seq(Bytes) /\ off \in Nat /\ e \in Nat
  /\ Len(old) = Len(data) /\ off <= e /\ e <= Len(data)
  /\ \A i \in 1..off : old[i] = v
  /\ \A i \in 1..Len(data) : data[i] = v
FilledTo(v, size, e, new) ==
  new \in Seq(Bytes) /\ DOMAIN new = 1..size /\ Len(new) = size /\ \A i \in 1..e : new[i] = v

\* Every step keeps what the calls have done right: first what the steps have in common,
\* then every exchange and every call by itself.
LEMMA RightStep == IInv /\ RInv /\ [Orderly]_vars => RInv'
\* The numbers of blocks are numbers.
<1>NumbersOfKeys.
  ASSUME NEW type, NEW K \in SUBSET Keys
  PROVE  /\ NumbersOf(type, K) \in SUBSET Nat
         /\ \A n \in NumbersOf(type, K) : <<type, n>> \in K
         /\ \A k \in K : k[1] = type => k = <<type, k[2]>> /\ k[2] \in NumbersOf(type, K)
  <2> USE <1>NumbersOfKeys
  <2>1. \A k \in Keys : k = <<k[1], k[2]>> /\ k[2] \in Nat
    BY BlockConstants
  <2> QED
    BY Zenon, <2>1 DEF NumbersOf
\* Of upload_all_blocks and compare_blocks something is said as long as they are alone.
<1>RightLoop.
  ASSUME NEW c, NEW b, NEW im, c.op \in Loops, c.quiet /\ ~c.cut => LoopRight(c, b)
  PROVE  Right(c, b, im)
  BY Zenon, <1>RightLoop DEF Right, ListsRight, LoopsRight, FillsRight, ForcesRight, Loops
\* One exchange: if the call of its task comes out right, all of them are.
<1>AdvancesRight. \A t \in Tasks : \A c, b, im :
  IInv /\ RInv /\ DOMAIN c = DOMAIN NoCall /\ Right(c, b, im) /\ Advance(t, c, b, im) => RInv'
  \* list_blocks may be overtaken by any change of the PLC.
  <2>SeenLists.
    ASSUME NEW c, NEW b0, NEW b, DOMAIN c = DOMAIN NoCall, ListsRight(c, b0), c.op = "list_blocks"
    PROVE  ListsRight(Seen(c, b), b)
    <3> USE <2>SeenLists
    <3>1. CASE c.at = "ok"
      BY Zenon, <3>1 DEF Seen, ListsRight
    <3>2. CASE c.at # "ok"
      <4> DEFINE d == Seen(c, b)
      <4>1. /\ d.op = c.op /\ d.at = c.at /\ d.nums = c.nums /\ d.types = c.types /\ d.cur = c.cur /\ d.cut = c.cut
            /\ d.always = c.always \cap Present(b) /\ d.ever = c.ever \cup Present(b)
        BY Zenon, <3>2 DEF Seen, NoCall
      <4> HIDE DEF d
      <4>2. NumbersOf(Head(c.types), c.ever) \subseteq NumbersOf(Head(c.types), d.ever)
        BY Zenon, <4>1 DEF NumbersOf
      <4>3. NumbersOf(Head(c.types), d.always) \subseteq NumbersOf(Head(c.types), c.always)
        BY Zenon, <4>1 DEF NumbersOf
      <4>4. c.nums \subseteq NumbersOf(Head(c.types), c.ever) /\ (c.at = "page" => Paged(c, c.always))
        BY Zenon DEF ListsRight
      <4>5. d.nums \subseteq NumbersOf(Head(d.types), d.ever)
        BY Zenon, <4>1, <4>2, <4>4
      <4>6. c.at = "page" => Paged(d, d.always)
        BY Zenon, <4>1, <4>3, <4>4 DEF Paged
      <4>7. d.always \subseteq Present(b) /\ Present(b) \subseteq d.ever
        BY Zenon, <4>1
      <4> QED
        BY Zenon, <3>2, <4>1, <4>5, <4>6, <4>7 DEF ListsRight, d
    <3> QED
      BY Zenon, <3>1, <3>2
  \* A change of the PLC by another task: calls of several exchanges take note.
  <2>DisturbedRight.
    ASSUME NEW c, NEW b0, NEW im0, NEW b, NEW im, DOMAIN c = DOMAIN NoCall, Right(c, b0, im0)
    PROVE  Right(Seen(Disturbed(c), b), b, im)
    <3> USE <2>DisturbedRight
    <3> DEFINE d == Disturbed(c)
    <3>1. CASE c.op = "list_blocks"
      <4>1. d = c
        BY Zenon, <3>1 DEF Disturbed, Piecewise
      <4>2. ListsRight(Seen(c, b), b) /\ Seen(c, b).op = c.op
        BY Zenon, <3>1, <2>SeenLists, SeenAlike DEF Right, Alike
      <4> QED
        BY Zenon, <3>1, <4>1, <4>2 DEF Right, LoopsRight, FillsRight, ForcesRight, Loops
    <3>2. CASE c.op \in Piecewise
      <4>1. d = [c EXCEPT !.quiet = FALSE]
        BY Zenon, <3>2 DEF Disturbed
      <4>2. d.op = c.op /\ d.quiet = FALSE /\ d.key = c.key
        BY Zenon, <4>1 DEF NoCall
      <4> HIDE DEF d
      <4>3. Seen(d, b) = d
        BY Zenon, <3>2, <4>2 DEF Seen, Piecewise
      <4>4. Right(d, b, im)
        BY Zenon, <3>2, <4>2 DEF Right, ListsRight, LoopsRight, FillsRight, ForcesRight, Piecewise
      <4> QED
        BY Zenon, <4>3, <4>4 DEF d
    <3>3. CASE c.op \notin Piecewise /\ c.op # "list_blocks"
      <4>1. Seen(d, b) = c
        BY Zenon, <3>3 DEF Disturbed, Seen
      <4> QED
        BY Zenon, <3>3, <4>1, RightAnyway DEF Loops, Piecewise
    <3> QED
      BY Zenon, <3>1, <3>2, <3>3
  \* One exchange: if the call of its task comes out right, all of them are.
  <2>AdvancesRight.
    ASSUME IInv, RInv, NEW t \in Tasks, NEW c, NEW b, NEW im, DOMAIN c = DOMAIN NoCall, Right(c, b, im),
           Advance(t, c, b, im)
    PROVE  RInv'
    <3> USE <2>AdvancesRight
    <3>1. blocks' = b /\ image' = im /\ call'[t] = Seen(c, b)
      BY Zenon DEF Advance
    <3>2. Right(Seen(c, b), b, im)
      <4>1. CASE c.op = "list_blocks"
        <5>1. ListsRight(Seen(c, b), b) /\ Seen(c, b).op = c.op
          BY Zenon, <4>1, <2>SeenLists, SeenAlike DEF Right, Alike
        <5> QED
          BY Zenon, <4>1, <5>1 DEF Right, LoopsRight, FillsRight, ForcesRight, Loops
      <4>2. CASE c.op # "list_blocks"
        BY Zenon, <4>2 DEF Seen
      <4> QED
        BY Zenon, <4>1, <4>2
    <3>3. ASSUME NEW u \in Tasks, u # t PROVE Right(call'[u], b, im)
      <4>1. Right(call[u], blocks, image) /\ DOMAIN call[u] = DOMAIN NoCall
        BY Zenon DEF IInv, RInv, CallOK, Shape
      <4>2. call'[u] = IF b = blocks /\ im = image THEN call[u] ELSE Seen(Disturbed(call[u]), b)
        BY Zenon, <3>3 DEF Advance
      <4>3. Right(Seen(Disturbed(call[u]), b), b, im)
        BY Zenon, <4>1, <2>DisturbedRight
      <4> QED
        BY Zenon, <4>1, <4>2, <4>3
    <3> QED
      BY Zenon, <3>1, <3>2, <3>3 DEF RInv
  <2> QED
    BY Zenon, <2>AdvancesRight
\* The first of a sequence and the others.
<1>HeadOrTail.
  ASSUME NEW S, NEW s \in Seq(S), s # <<>>, NEW i \in DOMAIN s
  PROVE  s[i] = Head(s) \/ \E j \in DOMAIN Tail(s) : s[i] = Tail(s)[j]
  <2> USE <1>HeadOrTail
  <2>1. Head(s) = s[1] /\ Tail(s) \in Seq(S) /\ Len(Tail(s)) = Len(s) - 1 /\ Len(s) \in Nat /\ i \in 1..Len(s)
    BY TailCases
  <2>2. DOMAIN Tail(s) = 1..Len(Tail(s)) /\ \A j \in 1..Len(Tail(s)) : Tail(s)[j] = s[j + 1]
    BY <2>1, TailCases
  <2>3. CASE i = 1
    BY Zenon, <2>1, <2>3
  <2>4. CASE i # 1
    <3>1. i - 1 \in 1..Len(Tail(s)) /\ (i - 1) + 1 = i
      BY <2>1, <2>4
    <3> QED
      BY Zenon, <2>2, <3>1
  <2> QED
    BY Zenon, <2>3, <2>4
\* The first type and the others.
<1>TypedParts.
  ASSUME NEW s \in Seq(STRING), s # <<>>, NEW k \in Typed(s)
  PROVE  k[1] = Head(s) \/ k \in Typed(Tail(s))
  <2> USE <1>TypedParts
  <2>1. k \in Keys
    BY Zenon DEF Typed
  <2>2. PICK i \in DOMAIN s : s[i] = k[1]
    BY Zenon DEF Typed
  <2>3. s[i] = Head(s) \/ \E j \in DOMAIN Tail(s) : s[i] = Tail(s)[j]
    BY Zenon, <1>HeadOrTail
  <2> QED
    BY Zenon, <2>1, <2>2, <2>3 DEF Typed
\* The next type is listed, or there is none.
<1>NextTypeRight.
  ASSUME NEW c, NEW b, DOMAIN c = DOMAIN NoCall, c.op \in Loops, c.types \in Seq(STRING)
  PROVE  Kept(c, NextType(c)) /\ (TypesAhead(c, b) => LoopRight(NextType(c), b))
  <2> USE <1>NextTypeRight
  <2> DEFINE d == NextType(c)
  <2>1. CASE c.types = <<>>
    <3>1. d = [c EXCEPT !.at = "ok"]
      BY Zenon, <2>1 DEF NextType, Returned, Piecewise, Loops
    <3>2. /\ DOMAIN d = DOMAIN NoCall /\ d.at = "ok" /\ d.op = c.op /\ d.quiet = c.quiet /\ d.cut = c.cut
          /\ d.read = c.read /\ d.types = c.types /\ d.only = c.only /\ d.local = c.local /\ d.plcOnly = c.plcOnly
      BY Zenon, <3>1 DEF NoCall
    <3> HIDE DEF d
    <3>3. LocalKeys(d) = LocalKeys(c)
      BY Zenon, <3>2 DEF LocalKeys
    <3>4. Typed(c.types) = {}
      BY <2>1 DEF Typed
    <3>5. ASSUME TypesAhead(c, b) PROVE LoopRight(d, b)
      <4>1. c.op = "upload_all_blocks" => UploadsRight(d, b)
        BY Zenon, <3>2, <3>4, <3>5 DEF TypesAhead, UploadsRight
      <4>2. c.op = "compare_blocks" => ComparesRight(d, b)
        BY Zenon, <3>2, <3>3, <3>4, <3>5 DEF TypesAhead, ComparesRight, OnlyRight
      <4> QED
        BY Zenon, <3>2, <3>5, <4>1, <4>2 DEF LoopRight, TypesAhead, ReadRight
    <3> QED
      BY Zenon, <3>2, <3>5 DEF Kept, d
  <2>2. CASE c.types # <<>>
    <3>1. d = [c EXCEPT !.at = "page", !.nums = {}, !.cur = 0]
      BY Zenon, <2>2 DEF NextType
    <3>2. /\ DOMAIN d = DOMAIN NoCall /\ d.at = "page" /\ d.op = c.op /\ d.quiet = c.quiet /\ d.cut = c.cut
          /\ d.read = c.read /\ d.types = c.types /\ d.only = c.only /\ d.local = c.local /\ d.plcOnly = c.plcOnly
          /\ d.nums = {} /\ d.cur = 0
      BY <3>1 DEF NoCall
    <3> HIDE DEF d
    <3>3. LocalKeys(d) = LocalKeys(c)
      BY Zenon, <3>2 DEF LocalKeys
    <3>4. \A k \in Typed(c.types) : k[1] = Head(c.types) \/ k \in Typed(Tail(c.types))
      BY Zenon, <2>2, <1>TypedParts
    <3>5. Paged(d, Present(b))
      <4>1. Present(b) \in SUBSET Keys
        BY Zenon DEF Present
      <4>2. NumbersOf(Head(d.types), Present(b)) \in SUBSET Nat
        BY Zenon, <4>1, <1>NumbersOfKeys
      <4>3. \A n \in Nat : ~(n < 0)
        OBVIOUS
      <4>4. d.cur \in Nat
        BY <3>2
      <4> QED
        BY Zenon, <3>2, <4>2, <4>3, <4>4 DEF Paged
    <3>6. ASSUME TypesAhead(c, b) PROVE LoopRight(d, b)
      <4>1. c.op = "upload_all_blocks" => UploadsRight(d, b)
        BY Zenon, <3>2, <3>4, <3>6 DEF TypesAhead, UploadsRight, Ahead
      <4>2. c.op = "compare_blocks" => ComparesRight(d, b)
        BY Zenon, <3>2, <3>3, <3>6 DEF TypesAhead, ComparesRight, OnlyRight
      <4> QED
        BY Zenon, <3>2, <3>5, <3>6, <4>1, <4>2 DEF LoopRight, TypesAhead, ReadRight
    <3> QED
      BY Zenon, <3>2, <3>6 DEF Kept, d
  <2> QED
    BY Zenon, <2>1, <2>2
\* The next number of the type is read, or the next type listed.
<1>NextNumberRight.
  ASSUME NEW c, NEW b, DOMAIN c = DOMAIN NoCall, c.op = "upload_all_blocks", c.types \in Seq(STRING),
         c.types # <<>>, c.nums \in SUBSET Nat
  PROVE  Kept(c, NextNumber(c)) /\ (NumbersAhead(c, b) => LoopRight(NextNumber(c), b))
  <2> USE <1>NextNumberRight
  <2>1. CASE c.nums = {}
    <3> DEFINE e == [c EXCEPT !.types = Tail(c.types)]
    <3>1. /\ DOMAIN e = DOMAIN NoCall /\ e.op = c.op /\ e.quiet = c.quiet /\ e.cut = c.cut /\ e.read = c.read
          /\ e.types = Tail(c.types)
      BY Zenon DEF NoCall
    <3>2. NextNumber(c) = NextType(e)
      BY Zenon, <2>1 DEF NextNumber
    <3>3. e.types \in Seq(STRING) /\ e.op \in Loops
      BY Zenon, <3>1, TailCases DEF Loops
    <3> HIDE DEF e
    <3>4. Kept(e, NextType(e)) /\ (TypesAhead(e, b) => LoopRight(NextType(e), b))
      BY Zenon, <3>1, <3>3, <1>NextTypeRight
    <3>5. NumbersAhead(c, b) => TypesAhead(e, b)
      BY Zenon, <2>1, <3>1 DEF NumbersAhead, TypesAhead, ReadRight, Ahead
    <3> QED
      BY Zenon, <3>1, <3>2, <3>4, <3>5 DEF Kept
  <2>2. CASE c.nums # {}
    <3> DEFINE n == FirstNumber(c.nums)
               d == NextNumber(c)
    <3>1. n \in c.nums
      BY Zenon, <2>2 DEF FirstNumber
    <3>2. d = [c EXCEPT !.at = "up_start", !.key = <<Head(c.types), n>>, !.nums = c.nums \ {n}]
      BY Zenon, <2>2 DEF NextNumber
    <3>3. /\ DOMAIN d = DOMAIN NoCall /\ d.at = "up_start" /\ d.op = c.op /\ d.quiet = c.quiet /\ d.cut = c.cut
          /\ d.read = c.read /\ d.types = c.types /\ d.key = <<Head(c.types), n>> /\ d.nums = c.nums \ {n}
      BY Zenon, <3>2 DEF NoCall
    <3> HIDE DEF d, n
    <3>4. \A k \in Keys : k = <<k[1], k[2]>>
      BY BlockConstants
    <3>5. ASSUME NEW k \in Keys, Ahead(c, k) PROVE Ahead(d, k) \/ k = d.key
      BY Zenon, <3>3, <3>4, <3>5 DEF Ahead
    <3>6. ASSUME NumbersAhead(c, b) PROVE LoopRight(d, b)
      <4>1. UploadsRight(d, b)
        BY Zenon, <3>3, <3>5, <3>6 DEF NumbersAhead, UploadsRight, Uploading, Present
      <4> QED
        BY Zenon, <3>3, <3>6, <4>1 DEF LoopRight, NumbersAhead, ReadRight
    <3> QED
      BY Zenon, <3>3, <3>6 DEF Kept, d
  <2> QED
    BY Zenon, <2>1, <2>2
\* The next local block is compared, or the types are listed.
<1>NextLocalRight. \A c, b :
  DOMAIN c = DOMAIN NoCall /\ c.op = "compare_blocks" /\ c.todo \in Seq(Keys \X Seq(Bytes)) =>
    Kept(c, NextLocal(c)) /\ (LocalsAhead(c, b) => LoopRight(NextLocal(c), b))
  \* The first of a list of blocks and the others.
  <2>NamedParts.
    ASSUME NEW S, NEW l \in Seq(S), l # <<>>, NEW k \in Named(l)
    PROVE  k = Head(l)[1] \/ k \in Named(Tail(l))
    <3> USE <2>NamedParts
    <3>1. PICK i \in DOMAIN l : k = l[i][1]
      BY Zenon DEF Named
    <3>2. l[i] = Head(l) \/ \E j \in DOMAIN Tail(l) : l[i] = Tail(l)[j]
      BY Zenon, <1>HeadOrTail
    <3> QED
      BY Zenon, <3>1, <3>2 DEF Named
  \* The next local block is compared, or the types are listed.
  <2>NextLocalRight.
    ASSUME NEW c, NEW b, DOMAIN c = DOMAIN NoCall, c.op = "compare_blocks", c.todo \in Seq(Keys \X Seq(Bytes))
    PROVE  Kept(c, NextLocal(c)) /\ (LocalsAhead(c, b) => LoopRight(NextLocal(c), b))
    <3> USE <2>NextLocalRight
    <3> DEFINE d == NextLocal(c)
    <3>1. CASE c.todo # <<>>
      <4>1. d = [c EXCEPT !.at = "up_start", !.key = Head(c.todo)[1], !.todo = Tail(c.todo)]
        BY Zenon, <3>1 DEF NextLocal
      <4>2. /\ DOMAIN d = DOMAIN NoCall /\ d.at = "up_start" /\ d.op = c.op /\ d.quiet = c.quiet /\ d.cut = c.cut
            /\ d.read = c.read /\ d.types = c.types /\ d.only = c.only /\ d.local = c.local
            /\ d.key = Head(c.todo)[1] /\ d.todo = Tail(c.todo)
        BY <4>1 DEF NoCall
      <4> HIDE DEF d
      <4>3. LocalKeys(d) = LocalKeys(c)
        BY Zenon, <4>2 DEF LocalKeys
      <4>4. \A k \in Named(c.todo) : k = d.key \/ k \in Named(d.todo)
        BY Zenon, <3>1, <4>2, <2>NamedParts
      <4>5. ASSUME LocalsAhead(c, b) PROVE LoopRight(d, b)
        <5>1. ComparesRight(d, b)
          BY Zenon, <4>2, <4>3, <4>4, <4>5 DEF LocalsAhead, ComparesRight, OnlyRight, Uploading
        <5> QED
          BY Zenon, <4>2, <4>5, <5>1 DEF LoopRight, LocalsAhead, ReadRight
      <4> QED
        BY Zenon, <4>2, <4>5 DEF Kept, d
    <3>2. CASE c.todo = <<>> /\ c.plcOnly
      <4> DEFINE e == [c EXCEPT !.types = BlockTypes]
      <4>1. /\ DOMAIN e = DOMAIN NoCall /\ e.op = c.op /\ e.quiet = c.quiet /\ e.cut = c.cut /\ e.read = c.read
            /\ e.types = BlockTypes /\ e.only = c.only /\ e.local = c.local /\ e.plcOnly = c.plcOnly
        BY Zenon DEF NoCall
      <4>2. d = NextType(e)
        BY Zenon, <3>2 DEF NextLocal
      <4>3. e.types \in Seq(STRING) /\ e.op \in Loops
        BY Zenon, <4>1, BlockConstants DEF Loops
      <4> HIDE DEF e
      <4>4. Kept(e, NextType(e)) /\ (TypesAhead(e, b) => LoopRight(NextType(e), b))
        BY Zenon, <4>1, <4>3, <1>NextTypeRight
      <4>5. LocalKeys(e) = LocalKeys(c) /\ Typed(e.types) = Wanted /\ Named(c.todo) = {}
        BY <3>2, <4>1 DEF LocalKeys, Typed, Wanted, Named
      <4>6. LocalsAhead(c, b) => TypesAhead(e, b)
        BY Zenon, <4>1, <4>5 DEF LocalsAhead, TypesAhead, ReadRight, OnlyRight
      <4> QED
        BY Zenon, <4>1, <4>2, <4>4, <4>6 DEF Kept
    <3>3. CASE c.todo = <<>> /\ ~c.plcOnly
      <4>1. d = [c EXCEPT !.at = "ok"]
        BY Zenon, <3>3 DEF NextLocal, Returned, Piecewise
      <4>2. /\ DOMAIN d = DOMAIN NoCall /\ d.at = "ok" /\ d.op = c.op /\ d.quiet = c.quiet /\ d.cut = c.cut
            /\ d.read = c.read /\ d.types = c.types /\ d.only = c.only /\ d.local = c.local /\ d.plcOnly = c.plcOnly
        BY Zenon, <4>1 DEF NoCall
      <4> HIDE DEF d
      <4>3. LocalKeys(d) = LocalKeys(c) /\ Named(c.todo) = {}
        BY <3>3, <4>2 DEF LocalKeys, Named
      <4>4. ASSUME LocalsAhead(c, b) PROVE LoopRight(d, b)
        <5>1. ComparesRight(d, b)
          BY Zenon, <3>3, <4>2, <4>3, <4>4 DEF LocalsAhead, ComparesRight, OnlyRight
        <5> QED
          BY ZenonT(30), <4>2, <4>4, <5>1 DEF LoopRight, LocalsAhead, ReadRight
      <4> QED
        BY Zenon, <4>2, <4>4 DEF Kept, d
    <3> QED
      BY Zenon, <3>1, <3>2, <3>3
  <2> QED
    BY Zenon, <2>NextLocalRight
\* A block was read, or compare_blocks could not read it.
<1>AfterBlockRight.
  ASSUME NEW c, NEW b, Between(c), c.op \in Loops, c.op = "upload_all_blocks" => c.types # <<>>
  PROVE  Kept(c, AfterBlock(c)) /\ (BlocksAhead(c, b) => LoopRight(AfterBlock(c), b))
  <2> USE <1>AfterBlockRight
  <2> DEFINE d == [c EXCEPT !.key = None, !.data = <<>>, !.off = 0]
  <2>1. /\ DOMAIN d = DOMAIN NoCall /\ d.op = c.op /\ d.quiet = c.quiet /\ d.cut = c.cut /\ d.read = c.read
        /\ d.types = c.types /\ d.nums = c.nums /\ d.todo = c.todo /\ d.only = c.only /\ d.local = c.local
        /\ d.plcOnly = c.plcOnly
    BY Zenon DEF NoCall, Between
  <2>2. AfterBlock(c) = CASE c.op = "upload_all_blocks" -> NextNumber(d)
                          [] c.op = "compare_blocks" -> NextLocal(d)
                          [] OTHER -> Returned(d)
    BY Zenon DEF AfterBlock
  <2>3. Looping(c)
    BY Zenon DEF Between, Loops
  <2> HIDE DEF d
  <2>4. CASE c.op = "upload_all_blocks"
    <3>1. d.types \in Seq(STRING) /\ d.types # <<>> /\ d.nums \in SUBSET Nat
      BY Zenon, <2>1, <2>3, <2>4 DEF Looping
    <3>2. Kept(d, NextNumber(d)) /\ (NumbersAhead(d, b) => LoopRight(NextNumber(d), b))
      BY ZenonT(30), <2>1, <2>4, <3>1, <1>NextNumberRight
    <3>3. BlocksAhead(c, b) => NumbersAhead(d, b)
      BY Zenon, <2>1, <2>4 DEF BlocksAhead, NumbersAhead, ReadRight, Ahead
    <3> QED
      BY Zenon, <2>1, <2>2, <2>4, <3>2, <3>3 DEF Kept
  <2>5. CASE c.op = "compare_blocks"
    <3>1. d.todo \in Seq(Keys \X Seq(Bytes))
      BY Zenon, <2>1, <2>3 DEF Looping
    <3>2. Kept(d, NextLocal(d)) /\ (LocalsAhead(d, b) => LoopRight(NextLocal(d), b))
      BY ZenonT(30), <2>1, <2>5, <3>1, <1>NextLocalRight
    <3>3. BlocksAhead(c, b) => LocalsAhead(d, b)
      BY <2>1, <2>5 DEF BlocksAhead, LocalsAhead, ReadRight, OnlyRight, LocalKeys
    <3> QED
      BY Zenon, <2>1, <2>2, <2>5, <3>2, <3>3 DEF Kept
  <2> QED
    BY Zenon, <2>4, <2>5 DEF Loops
\* A list is complete: the call goes on, or returns it.
<1>AfterListRight. \A c, b, im : Shape(c) /\ c.at = "page" /\ Complete(c, b) => Right(AfterList(c), b, im)
  \* Types without the first.
  <2>TypedTail.
    ASSUME NEW s \in Seq(STRING), s # <<>>
    PROVE  Typed(Tail(s)) \subseteq Typed(s) /\ \A k \in Keys : k[1] = Head(s) => k \in Typed(s)
    <3> USE <2>TypedTail
    <3>1. /\ Head(s) = s[1] /\ 1 \in DOMAIN s
          /\ \A j \in DOMAIN Tail(s) : j + 1 \in DOMAIN s /\ Tail(s)[j] = s[j + 1]
      BY TailCases
    <3> QED
      BY Zenon, <3>1 DEF Typed
  \* upload_all_blocks has the numbers of a type.
  <2>ListedForUpload.
    ASSUME NEW c, NEW b, c.op = "upload_all_blocks", c.at = "page", LoopRight(c, b),
           NumbersOf(Head(c.types), Present(b)) \subseteq c.nums
    PROVE  NumbersAhead(c, b)
    <3> USE <2>ListedForUpload
    <3>1. ReadRight(c, b) /\ UploadsRight(c, b)
      BY Zenon DEF LoopRight, ReadRight
    <3>2. ASSUME NEW k \in Present(b), k[1] = Head(c.types) PROVE Ahead(c, k)
      <4>1. Present(b) \in SUBSET Keys
        BY Zenon DEF Present
      <4>2. k[2] \in NumbersOf(Head(c.types), Present(b))
        BY Zenon, <3>2, <4>1, <1>NumbersOfKeys
      <4> QED
        BY Zenon, <3>2, <4>2 DEF Ahead
    <3> QED
      BY Zenon, <3>1, <3>2 DEF NumbersAhead, UploadsRight, Uploading
  \* compare_blocks has the numbers of a type: the local ones are known already.
  <2>ListedForCompare.
    ASSUME NEW c, NEW b, c.op = "compare_blocks", c.at = "page", LoopRight(c, b),
           NumbersOf(Head(c.types), Present(b)) \subseteq c.nums, c.types \in Seq(STRING), c.types # <<>>,
           NEW d, d.op = c.op, d.read = c.read, d.local = c.local, d.plcOnly = c.plcOnly, d.types = Tail(c.types),
           d.only = c.only \cup ({<<Head(c.types), n>> : n \in c.nums} \ LocalKeys(c))
    PROVE  TypesAhead(d, b)
    <3> USE <2>ListedForCompare
    <3> DEFINE T == Head(c.types)
               O == {<<T, n>> : n \in c.nums}
    <3>1. ReadRight(c, b) /\ ComparesRight(c, b) /\ c.nums \subseteq NumbersOf(T, Present(b))
      BY Zenon DEF LoopRight, ReadRight
    <3>2. LocalKeys(d) = LocalKeys(c)
      BY Zenon DEF LocalKeys
    <3>3. /\ \A n \in NumbersOf(T, Present(b)) : <<T, n>> \in Present(b)
          /\ \A k \in Present(b) : k[1] = T => k = <<T, k[2]>> /\ k[2] \in NumbersOf(T, Present(b))
      <4>1. Present(b) \in SUBSET Keys
        BY Zenon DEF Present
      <4> QED
        BY Zenon, <4>1, <1>NumbersOfKeys
    <3>4. Typed(Tail(c.types)) \subseteq Typed(c.types) /\ \A k \in Keys : k[1] = T => k \in Typed(c.types)
      BY Zenon, <2>TypedTail
    <3>5. OnlyRight(c, b)
      BY Zenon, <3>1 DEF ComparesRight
    <3>6. O \subseteq Present(b) \cap Wanted
      <4>1. ASSUME NEW n \in c.nums PROVE <<T, n>> \in Present(b) /\ <<T, n>> \in Wanted
        <5>1. <<T, n>> \in Present(b) /\ <<T, n>>[1] = T
          BY Zenon, <3>1, <3>3
        <5>2. <<T, n>> \in Keys
          BY Zenon, <5>1 DEF Present
        <5> QED
          BY Zenon, <3>4, <3>5, <5>1, <5>2 DEF OnlyRight
      <4> QED
        BY Zenon, <4>1
    <3>7. \A k \in Present(b) : k[1] = T => k \in O
      BY Zenon, <3>3
    <3> HIDE DEF O, T
    <3>8. d.only = c.only \cup (O \ LocalKeys(c))
      BY Zenon DEF O, T
    <3>9. OnlyRight(d, b)
      BY Zenon, <3>2, <3>4, <3>5, <3>6, <3>8 DEF OnlyRight
    <3>10. \A k \in LocalKeys(d) : d.read[k] = AsRead(k, b[k])
      BY Zenon, <3>1, <3>2 DEF ComparesRight, Uploading
    <3>11. ASSUME d.plcOnly, NEW k \in (Present(b) \cap Wanted) \ LocalKeys(d) PROVE k \in d.only \/ k \in Typed(d.types)
      <4>1. k \in c.only \/ k \in Typed(c.types)
        BY Zenon, <3>1, <3>2, <3>11 DEF ComparesRight
      <4>2. k \in Typed(c.types) => k[1] = T \/ k \in Typed(Tail(c.types))
        BY Zenon, <1>TypedParts DEF T
      <4> QED
        BY Zenon, <3>2, <3>7, <3>8, <4>1, <4>2
    <3>12. ReadRight(d, b)
      BY Zenon, <3>1 DEF ReadRight
    <3> QED
      BY Zenon, <3>9, <3>10, <3>11, <3>12 DEF TypesAhead
  \* A list is complete: the call goes on, or returns it.
  <2>AfterListRight.
    ASSUME NEW c, NEW b, NEW im, Shape(c), c.at = "page", Complete(c, b)
    PROVE  Right(AfterList(c), b, im)
    <3> USE <2>AfterListRight
    <3>1. c.op \in {"list_blocks", "upload_all_blocks", "compare_blocks"} /\ c.types # <<>> /\ Looping(c)
          /\ DOMAIN c = DOMAIN NoCall
      BY Zenon DEF Shape
    <3>2. CASE c.op = "list_blocks"
      <4> DEFINE d == [c EXCEPT !.at = "ok"]
      <4>1. AfterList(c) = d
        BY Zenon, <3>2 DEF AfterList, Returned
      <4>2. /\ d.op = c.op /\ d.at = "ok" /\ d.nums = c.nums /\ d.types = c.types /\ d.ever = c.ever
            /\ d.always = c.always /\ d.cut = c.cut
        BY Zenon, <3>1 DEF NoCall
      <4> HIDE DEF d
      <4>3. ListsRight(d, b)
        BY ZenonT(30), <3>2, <4>2 DEF Complete, ListsRight
      <4> QED
        BY Zenon, <3>2, <4>1, <4>2, <4>3 DEF Right, LoopsRight, FillsRight, ForcesRight, Loops
    <3>3. CASE c.op = "upload_all_blocks"
      <4>1. AfterList(c) = NextNumber(c)
        BY Zenon, <3>3 DEF AfterList
      <4>2. c.types \in Seq(STRING) /\ c.nums \in SUBSET Nat
        BY Zenon, <3>1 DEF Looping
      <4>3. Kept(c, NextNumber(c)) /\ (NumbersAhead(c, b) => LoopRight(NextNumber(c), b))
        BY Zenon, <3>1, <3>3, <4>2, <1>NextNumberRight
      <4>4. c.quiet /\ ~c.cut => NumbersAhead(c, b)
        BY Zenon, <3>3, <2>ListedForUpload DEF Complete, Loops
      <4> QED
        BY <3>3, <4>1, <4>3, <4>4, <1>RightLoop DEF Kept, Loops
    <3>4. CASE c.op = "compare_blocks"
      <4> DEFINE d == [c EXCEPT !.types = Tail(c.types),
                                !.only = c.only \cup ({<<Head(c.types), n>> : n \in c.nums} \ LocalKeys(c))]
      <4>1. AfterList(c) = NextType(d)
        BY Zenon, <3>4 DEF AfterList
      <4>2. /\ DOMAIN d = DOMAIN NoCall /\ d.op = c.op /\ d.quiet = c.quiet /\ d.cut = c.cut /\ d.read = c.read
            /\ d.local = c.local /\ d.plcOnly = c.plcOnly /\ d.types = Tail(c.types)
            /\ d.only = c.only \cup ({<<Head(c.types), n>> : n \in c.nums} \ LocalKeys(c))
        BY Zenon, <3>1 DEF NoCall
      <4> HIDE DEF d
      <4>3. d.types \in Seq(STRING) /\ d.op \in Loops /\ c.types \in Seq(STRING)
        BY Zenon, <3>1, <3>4, <4>2, TailCases DEF Looping, Loops
      <4>4. Kept(d, NextType(d)) /\ (TypesAhead(d, b) => LoopRight(NextType(d), b))
        BY Zenon, <4>2, <4>3, <1>NextTypeRight
      <4>5. c.quiet /\ ~c.cut => TypesAhead(d, b)
        BY Zenon, <3>1, <3>4, <4>2, <4>3, <2>ListedForCompare DEF Complete, Loops
      <4> QED
        BY Zenon, <3>4, <4>1, <4>2, <4>3, <4>4, <4>5, <1>RightLoop DEF Kept
    <3> QED
      BY Zenon, <3>1, <3>2, <3>3, <3>4
  <2> QED
    BY Zenon, <2>AfterListRight
\* A call ends with nothing to hand out.
<1>EndsRight.
  ASSUME IInv, RInv, NEW t \in Tasks, NEW b, NEW im, Advance(t, NoCall, b, im)
  PROVE  RInv'
  <2> USE <1>EndsRight
  <2>1. Right(NoCall, b, im)
    BY Zenon, IdleCall, RightAnyway DEF Loops
  <2> QED
    BY Zenon, <2>1, <1>AdvancesRight
\* The block could not be read: compare_blocks has noted why.
<1>FailedRight.
  ASSUME IInv, RInv, NEW t \in Tasks, NEW missing \in BOOLEAN, call[t].at \in Exchanges, NEW b,
         Advance(t, Failed(call[t], missing), b, image),
         missing => b = blocks /\ call[t].at \in Uploading /\ blocks[call[t].key] = None
  PROVE  RInv'
  <2> USE <1>FailedRight
  <2> DEFINE c == call[t]
             d == [c EXCEPT !.cut = c.cut \/ ~missing]
  <2>1. Shape(c) /\ DOMAIN c = DOMAIN NoCall /\ Right(c, blocks, image)
    BY Zenon DEF IInv, RInv, CallOK, Shape
  <2>2. CASE c.op = "compare_blocks" /\ c.at \in Uploading
    <3>1. Failed(c, missing) = AfterBlock(d)
      BY Zenon, <2>2 DEF Failed, Uploading
    <3>2. /\ DOMAIN d = DOMAIN NoCall /\ d.op = c.op /\ d.quiet = c.quiet /\ d.cut = (c.cut \/ ~missing)
          /\ d.read = c.read /\ d.types = c.types /\ d.nums = c.nums /\ d.todo = c.todo /\ d.only = c.only
          /\ d.local = c.local /\ d.plcOnly = c.plcOnly
      BY Zenon, <2>1 DEF NoCall
    <3> HIDE DEF d, c
    <3>3. Between(d) /\ d.op \in Loops
      BY Zenon, <2>1, <2>2, <3>2 DEF Between, Shape, Looping, Uploaders, Loops
    <3>4. Kept(d, AfterBlock(d)) /\ (BlocksAhead(d, b) => LoopRight(AfterBlock(d), b))
      BY Zenon, <2>2, <3>2, <3>3, <1>AfterBlockRight
    <3>5. ASSUME d.quiet, ~d.cut PROVE BlocksAhead(d, b)
      <4>1. missing /\ c.quiet /\ ~c.cut /\ b = blocks /\ blocks[c.key] = None
        BY Zenon, <3>2, <3>5 DEF c
      <4>2. LoopRight(c, b)
        BY Zenon, <2>1, <2>2, <4>1 DEF Right, LoopsRight, Loops
      <4>3. ReadRight(c, b) /\ ComparesRight(c, b) /\ c.key \in Keys
        BY Zenon, <2>1, <2>2, <4>2 DEF LoopRight, ReadRight, Shape
      <4>4. c.read[c.key] = AsRead(c.key, b[c.key])
        <5>1. c.read[c.key] \in {None, AsRead(c.key, b[c.key])}
          BY ONLY Zenon, <4>3 DEF ReadRight
        <5>2. b[c.key] = None
          BY ONLY Zenon, <4>1
        <5>3. ~Misjudged(c.key, b[c.key])
          BY ONLY Zenon, <5>2 DEF Misjudged
        <5>4. AsRead(c.key, b[c.key]) = b[c.key]
          BY ONLY Zenon, <5>3 DEF AsRead
        <5> QED
          BY ONLY Zenon, <5>1, <5>2, <5>4
      <4>5. LocalKeys(d) = LocalKeys(c)
        BY ZenonT(30), <3>2 DEF LocalKeys
      <4>6. \A k \in LocalKeys(d) : d.read[k] = AsRead(k, b[k]) \/ k \in Named(d.todo)
        <5>1. \A k \in LocalKeys(c) : c.read[k] = AsRead(k, b[k]) \/ k \in Named(c.todo) \/ k = c.key
          BY Zenon, <4>3 DEF ComparesRight
        <5> QED
          BY Zenon, <3>2, <4>4, <4>5, <5>1
      <4>7. ReadRight(d, b) /\ OnlyRight(d, b)
        BY Zenon, <3>2, <4>3, <4>5 DEF ReadRight, OnlyRight, ComparesRight
      <4> QED
        BY Zenon, <2>2, <3>2, <4>6, <4>7 DEF BlocksAhead, LocalsAhead
    <3>6. Right(AfterBlock(d), b, image) /\ DOMAIN AfterBlock(d) = DOMAIN NoCall
      BY Zenon, <3>3, <3>4, <3>5, <1>RightLoop DEF Kept
    <3> QED
      BY Zenon, <3>1, <3>6, <1>AdvancesRight DEF c
  <2>3. CASE ~(c.op = "compare_blocks" /\ c.at \in Uploading)
    <3>1. Failed(c, missing) = NoCall
      BY Zenon, <2>3 DEF Failed, Uploading
    <3> QED
      BY Zenon, <3>1, <1>EndsRight
  <2> QED
    BY Zenon, <2>2, <2>3
\* An upload starts, and reads on.
<1>Reads. \A t \in Tasks : IInv /\ RInv /\ (UploadStart(t) \/ UploadData(t)) => RInv'
  \* A block is being read: what the loop knows does not change.
  <2>ReadsOn.
    ASSUME IInv, RInv, NEW t \in Tasks, call[t].at \in Uploading, NEW d, Go(t, d), DOMAIN d = DOMAIN NoCall,
           d.at \in Uploading, d.op = call[t].op, d.key = call[t].key, d.read = call[t].read,
           d.types = call[t].types, d.nums = call[t].nums, d.todo = call[t].todo, d.only = call[t].only,
           d.local = call[t].local, d.quiet = call[t].quiet, d.cut = call[t].cut
    PROVE  RInv'
    <3> USE <2>ReadsOn
    <3> DEFINE c == call[t]
    <3>1. Right(c, blocks, image) /\ c.op \in Uploaders
      BY Zenon DEF IInv, RInv, CallOK, Shape
    <3> HIDE DEF c
    <3>2. ASSUME c.op \in Loops, d.quiet, ~d.cut PROVE LoopRight(d, blocks)
      <4>1. LoopRight(c, blocks)
        BY Zenon, <3>1, <3>2 DEF c, Right, LoopsRight
      <4>2. d.op = "upload_all_blocks" => UploadsRight(d, blocks)
        BY Zenon, <4>1 DEF c, LoopRight, UploadsRight, Ahead, Uploading
      <4>3. d.op = "compare_blocks" => ComparesRight(d, blocks)
        <5> SUFFICES ASSUME d.op = "compare_blocks" PROVE ComparesRight(d, blocks)
          BY Zenon
        <5>1. ComparesRight(c, blocks)
          BY Zenon, <4>1 DEF c, LoopRight
        <5>2. LocalKeys(d) = LocalKeys(c)
          BY Zenon DEF c, LocalKeys
        <5>3. OnlyRight(d, blocks)
          BY Zenon, <5>1, <5>2 DEF c, ComparesRight, OnlyRight
        <5>4. d.at \notin {"page", "ok"}
          BY Zenon DEF Uploading
        <5> QED
          BY Zenon, <5>1, <5>2, <5>3, <5>4 DEF c, ComparesRight
      <4> QED
        BY Zenon, <4>1, <4>2, <4>3 DEF c, LoopRight, Uploading
    <3>3. Right(d, blocks, image)
      BY <3>1, <3>2, <1>RightLoop, RightAnyway DEF c, Loops, Uploaders
    <3> QED
      BY Zenon, <3>3, <1>AdvancesRight DEF Go
  \* The upload of a block begins.
  <2>UploadStartRight. ASSUME IInv, RInv, NEW t \in Tasks, UploadStart(t) PROVE RInv'
    <3> USE <2>UploadStartRight
    <3> DEFINE c == call[t]
    <3>1. c.at = "up_start" /\ c.at \in Exchanges /\ DOMAIN c = DOMAIN NoCall
      BY Zenon, AtStage DEF UploadStart, Exchanges
    <3>2. CASE blocks[c.key] = None
      BY Zenon, <3>1, <3>2, <1>FailedRight DEF UploadStart, Go, Uploading
    <3>3. CASE blocks[c.key] # None /\ c.op \in Reads1F /\ fn1F = "delete"
      <4> DEFINE b == [blocks EXCEPT ![c.key] = None]
      <4>1. Advance(t, Failed(c, FALSE), b, image) \/ Advance(t, NoCall, b, image)
        BY Zenon, <3>3 DEF UploadStart
      <4> QED
        BY Zenon, <3>1, <4>1, <1>FailedRight, <1>EndsRight
    <3>4. CASE blocks[c.key] # None /\ ~(c.op \in Reads1F /\ fn1F = "delete")
      <4> DEFINE d == [c EXCEPT !.at = "up_data"]
      <4>1. Go(t, Failed(c, FALSE)) \/ Go(t, Panicked) \/ Go(t, d)
        BY Zenon, <3>4 DEF UploadStart, Started
      <4>2. /\ DOMAIN d = DOMAIN NoCall /\ d.at \in Uploading /\ d.op = c.op /\ d.key = c.key /\ d.read = c.read
            /\ d.types = c.types /\ d.nums = c.nums /\ d.todo = c.todo /\ d.only = c.only /\ d.local = c.local
            /\ d.quiet = c.quiet /\ d.cut = c.cut /\ c.at \in Uploading
        BY Zenon, <3>1 DEF NoCall, Uploading
      <4> HIDE DEF d
      <4>3. CASE Go(t, Failed(c, FALSE))
        BY Zenon, <3>1, <4>3, <1>FailedRight DEF Go
      <4>4. CASE Go(t, Panicked)
        <5>1. Right(Panicked, blocks, image) /\ Advance(t, Panicked, blocks, image)
          BY Zenon, <4>4, PanickedCall, RightAnyway DEF Loops, Go
        <5>2. DOMAIN Panicked = DOMAIN NoCall
          BY Zenon, PanickedCall DEF CallOK, Shape
        <5> QED
          BY Zenon, <5>1, <5>2, <1>AdvancesRight
      <4>5. CASE Go(t, d)
        BY Zenon, <4>2, <4>5, <2>ReadsOn
      <4> QED
        BY Zenon, <4>1, <4>3, <4>4, <4>5
    <3> QED
      BY Zenon, <3>2, <3>3, <3>4
  \* A chunk arrives.
  <2>UploadDataRight. ASSUME IInv, RInv, NEW t \in Tasks, UploadData(t) PROVE RInv'
    <3> USE <2>UploadDataRight
    <3> DEFINE c == call[t]
               chunk == Stripped(DataReply(c.key, blocks[c.key], c.off), c.data)
               d == [c EXCEPT !.data = c.data \o chunk, !.off = ChunkEnd(blocks[c.key], c.off)]
               e == [c EXCEPT !.at = "up_end"]
               f == [d EXCEPT !.at = "up_end"]
    <3>1. c.at = "up_data" /\ c.at \in Exchanges /\ DOMAIN c = DOMAIN NoCall /\ c.at \in Uploading
      BY Zenon, AtStage DEF UploadData, Exchanges, Uploading
    <3>2. Go(t, e) \/ Go(t, f) \/ Go(t, Failed(c, FALSE)) \/ Go(t, d)
      BY Zenon DEF UploadData
    <3>3. /\ DOMAIN d = DOMAIN NoCall /\ d.at \in Uploading /\ d.op = c.op /\ d.key = c.key /\ d.read = c.read
          /\ d.types = c.types /\ d.nums = c.nums /\ d.todo = c.todo /\ d.only = c.only /\ d.local = c.local
          /\ d.quiet = c.quiet /\ d.cut = c.cut
      BY Zenon, <3>1 DEF NoCall
    <3>4. /\ DOMAIN e = DOMAIN NoCall /\ e.at \in Uploading /\ e.op = c.op /\ e.key = c.key /\ e.read = c.read
          /\ e.types = c.types /\ e.nums = c.nums /\ e.todo = c.todo /\ e.only = c.only /\ e.local = c.local
          /\ e.quiet = c.quiet /\ e.cut = c.cut
      BY Zenon, <3>1 DEF NoCall, Uploading
    <3> HIDE DEF d
    <3>5. /\ DOMAIN f = DOMAIN NoCall /\ f.at \in Uploading /\ f.op = c.op /\ f.key = c.key /\ f.read = c.read
          /\ f.types = c.types /\ f.nums = c.nums /\ f.todo = c.todo /\ f.only = c.only /\ f.local = c.local
          /\ f.quiet = c.quiet /\ f.cut = c.cut
      BY Zenon, <3>3 DEF NoCall, Uploading
    <3> HIDE DEF e, f
    <3>6. CASE Go(t, e)
      BY Zenon, <3>1, <3>4, <3>6, <2>ReadsOn
    <3>7. CASE Go(t, f)
      BY Zenon, <3>1, <3>5, <3>7, <2>ReadsOn
    <3>8. CASE Go(t, d)
      BY Zenon, <3>1, <3>3, <3>8, <2>ReadsOn
    <3>9. CASE Go(t, Failed(c, FALSE))
      BY Zenon, <3>1, <3>9, <1>FailedRight DEF Go
    <3> QED
      BY Zenon, <3>2, <3>6, <3>7, <3>8, <3>9
  <2> QED
    BY Zenon, <2>UploadStartRight, <2>UploadDataRight
\* A block has been read.
<1>UploadEndRight. ASSUME IInv, RInv, NEW t \in Tasks, UploadEnd(t) PROVE RInv'
  <2> USE <1>UploadEndRight
  <2> DEFINE c == call[t]
             d == [c EXCEPT !.read = [c.read EXCEPT ![c.key] = c.data]]
             f == AfterBlock(d)
  <2>1. /\ c.at = "up_end" /\ DOMAIN c = DOMAIN NoCall /\ Shape(c) /\ Right(c, blocks, image)
        /\ c.key \in Keys /\ c.data = AsRead(c.key, blocks[c.key]) /\ c.op \in Uploaders
    BY Zenon, AtStage DEF UploadEnd, Exchanges, CallOK, Shape, Got, Uploading, RInv
  <2>2. Advance(t, f, blocks, image)
    BY Zenon DEF UploadEnd, Go
  <2>3. /\ DOMAIN d = DOMAIN NoCall /\ d.op = c.op /\ d.quiet = c.quiet /\ d.cut = c.cut
        /\ d.read = [c.read EXCEPT ![c.key] = c.data] /\ d.types = c.types /\ d.nums = c.nums /\ d.todo = c.todo
        /\ d.only = c.only /\ d.local = c.local
    BY Zenon, <2>1 DEF NoCall
  <2> HIDE DEF d, c
  <2>4. Between(d) /\ (d.op = "upload_all_blocks" => d.types # <<>>)
    BY Zenon, <2>1, <2>3 DEF Between, Shape, Looping, Uploading
  <2>5. CASE c.op \in Loops
    <3>1. Kept(d, f) /\ (BlocksAhead(d, blocks) => LoopRight(f, blocks))
      BY Zenon, <2>3, <2>4, <2>5, <1>AfterBlockRight
    <3> HIDE DEF f
    <3>2. ASSUME c.quiet, ~c.cut PROVE BlocksAhead(d, blocks)
      <4>1. LoopRight(c, blocks)
        BY Zenon, <2>1, <2>5, <3>2 DEF Right, LoopsRight
      <4>2. ReadRight(c, blocks)
        BY Zenon, <4>1 DEF LoopRight, ReadRight
      <4>3. \A k \in Keys : d.read[k] = IF k = c.key THEN AsRead(k, blocks[k]) ELSE c.read[k]
        BY Zenon, <2>1, <2>3, <4>2 DEF ReadRight
      <4>4. ReadRight(d, blocks)
        BY Zenon, <2>3, <4>2, <4>3 DEF ReadRight
      <4>5. ASSUME d.op = "upload_all_blocks" PROVE NumbersAhead(d, blocks)
        <5>1. UploadsRight(c, blocks)
          BY Zenon, <2>3, <4>1, <4>5 DEF LoopRight
        <5>2. \A k \in Keys : Ahead(c, k) => Ahead(d, k)
          BY Zenon, <2>3 DEF Ahead
        <5> QED
          BY Zenon, <2>1, <4>3, <4>4, <5>1, <5>2 DEF UploadsRight, NumbersAhead, Present
      <4>6. ASSUME d.op = "compare_blocks" PROVE LocalsAhead(d, blocks)
        <5>1. ComparesRight(c, blocks) /\ LocalKeys(d) = LocalKeys(c)
          BY <2>3, <4>1, <4>6 DEF LoopRight, LocalKeys
        <5>2. OnlyRight(d, blocks)
          BY Zenon, <2>3, <5>1 DEF ComparesRight, OnlyRight
        <5>3. ASSUME NEW k \in LocalKeys(c) PROVE d.read[k] = AsRead(k, blocks[k]) \/ k \in Named(d.todo)
          <6>1. c.read[k] = AsRead(k, blocks[k]) \/ k \in Named(c.todo) \/ k = c.key
            BY Zenon, <5>1 DEF ComparesRight
          <6>2. CASE k = c.key
            BY Zenon, <2>1, <4>3, <6>2
          <6>3. CASE k # c.key
            BY <2>3, <6>1, <6>3
          <6> QED
            BY Zenon, <6>2, <6>3
        <5> QED
          BY Zenon, <4>4, <5>1, <5>2, <5>3 DEF LocalsAhead
      <4> QED
        BY Zenon, <4>5, <4>6 DEF BlocksAhead
    <3>3. Right(f, blocks, image) /\ DOMAIN f = DOMAIN NoCall
      BY Zenon, <2>3, <2>5, <3>1, <3>2, <1>RightLoop DEF Kept
    <3> QED
      BY Zenon, <2>2, <3>3, <1>AdvancesRight
  <2>6. CASE c.op \notin Loops
    <3>1. Next1(d, f)
      BY Zenon, <2>4, AfterBlockOK
    <3> HIDE DEF f
    <3>2. f.op = c.op /\ DOMAIN f = DOMAIN NoCall
      BY Zenon, <2>3, <3>1 DEF Next1, Shape
    <3>3. Right(f, blocks, image)
      BY Zenon, <2>1, <2>6, <3>2, RightAnyway DEF Uploaders
    <3> QED
      BY Zenon, <2>2, <3>2, <3>3, <1>AdvancesRight
  <2> QED
    BY Zenon, <2>5, <2>6
\* A list goes on.
<1>Lists. \A t \in Tasks : IInv /\ RInv /\ ListPage(t) => RInv'
  \* One more page of a list of a type: the numbers of K up to its end have been listed, and
  \* all of them when there is no more.
  <2>PagedOn.
    ASSUME NEW c, DOMAIN c = DOMAIN NoCall, NEW K \in SUBSET Present(blocks), Paged(c, K),
           NEW last
    PROVE  /\ Left(c) = {} => NumbersOf(Head(c.types), K) \subseteq c.nums
           /\ last \in Left(c) => Paged(Listed(c, last), K)
           /\ Left(c) = Page(c, last) => NumbersOf(Head(c.types), K) \subseteq Listed(c, last).nums
    <3> USE <2>PagedOn
    <3> DEFINE T == Head(c.types)
               N == NumbersOf(T, Present(blocks))
               L == Left(c)
               M == NumbersOf(T, K)
               d == Listed(c, last)
    <3>1. Present(blocks) \in SUBSET Keys /\ K \in SUBSET Keys
      BY Zenon DEF Present
    <3>2. N \in SUBSET Nat /\ M \subseteq N
      <4>1. N \in SUBSET Nat
        BY Zenon, <3>1, <1>NumbersOfKeys
      <4>2. M \subseteq N
        BY Zenon DEF NumbersOf
      <4> QED
        BY Zenon, <4>1, <4>2
    <3>3. L = {n \in N : n >= c.cur} /\ Page(c, last) = {n \in L : n <= last}
      BY Zenon DEF Left, Page
    <3>4. d.nums = c.nums \cup Page(c, last) /\ d.cur = last + 1 /\ d.types = c.types
      BY Zenon DEF Listed, NoCall
    <3>5. c.cur \in Nat /\ \A n \in M : n < c.cur => n \in c.nums
      BY Zenon DEF Paged
    <3> HIDE DEF N, L, M, d
    <3>6. \A n \in M : n \in c.nums \/ n \in L
      <4> SUFFICES ASSUME NEW n \in M PROVE n \in c.nums \/ n \in L
        BY Zenon
      <4>1. n \in N /\ n \in Nat
        BY Zenon, <3>2
      <4>2. n < c.cur \/ n >= c.cur
        BY <3>5, <4>1
      <4> QED
        BY Zenon, <3>3, <3>5, <4>1, <4>2
    <3>7. ASSUME last \in L PROVE Paged(d, K)
      <4>1. last \in Nat
        BY Zenon, <3>2, <3>3, <3>7
      <4>2. ASSUME NEW n \in M, n < d.cur PROVE n \in d.nums
        <5>1. n \in Nat
          BY Zenon, <3>2
        <5>2. n <= last
          BY <3>4, <4>1, <4>2, <5>1
        <5> QED
          BY Zenon, <3>3, <3>4, <3>6, <5>2
      <4> QED
        BY <3>4, <4>1, <4>2 DEF Paged, M
    <3> QED
      BY Zenon, <3>4, <3>6, <3>7 DEF L, M, d
  \* A call that lists goes on listing.
  <2>ListShape.
    ASSUME NEW c, NEW d, Shape(c), c.at = "page", Looping(d), DOMAIN d = DOMAIN NoCall, d.at = c.at, d.op = c.op,
           d.types = c.types, d.data = c.data, d.off = c.off, d.read = c.read
    PROVE  Shape(d)
    <3> USE <2>ListShape
    <3>1. /\ c.op \in {"list_blocks", "upload_all_blocks", "compare_blocks"} /\ c.types # <<>>
          /\ c.data = <<>> /\ c.off = 0 /\ (c.op \notin Uploaders => c.read = NothingRead)
      BY Zenon DEF Shape
    <3> QED
      BY Zenon, <3>1 DEF Shape, Uploaders, Downloaders, Uploading, Downloading, Exchanges
  \* A page of a list arrives, or an error that is taken for its end.
  <2>ListPageRight. ASSUME IInv, RInv, NEW t \in Tasks, ListPage(t) PROVE RInv'
    <3> USE <2>ListPageRight
    <3> DEFINE c == call[t]
               e == [c EXCEPT !.cut = TRUE]
               L == Left(c)
               T == Head(c.types)
    <3>1. c.at = "page" /\ DOMAIN c = DOMAIN NoCall /\ Shape(c) /\ Right(c, blocks, image)
      BY Zenon, AtStage DEF ListPage, Exchanges, CallOK, RInv
    <3>2. PICK last :
            \/ L = {} /\ Go(t, AfterList(c))
            \/ Go(t, AfterList(e))
            \/ last \in L /\ L = Page(c, last) /\ Go(t, AfterList(Listed(c, last)))
            \/ last \in L /\ Go(t, Listed(c, last))
      BY Zenon DEF ListPage
    <3> DEFINE d == Listed(c, last)
    <3>3. /\ DOMAIN e = DOMAIN NoCall /\ e.at = c.at /\ e.op = c.op /\ e.types = c.types /\ e.todo = c.todo
          /\ e.read = c.read /\ e.data = c.data /\ e.off = c.off /\ e.nums = c.nums /\ e.cut = TRUE /\ e.ever = c.ever
      BY Zenon, <3>1 DEF NoCall
    <3>4. /\ DOMAIN d = DOMAIN NoCall /\ d.at = c.at /\ d.op = c.op /\ d.types = c.types /\ d.todo = c.todo
          /\ d.read = c.read /\ d.data = c.data /\ d.off = c.off /\ d.nums = c.nums \cup Page(c, last)
          /\ d.quiet = c.quiet /\ d.cut = c.cut /\ d.only = c.only /\ d.local = c.local /\ d.plcOnly = c.plcOnly
          /\ d.ever = c.ever /\ d.always = c.always
      BY Zenon, <3>1 DEF NoCall, Listed
    <3>5. Page(c, last) \subseteq L /\ L \subseteq NumbersOf(T, Present(blocks))
      BY Zenon DEF Page, Left
    <3>6. c.op \in {"list_blocks"} \cup Loops
      BY Zenon, <3>1 DEF Shape, Loops
    <3>7. ASSUME c.op = "list_blocks"
          PROVE  /\ c.always \subseteq Present(blocks) /\ Present(blocks) \subseteq c.ever /\ Paged(c, c.always)
                 /\ c.nums \subseteq NumbersOf(T, c.ever)
      BY Zenon, <3>1, <3>7 DEF Right, ListsRight
    <3>8. ASSUME c.op \in Loops, c.quiet, ~c.cut
          PROVE  LoopRight(c, blocks) /\ Paged(c, Present(blocks)) /\ c.nums \subseteq NumbersOf(T, Present(blocks))
      BY Zenon, <3>1, <3>8 DEF Right, LoopsRight, LoopRight
    <3>9. Shape(d) /\ Shape(e)
      <4>1. Looping(c) /\ c.types # <<>>
        BY Zenon, <3>1 DEF Shape
      <4>2. \A n \in d.nums : n \in Nat /\ <<T, n>> \in Keys
        BY Zenon, <3>4, <3>5, <4>1, LeftAreKeys DEF Looping
      <4> HIDE DEF c, d, e
      <4>3. Looping(d) /\ Looping(e)
        BY Zenon, <3>3, <3>4, <4>1, <4>2 DEF Looping
      <4>4. Shape(d)
        BY Zenon, <3>1, <3>4, <4>3, <2>ListShape
      <4>5. Shape(e)
        BY Zenon, <3>1, <3>3, <4>3, <2>ListShape
      <4> QED
        BY Zenon, <4>4, <4>5
    <3>10. ASSUME NEW K \in SUBSET Present(blocks), Paged(c, K)
           PROVE  /\ L = {} => NumbersOf(T, K) \subseteq c.nums
                  /\ last \in L => Paged(d, K)
                  /\ L = Page(c, last) => NumbersOf(T, K) \subseteq d.nums
      BY Zenon, <3>1, <3>10, <2>PagedOn
    <3> HIDE DEF c, d, e, L
    <3>11. c.op = "list_blocks" => d.nums \subseteq NumbersOf(T, c.ever)
      <4> SUFFICES ASSUME c.op = "list_blocks" PROVE d.nums \subseteq NumbersOf(T, c.ever)
        BY Zenon
      <4>1. NumbersOf(T, Present(blocks)) \subseteq NumbersOf(T, c.ever)
        BY Zenon, <3>7 DEF NumbersOf
      <4> QED
        BY Zenon, <3>4, <3>5, <3>7, <4>1
    <3>12. ASSUME c.op \in Loops, c.quiet, ~c.cut, last \in L PROVE LoopRight(d, blocks)
      <4>1. LoopRight(c, blocks) /\ Paged(d, Present(blocks)) /\ d.nums \subseteq NumbersOf(T, Present(blocks))
        BY Zenon, <3>4, <3>5, <3>8, <3>10, <3>12
      <4>2. d.op = "upload_all_blocks" => UploadsRight(d, blocks)
        <5>1. \A k \in Keys : Ahead(c, k) => Ahead(d, k)
          BY Zenon, <3>4 DEF Ahead
        <5> QED
          <6> SUFFICES ASSUME d.op = "upload_all_blocks" PROVE UploadsRight(d, blocks)
            BY Zenon
          <6>1. UploadsRight(c, blocks)
            BY Zenon, <3>4, <4>1 DEF LoopRight
          <6>2. \A k \in Present(blocks) \cap Wanted : k \in Keys
            BY Zenon DEF Present
          <6> QED
            BY Zenon, <3>1, <3>4, <5>1, <6>1, <6>2 DEF UploadsRight, Uploading
      <4>3. d.op = "compare_blocks" => ComparesRight(d, blocks)
        <5>1. LocalKeys(d) = LocalKeys(c)
          BY Zenon, <3>4 DEF LocalKeys
        <5>2. OnlyRight(c, blocks) => OnlyRight(d, blocks)
          BY Zenon, <3>4, <5>1 DEF OnlyRight
        <5> QED
          BY Zenon, <3>1, <3>4, <4>1, <5>1, <5>2 DEF LoopRight, ComparesRight, Uploading
      <4> QED
        BY Zenon, <3>4, <4>1, <4>2, <4>3 DEF LoopRight
    <3>13. CASE L = {} /\ Go(t, AfterList(c))
      <4>1. Complete(c, blocks)
        BY Zenon, <3>7, <3>8, <3>10, <3>13 DEF Complete
      <4>2. Right(AfterList(c), blocks, image) /\ Next1(c, AfterList(c))
        BY Zenon, <3>1, <4>1, <1>AfterListRight, AfterListOK
      <4>3. DOMAIN AfterList(c) = DOMAIN NoCall
        BY Zenon, <4>2 DEF Next1, Shape
      <4> QED
        BY Zenon, <3>13, <4>2, <4>3, <1>AdvancesRight DEF Go
    <3>14. CASE Go(t, AfterList(e))
      <4>1. Complete(e, blocks)
        BY Zenon, <3>3, <3>7 DEF Complete
      <4>2. Right(AfterList(e), blocks, image) /\ Next1(e, AfterList(e))
        BY Zenon, <3>1, <3>3, <3>9, <4>1, <1>AfterListRight, AfterListOK
      <4>3. DOMAIN AfterList(e) = DOMAIN NoCall
        BY Zenon, <4>2 DEF Next1, Shape
      <4> QED
        BY Zenon, <3>14, <4>2, <4>3, <1>AdvancesRight DEF Go
    <3>15. CASE last \in L /\ L = Page(c, last) /\ Go(t, AfterList(d))
      <4>1. c.op = "list_blocks" => NumbersOf(T, c.always) \subseteq d.nums
        BY Zenon, <3>7, <3>10, <3>15
      <4>2. c.op \in Loops /\ c.quiet /\ ~c.cut => LoopRight(d, blocks) /\ NumbersOf(T, Present(blocks)) \subseteq d.nums
        BY Zenon, <3>8, <3>10, <3>12, <3>15
      <4>3. Complete(d, blocks)
        BY Zenon, <3>4, <3>11, <4>1, <4>2 DEF Complete
      <4>4. Right(AfterList(d), blocks, image) /\ Next1(d, AfterList(d))
        BY Zenon, <3>1, <3>4, <3>9, <4>3, <1>AfterListRight, AfterListOK
      <4>5. DOMAIN AfterList(d) = DOMAIN NoCall
        BY Zenon, <4>4 DEF Next1, Shape
      <4> QED
        BY Zenon, <3>15, <4>4, <4>5, <1>AdvancesRight DEF Go
    <3>16. CASE last \in L /\ Go(t, d)
      <4>1. c.op = "list_blocks" => Paged(d, c.always)
        BY Zenon, <3>7, <3>10, <3>16
      <4>2. ListsRight(d, blocks)
        BY Zenon, <3>1, <3>4, <3>7, <3>11, <4>1 DEF ListsRight
      <4>3. LoopsRight(d, blocks)
        BY Zenon, <3>4, <3>12, <3>16 DEF LoopsRight
      <4>4. Right(d, blocks, image)
        BY Zenon, <3>4, <3>6, <4>2, <4>3 DEF Right, FillsRight, ForcesRight, Loops
      <4> QED
        BY Zenon, <3>4, <3>16, <4>4, <1>AdvancesRight DEF Go
    <3> QED
      BY Zenon, <3>2, <3>13, <3>14, <3>15, <3>16 DEF d
  <2> QED
    BY Zenon, <2>ListPageRight
\* The block to be filled has a size, and nothing is filled yet.
<1>FillInfoRight. ASSUME IInv, RInv, NEW t \in Tasks, FillInfo(t) PROVE RInv'
  <2> USE <1>FillInfoRight
  <2> DEFINE c == call[t]
             n == Len(blocks[c.key])
             s == [i \in 1..n |-> c.data[1]]
             d == [c EXCEPT !.at = "fill", !.data = s]
  <2>1. /\ c.at = "info" /\ DOMAIN c = DOMAIN NoCall /\ c.op = "db_fill" /\ c.key \in Keys
        /\ blocks \in Memory /\ (c.quiet => c.off = 0)
    BY Zenon, AtStage DEF FillInfo, Exchanges, CallOK, Shape, RInv, Right, FillsRight
  <2>2. CASE blocks[c.key] \in {None, <<>>}
    BY Zenon, <2>2, <1>EndsRight DEF FillInfo, Go
  <2>3. CASE blocks[c.key] \notin {None, <<>>}
    <3>1. Go(t, d)
      BY Zenon, <2>3 DEF FillInfo
    <3>2. blocks[c.key] \in Seq(Bytes) /\ blocks[c.key] # <<>>
      BY Zenon, <2>1, <2>3 DEF Memory
    <3>3. n \in Nat /\ 0 < n
      BY <3>2
    <3>4. /\ DOMAIN d = DOMAIN NoCall /\ d.op = c.op /\ d.at = "fill" /\ d.key = c.key /\ d.off = c.off /\ d.data = s
          /\ d.quiet = c.quiet
      BY Zenon, <2>1 DEF NoCall
    <3>5. Len(s) = n /\ s[1] = c.data[1] /\ \A i \in 1..Len(s) : s[i] = s[1]
      BY <3>3
    <3> HIDE DEF d, s
    <3>6. FillsRight(d, blocks)
      BY <2>1, <2>3, <3>3, <3>4, <3>5 DEF FillsRight
    <3>7. Right(d, blocks, image)
      BY Zenon, <2>1, <3>4, <3>6 DEF Right, ListsRight, LoopsRight, ForcesRight, Loops
    <3> QED
      BY Zenon, <3>1, <3>4, <3>7, <1>AdvancesRight DEF Go
  <2> QED
    BY Zenon, <2>2, <2>3
\* A block is filled.
<1>Fills. \A t \in Tasks : IInv /\ RInv /\ FillWrite(t) => RInv'
  \* Then it is filled up to e.
  <2>FilledOn.
    ASSUME NEW v, NEW old, NEW data, NEW off, NEW e, FillsOn(v, old, data, off, e)
    PROVE  FilledTo(v, Len(data), e, Filled(old, data, off, e))
    <3> USE <2>FilledOn
    <3> DEFINE new == Filled(old, data, off, e)
    <3>0. /\ old \in Seq(Bytes) /\ data \in Seq(Bytes) /\ off \in Nat /\ e \in Nat
          /\ Len(old) = Len(data) /\ off <= e /\ e <= Len(data)
          /\ \A i \in 1..off : old[i] = v
          /\ \A i \in 1..Len(data) : data[i] = v
      BY Zenon DEF FillsOn
    <3>1. DOMAIN old = 1..Len(data) /\ Len(data) \in Nat
      BY <3>0
    <3>2. DOMAIN new = 1..Len(data) /\ \A i \in 1..Len(data) : new[i] = IF i \in (off + 1)..e THEN data[i] ELSE old[i]
      BY Zenon, <3>1 DEF Filled
    <3>3. new \in Seq(Bytes)
      BY Zenon, <3>0, FilledBytes
    <3> HIDE DEF new
    <3>4. Len(new) = Len(data)
      BY <3>1, <3>2, <3>3
    <3>5. ASSUME NEW i \in 1..e PROVE new[i] = v
      <4>1. i \in 1..Len(data) /\ (i \in (off + 1)..e \/ i \in 1..off)
        BY <3>0, <3>1
      <4> QED
        BY Zenon, <3>0, <3>2, <4>1
    <3> QED
      BY Zenon, <3>2, <3>3, <3>4, <3>5 DEF FilledTo, new
  \* One chunk is filled.
  <2>FillWriteRight. ASSUME IInv, RInv, NEW t \in Tasks, FillWrite(t) PROVE RInv'
    <3> USE <2>FillWriteRight
    <3> DEFINE c == call[t]
               size == Len(c.data)
               e == FillTo(c.off, size)
               f == [c EXCEPT !.off = e]
               d == IF c.off + FillChunk < size THEN f ELSE Returned(f)
               old == blocks[c.key]
               new == Filled(old, c.data, c.off, e)
               b == [blocks EXCEPT ![c.key] = new]
    <3>1. /\ c.at = "fill" /\ DOMAIN c = DOMAIN NoCall /\ c.op = "db_fill" /\ c.key \in Keys /\ c.off \in Nat
          /\ c.data \in Seq(Bytes) /\ blocks \in Memory /\ Right(c, blocks, image)
      BY Zenon, AtStage DEF FillWrite, Exchanges, CallOK, Shape, RInv
    <3>2. CASE old = None \/ Len(old) < e
      BY Zenon, <3>2, <1>EndsRight DEF FillWrite, Go
    <3>3. CASE ~(old = None \/ Len(old) < e)
      <4>1. Advance(t, d, b, image) \/ Advance(t, NoCall, b, image)
        BY Zenon, <3>3 DEF FillWrite, Done
      <4>2. /\ DOMAIN f = DOMAIN NoCall /\ f.op = c.op /\ f.at = "fill" /\ f.key = c.key /\ f.off = e
            /\ f.data = c.data /\ f.quiet = c.quiet
        BY Zenon, <3>1 DEF NoCall
      <4> HIDE DEF f
      <4>3. /\ DOMAIN d = DOMAIN NoCall /\ d.op = c.op /\ d.key = c.key /\ d.off = e /\ d.data = c.data
            /\ d.quiet = c.quiet /\ d.at = IF c.off + FillChunk < size THEN "fill" ELSE "ok"
        <5>1. Returned(f) = [f EXCEPT !.at = "ok"]
          BY Zenon, <3>1, <4>2 DEF Returned, Piecewise
        <5> QED
          BY Zenon, <4>2, <5>1 DEF NoCall
      <4>4. b[c.key] = new
        BY Zenon, <3>1 DEF Memory
      <4>5. old \in Seq(Bytes)
        BY Zenon, <3>1, <3>3 DEF Memory
      <4> HIDE DEF d, c, b, new, old
      <4>6. PICK o, n : o = c.off /\ n = Len(c.data)
        BY Zenon
      <4>7. o \in Nat /\ n \in Nat /\ FillChunk \in Nat \ {0}
        BY <3>1, <4>6, BlockConstants
      <4>8. e = IF o + FillChunk <= n THEN o + FillChunk ELSE n
        <5>1. o + FillChunk \in Nat
          BY <4>7
        <5> QED
          BY Zenon, <4>6, <4>7, <5>1, LesserOf DEF FillTo
      <4>9. d.at = IF o + FillChunk < n THEN "fill" ELSE "ok"
        BY Zenon, <4>3, <4>6
      <4> HIDE DEF e
      <4>10. e \in Nat /\ e <= n /\ (o + FillChunk < n => e < n) /\ (~(o + FillChunk < n) => e = n)
             /\ (o < n => o <= e)
        BY ONLY <4>7, <4>8
      <4>11. ASSUME c.quiet PROVE FillsRight(d, b)
        <5>1. /\ \A i \in 1..Len(c.data) : c.data[i] = c.data[1]
              /\ old # None /\ Len(old) = Len(c.data) /\ c.off < Len(c.data)
              /\ \A i \in 1..c.off : old[i] = c.data[1]
          BY Zenon, <3>1, <4>11 DEF Right, FillsRight, old
        <5>2. o <= e
          BY Zenon, <4>6, <4>10, <5>1
        <5>3. /\ DOMAIN new = 1..n /\ \A i \in 1..e : new[i] = c.data[1]
              /\ Len(new) = n /\ new \in Seq(Bytes)
          <6>1. new = Filled(old, c.data, o, e) /\ Len(old) = Len(c.data) /\ e <= Len(c.data)
                /\ \A i \in 1..o : old[i] = c.data[1]
            BY Zenon, <4>6, <4>10, <5>1 DEF new
          <6>2. PICK v : v = c.data[1]
            BY Zenon
          <6>3. (\A i \in 1..o : old[i] = v) /\ \A i \in 1..Len(c.data) : c.data[i] = v
            BY Zenon, <5>1, <6>1, <6>2
          <6>4. FillsOn(v, old, c.data, o, e)
            BY Zenon, <3>1, <4>5, <4>7, <4>10, <5>2, <6>1, <6>3 DEF FillsOn
          <6>5. FilledTo(v, Len(c.data), e, new)
            BY Zenon, <6>1, <6>4, <2>FilledOn
          <6> QED
            BY Zenon, <4>6, <6>2, <6>5 DEF FilledTo
        <5>4. new # None
          BY Zenon, <5>3, BlockConstants
        <5>5. CASE o + FillChunk < n
          BY ZenonT(30), <4>3, <4>4, <4>6, <4>9, <4>10, <5>1, <5>3, <5>4, <5>5 DEF FillsRight
        <5>6. CASE ~(o + FillChunk < n)
          <6>1. new = [i \in DOMAIN new |-> c.data[1]]
            BY <4>10, <5>3, <5>6
          <6> QED
            BY Zenon, <4>3, <4>4, <4>9, <5>6, <6>1 DEF FillsRight
        <5> QED
          BY Zenon, <5>5, <5>6
      <4>12. Right(d, b, image)
        BY Zenon, <3>1, <4>3, <4>11 DEF Right, ListsRight, LoopsRight, FillsRight, ForcesRight, Loops
      <4> QED
        BY Zenon, <4>1, <4>3, <4>12, <1>AdvancesRight, <1>EndsRight
    <3> QED
      BY Zenon, <3>2, <3>3
  <2> QED
    BY <2>FillWriteRight
\* download says nothing before it has ended.
<1>DownloadDataRight. ASSUME IInv, RInv, NEW t \in Tasks, DownloadData(t) PROVE RInv'
  <2> USE <1>DownloadDataRight
  <2> DEFINE c == call[t]
             e == ChunkEnd(c.data, c.off)
             a == IF e < Len(c.data) THEN "down_data" ELSE "down_end"
             d == [c EXCEPT !.buf = c.buf \o ChunkTo(c.data, c.off), !.off = e, !.at = a]
  <2>1. c.at \in {"down_start", "down_data"} /\ DOMAIN c = DOMAIN NoCall /\ CallOK(c, blocks, image)
    BY Zenon, AtStage DEF DownloadData, Exchanges
  <2>2. c.op \in Downloaders
    BY Zenon, <2>1 DEF CallOK, Shape, Downloading
  <2>3. Go(t, d)
    BY Zenon DEF DownloadData, ChunkEnd
  <2>4. DOMAIN d = DOMAIN NoCall /\ d.op = c.op
    BY Zenon, <2>1 DEF NoCall
  <2> HIDE DEF c, d
  <2>5. Right(d, blocks, image)
    BY Zenon, <2>2, <2>4, RightAnyway DEF Downloaders, Loops
  <2> QED
    BY Zenon, <2>3, <2>4, <2>5, <1>AdvancesRight DEF Go
\* What is over says nothing.
<1>JobsRight.
  ASSUME IInv, RInv, NEW t \in Tasks, DownloadEnd(t) \/ DeleteBlock(t) \/ Reset(t) \/ Control(t)
  PROVE  RInv'
  <2> USE <1>JobsRight
  <2> DEFINE c == call[t]
  <2>1. c.op \in Downloaders \cup {"delete_block"} => Returned(c) = NoCall
    BY Zenon DEF Returned, Downloaders, Piecewise
  <2>2. \E b, im : Advance(t, NoCall, b, im)
    <3>1. CASE DownloadEnd(t)
      <4>1. c.at = "down_end" /\ CallOK(c, blocks, image)
        BY Zenon, <3>1, AtStage DEF DownloadEnd, Exchanges
      <4>2. c.op \in Downloaders
        BY Zenon, <4>1 DEF CallOK, Shape, Downloading
      <4> QED
        BY Zenon, <2>1, <3>1, <4>2 DEF DownloadEnd, Done
    <3>2. CASE DeleteBlock(t)
      BY Zenon, <2>1, <3>2 DEF DeleteBlock, Done, Go
    <3>3. CASE Reset(t)
      BY Zenon, <3>3 DEF Reset, Done
    <3>4. CASE Control(t)
      BY Zenon, <3>4 DEF Control, Go
    <3> QED
      BY Zenon, <3>1, <3>2, <3>3, <3>4
  <2> QED
    BY Zenon, <2>2, <1>EndsRight
\* The byte that is read is not yet written.
<1>ByteReadRight. ASSUME IInv, RInv, NEW t \in Tasks, ByteRead(t) PROVE RInv'
  <2> USE <1>ByteReadRight
  <2> DEFINE c == call[t]
             d == [c EXCEPT !.at = "byte_write", !.data = <<image[WireByte(c.key[1])]>>]
  <2>1. c.at = "byte_read" /\ DOMAIN c = DOMAIN NoCall /\ CallOK(c, blocks, image) /\ Right(c, blocks, image)
    BY Zenon, AtStage DEF ByteRead, Exchanges, RInv
  <2>2. c.op \in {"force_bit", "force_byte"}
    BY Zenon, <2>1 DEF CallOK, Shape
  <2>3. Go(t, d)
    BY Zenon DEF ByteRead
  <2>4. DOMAIN d = DOMAIN NoCall /\ d.op = c.op /\ d.at = "byte_write" /\ d.key = c.key
    BY Zenon, <2>1 DEF NoCall
  <2> HIDE DEF c, d
  <2>5. Right(d, blocks, image)
    BY Zenon, <2>1, <2>2, <2>4 DEF Right, ListsRight, LoopsRight, FillsRight, ForcesRight, Loops
  <2> QED
    BY Zenon, <2>3, <2>4, <2>5, <1>AdvancesRight DEF Go
\* The byte is written, with the bit as it was asked for.
<1>ByteWriteRight. ASSUME IInv, RInv, NEW t \in Tasks, ByteWrite(t) PROVE RInv'
  <2> USE <1>ByteWriteRight
  <2> DEFINE c == call[t]
             w == WireByte(c.key[1])
             im == [image EXCEPT ![w] = NewByte(c)]
             d == Returned(c)
  <2>1. /\ c.at = "byte_write" /\ DOMAIN c = DOMAIN NoCall /\ CallOK(c, blocks, image) /\ Right(c, blocks, image)
        /\ image \in Image
    BY Zenon, AtStage DEF ByteWrite, Exchanges, RInv
  <2>2. c.op \in {"force_bit", "force_byte"} /\ c.key[1] \in ForceBytes
    BY Zenon, <2>1 DEF CallOK, Shape, Forcing
  <2>3. Advance(t, d, blocks, im) \/ Advance(t, NoCall, blocks, im)
    BY Zenon DEF ByteWrite, NewByte, Done
  <2>4. CASE c.op # "force_bit"
    <3>1. d = NoCall
      BY Zenon, <2>2, <2>4 DEF Returned, Piecewise
    <3> QED
      BY Zenon, <2>3, <3>1, <1>EndsRight
  <2>5. CASE c.op = "force_bit"
    <3>1. /\ DOMAIN d = DOMAIN NoCall /\ d.op = c.op /\ d.at = "ok" /\ d.key = c.key
      BY Zenon, <2>1, <2>5 DEF Returned, Piecewise, NoCall
    <3>2. im[w] = Forced(c.data[1], c.key[2], c.key[3])
      BY Zenon, <2>1, <2>2, <2>5 DEF Image, NewByte
    <3>3. c.key[3] \in BOOLEAN
      BY Zenon, <2>1, <2>5 DEF Right, ForcesRight
    <3>4. (c.key[2] \in im[w]) = c.key[3]
      BY <3>2, <3>3 DEF Forced
    <3> HIDE DEF im, d
    <3>5. Right(d, blocks, im)
      BY Zenon, <2>5, <3>1, <3>3, <3>4 DEF Right, ListsRight, LoopsRight, FillsRight, ForcesRight, Loops
    <3> QED
      BY Zenon, <2>3, <3>1, <3>5, <1>AdvancesRight, <1>EndsRight
  <2> QED
    BY Zenon, <2>4, <2>5
\* Nothing but one call changes.
<1>SetsRight.
  ASSUME IInv, RInv, NEW t \in Tasks, NEW c, call' = [call EXCEPT ![t] = c], blocks' = blocks, image' = image,
         Right(c, blocks, image)
  PROVE  RInv'
  <2> USE <1>SetsRight
  <2>1. call = [u \in Tasks |-> call[u]]
    BY Zenon DEF IInv
  <2>2. \A u \in Tasks : call'[u] = IF u = t THEN c ELSE call[u]
    BY Zenon, <2>1
  <2>3. \A u \in Tasks : Right(call'[u], blocks, image)
    BY Zenon, <2>2 DEF RInv
  <2>4. \A u \in Tasks : Right(call'[u], blocks', image')
    BY Zenon, <2>3
  <2> QED
    BY Zenon, <2>4 DEF RInv
\* A call begins.
<1>BeginsRight.
  ASSUME IInv, RInv, NEW t \in Tasks, NEW c, Begin(t, c), Right(c, blocks, image)
  PROVE  RInv'
  <2> USE <1>BeginsRight
  <2>1. call' = [call EXCEPT ![t] = c] /\ blocks' = blocks /\ image' = image
    BY Zenon DEF Begin
  <2> QED
    BY Zenon, <2>1, <1>SetsRight
\* A call that is over, or is given up, is forgotten.
<1>ForgottenRight. ASSUME IInv, RInv, NEW t \in Tasks, Collect(t) \/ Abandon(t) PROVE RInv'
  <2> USE <1>ForgottenRight
  <2>1. call' = [call EXCEPT ![t] = NoCall] /\ blocks' = blocks /\ image' = image
    BY Zenon DEF Collect, Abandon
  <2>2. Right(NoCall, blocks, image)
    BY Zenon, IdleCall, RightAnyway DEF Loops
  <2> QED
    BY Zenon, <2>1, <2>2, <1>SetsRight
\* list_blocks has listed nothing yet.
<1>CallListRight. ASSUME IInv, RInv, NEW t \in Tasks, CallList(t) PROVE RInv'
  <2> USE <1>CallListRight
  <2>1. PICK i \in DOMAIN BlockTypes :
          Begin(t, [NoCall EXCEPT !.op = "list_blocks", !.at = "page", !.types = <<BlockTypes[i]>>,
                                  !.always = Present(blocks), !.ever = Present(blocks)])
    BY Zenon DEF CallList
  <2> DEFINE c == [NoCall EXCEPT !.op = "list_blocks", !.at = "page", !.types = <<BlockTypes[i]>>,
                                 !.always = Present(blocks), !.ever = Present(blocks)]
  <2>2. /\ c.op = "list_blocks" /\ c.at = "page" /\ c.nums = {} /\ c.cur = 0
        /\ c.always = Present(blocks) /\ c.ever = Present(blocks)
    BY Zenon DEF NoCall
  <2>3. Begin(t, c)
    BY Zenon, <2>1
  <2> HIDE DEF c
  <2>4. Paged(c, c.always)
    <3>1. \A n \in NumbersOf(Head(c.types), Present(blocks)) : n \in Nat
      <4>1. Present(blocks) \in SUBSET Keys
        BY Zenon DEF Present
      <4> QED
        BY Zenon, <4>1, <1>NumbersOfKeys
    <3> QED
      BY <2>2, <3>1 DEF Paged
  <2>5. Right(c, blocks, image)
    BY Zenon, <2>2, <2>4 DEF Right, ListsRight, LoopsRight, FillsRight, ForcesRight, Loops
  <2> QED
    BY Zenon, <2>3, <2>5, <1>BeginsRight
\* upload_all_blocks has every type ahead.
<1>CallUploadAllRight. ASSUME IInv, RInv, NEW t \in Tasks, CallUploadAll(t) PROVE RInv'
  <2> USE <1>CallUploadAllRight
  <2> DEFINE c == [NoCall EXCEPT !.op = "upload_all_blocks", !.types = BlockTypes]
             d == NextType(c)
  <2>1. /\ c.op = "upload_all_blocks" /\ c.types = BlockTypes /\ c.read = [k \in Keys |-> None]
        /\ DOMAIN c = DOMAIN NoCall
    BY Zenon DEF NoCall
  <2>2. Begin(t, d)
    BY Zenon DEF CallUploadAll
  <2> HIDE DEF c
  <2>3. Typed(c.types) = Wanted
    BY Zenon, <2>1 DEF Typed, Wanted
  <2>4. TypesAhead(c, blocks)
    BY Zenon, <2>1, <2>3 DEF TypesAhead, ReadRight
  <2>5. Kept(c, d) /\ LoopRight(d, blocks)
    BY Zenon, <2>1, <2>4, <1>NextTypeRight, BlockConstants DEF Loops
  <2> HIDE DEF d
  <2>6. Right(d, blocks, image)
    BY <2>1, <2>5, <1>RightLoop DEF Kept, Loops
  <2> QED
    BY Zenon, <2>2, <2>6, <1>BeginsRight
\* compare_blocks has every local block ahead.
<1>CallCompareRight. ASSUME IInv, RInv, NEW t \in Tasks, CallCompare(t) PROVE RInv'
  <2> USE <1>CallCompareRight
  <2>1. PICK l \in Locals, p \in BOOLEAN :
          Begin(t, NextLocal([NoCall EXCEPT !.op = "compare_blocks", !.todo = Known(l), !.local = Known(l),
                                            !.plcOnly = p]))
    BY Zenon DEF CallCompare
  <2> DEFINE c == [NoCall EXCEPT !.op = "compare_blocks", !.todo = Known(l), !.local = Known(l), !.plcOnly = p]
             d == NextLocal(c)
  <2>2. /\ c.op = "compare_blocks" /\ c.types = <<>> /\ c.todo = Known(l) /\ c.local = Known(l) /\ c.only = {}
        /\ c.read = [k \in Keys |-> None] /\ DOMAIN c = DOMAIN NoCall
    BY Zenon DEF NoCall
  <2>3. Begin(t, d)
    BY Zenon, <2>1
  <2> HIDE DEF c
  <2>4. Known(l) \in Seq(Keys \X Seq(Bytes))
    BY Zenon, BlockConstants
  <2>5. OnlyRight(c, blocks)
    BY <2>2 DEF OnlyRight, Typed
  <2>6. LocalKeys(c) = Named(c.todo)
    BY <2>2 DEF LocalKeys, Named
  <2>7. LocalsAhead(c, blocks)
    BY Zenon, <2>2, <2>5, <2>6 DEF LocalsAhead, ReadRight
  <2>8. Kept(c, d) /\ LoopRight(d, blocks)
    BY Zenon, <2>2, <2>4, <2>7, <1>NextLocalRight
  <2> HIDE DEF d
  <2>9. Right(d, blocks, image)
    BY <2>2, <2>8, <1>RightLoop DEF Kept, Loops
  <2> QED
    BY Zenon, <2>3, <2>9, <1>BeginsRight
\* Of db_fill, force_bit and the other calls nothing is known yet.
<1>CallsRight.
  ASSUME IInv, RInv, NEW t \in Tasks,
         CallUpload(t) \/ CallDownload(t) \/ CallFill(t) \/ CallForce(t) \/ CallJob(t)
  PROVE  RInv'
  <2> USE <1>CallsRight
  <2>1. ASSUME NEW c, c.op \notin Loops \cup {"list_blocks", "db_fill", "force_bit"}, Begin(t, c) PROVE RInv'
    BY Zenon, <2>1, RightAnyway, <1>BeginsRight
  <2>2. CASE CallUpload(t)
    <3>1. PICK op \in {"upload", "full_upload"}, k \in Keys :
            Begin(t, [NoCall EXCEPT !.op = op, !.at = "up_start", !.key = k])
      BY Zenon, <2>2 DEF CallUpload
    <3> DEFINE c == [NoCall EXCEPT !.op = op, !.at = "up_start", !.key = k]
    <3>2. c.op \notin Loops \cup {"list_blocks", "db_fill", "force_bit"}
      BY Zenon DEF NoCall, Loops
    <3> QED
      BY Zenon, <2>1, <3>1, <3>2
  <2>3. CASE CallDownload(t)
    <3>1. PICK op \in Downloaders, k \in Keys, d \in Contents :
            Begin(t, [NoCall EXCEPT !.op = op, !.at = "down_start", !.key = k, !.data = d])
      BY Zenon, <2>3, BlockConstants DEF CallDownload, Downloaders
    <3> DEFINE c == [NoCall EXCEPT !.op = op, !.at = "down_start", !.key = k, !.data = d]
    <3>2. c.op \notin Loops \cup {"list_blocks", "db_fill", "force_bit"}
      BY Zenon DEF NoCall, Loops, Downloaders
    <3> QED
      BY Zenon, <2>1, <3>1, <3>2
  <2>4. CASE CallFill(t)
    <3>1. PICK k \in Keys, v \in FillValues :
            Begin(t, [NoCall EXCEPT !.op = "db_fill", !.at = "info", !.key = k, !.data = <<v>>])
      BY Zenon, <2>4 DEF CallFill
    <3> DEFINE c == [NoCall EXCEPT !.op = "db_fill", !.at = "info", !.key = k, !.data = <<v>>]
    <3>2. c.op = "db_fill" /\ c.at = "info" /\ c.off = 0
      BY Zenon DEF NoCall
    <3>3. Begin(t, c)
      BY Zenon, <3>1
    <3> HIDE DEF c
    <3>4. Right(c, blocks, image)
      BY Zenon, <3>2 DEF Right, ListsRight, LoopsRight, FillsRight, ForcesRight, Loops
    <3> QED
      BY Zenon, <3>3, <3>4, <1>BeginsRight
  <2>5. CASE \E b \in ForceBytes, i \in Bits, v \in BOOLEAN :
               Begin(t, [NoCall EXCEPT !.op = "force_bit", !.at = "byte_read", !.key = <<b, i, v>>])
    <3>1. PICK b \in ForceBytes, i \in Bits, v \in BOOLEAN :
            Begin(t, [NoCall EXCEPT !.op = "force_bit", !.at = "byte_read", !.key = <<b, i, v>>])
      BY Zenon, <2>5
    <3> DEFINE c == [NoCall EXCEPT !.op = "force_bit", !.at = "byte_read", !.key = <<b, i, v>>]
    <3>2. c.op = "force_bit" /\ c.at = "byte_read" /\ c.key[3] = v
      BY Zenon DEF NoCall
    <3>3. Begin(t, c)
      BY Zenon, <3>1
    <3> HIDE DEF c
    <3>4. Right(c, blocks, image)
      BY Zenon, <3>2 DEF Right, ListsRight, LoopsRight, FillsRight, ForcesRight, Loops
    <3> QED
      BY Zenon, <3>3, <3>4, <1>BeginsRight
  <2>6. CASE \E b \in ForceBytes, s \in {{}, Bits} :
               Begin(t, [NoCall EXCEPT !.op = "force_byte", !.at = "byte_write", !.key = <<b>>, !.data = <<s>>])
    <3>1. PICK b \in ForceBytes, s \in {{}, Bits} :
            Begin(t, [NoCall EXCEPT !.op = "force_byte", !.at = "byte_write", !.key = <<b>>, !.data = <<s>>])
      BY Zenon, <2>6
    <3> DEFINE c == [NoCall EXCEPT !.op = "force_byte", !.at = "byte_write", !.key = <<b>>, !.data = <<s>>]
    <3>2. c.op \notin Loops \cup {"list_blocks", "db_fill", "force_bit"}
      BY Zenon DEF NoCall, Loops
    <3> QED
      BY Zenon, <2>1, <3>1, <3>2
  <2>7. CASE CallJob(t)
    <3>1. PICK c : c.op \in Jobs /\ Begin(t, c)
      <4>1. CASE \E op \in Jobs \ {"delete_block"} : Begin(t, [NoCall EXCEPT !.op = op, !.at = "job"])
        <5>1. \A op \in Jobs : [NoCall EXCEPT !.op = op, !.at = "job"].op = op
          BY Zenon DEF NoCall
        <5> QED
          BY Zenon, <4>1, <5>1
      <4>2. CASE \E k \in Keys : Begin(t, [NoCall EXCEPT !.op = "delete_block", !.at = "job", !.key = k])
        <5>1. \A k \in Keys : [NoCall EXCEPT !.op = "delete_block", !.at = "job", !.key = k].op \in Jobs
          BY Zenon DEF NoCall, Jobs
        <5> QED
          BY Zenon, <4>2, <5>1
      <4> QED
        BY Zenon, <2>7, <4>1, <4>2 DEF CallJob
    <3>2. c.op \notin Loops \cup {"list_blocks", "db_fill", "force_bit"}
      BY Zenon, <3>1 DEF Jobs, Loops
    <3> QED
      BY Zenon, <2>1, <3>1, <3>2
  <2> QED
    BY Zenon, <2>2, <2>3, <2>4, <2>5, <2>6, <2>7 DEF CallForce
\* One exchange of whatever call.
<1>ExchangeRight. ASSUME IInv, RInv, NEW t \in Tasks, Exchange(t) PROVE RInv'
  <2> USE <1>ExchangeRight
  <2>1. CASE Fail(t)
    BY Zenon, <2>1, <1>FailedRight DEF Fail, Go
  <2> QED
    BY Zenon, <2>1, <1>Reads, <1>UploadEndRight, <1>DownloadDataRight, <1>Lists, <1>FillInfoRight,
       <1>Fills, <1>ByteReadRight, <1>ByteWriteRight, <1>JobsRight DEF Exchange
\* Every step leaves every call right.
<1>RightStep. ASSUME IInv, RInv, [Orderly]_vars PROVE RInv'
  <2> USE <1>RightStep
  <2>1. CASE Orderly
    <3>1. PICK t \in Tasks :
            \/ CallUpload(t) \/ CallDownload(t) \/ CallFill(t) \/ CallForce(t) \/ CallJob(t)
            \/ CallList(t) \/ CallUploadAll(t) \/ CallCompare(t)
            \/ Exchange(t) \/ Collect(t) \/ Abandon(t)
      BY Zenon, <2>1 DEF Orderly
    <3> QED
      BY Zenon, <3>1, <1>CallsRight, <1>CallListRight, <1>CallUploadAllRight, <1>CallCompareRight, <1>ExchangeRight, <1>ForgottenRight
  <2>2. CASE UNCHANGED vars
    <3>1. blocks' = blocks /\ image' = image /\ call' = call
      BY Zenon, <2>2 DEF vars
    <3> QED
      BY Zenon, <3>1 DEF RInv
  <2> QED
    BY Zenon, <2>1, <2>2
<1> QED
  BY Zenon, <1>RightStep

-----------------------------------------------------------------------------
(* Lists and loops are right                                               *)

\* As long as no answer is left behind, every call has done its part: what a list or a loop over blocks has
\* not found yet is still ahead of it.
THEOREM BlockOpsRight == Spec => [](InStep => RInv)
<1>1. Init => RInv
  <2> SUFFICES ASSUME Init PROVE RInv
    BY Zenon
  <2>1. \A t \in Tasks : call[t] = NoCall
    BY Zenon DEF Init
  <2>2. Right(NoCall, blocks, image)
    BY Zenon, IdleCall, RightAnyway DEF Loops
  <2> QED
    BY Zenon, <2>1, <2>2 DEF RInv
<1>2. (InStep => IInv) /\ (InStep => RInv) /\ [Next]_vars => (InStep => RInv)'
  BY Zenon, RightStep, InStepBefore
<1> QED
  BY <1>1, <1>2, BlockOpsInvariant, PTL DEF Spec

\* list_blocks_of_type, which releases the mutex after every page while other tasks create
\* and delete blocks, lists every block that was there throughout and none that never was,
\* for pages of any length and any number of blocks and tasks, as long as no answer is left
\* behind.
THEOREM BlockOpsListsPlausible == Spec => []ListIsPlausible
<1>1. (InStep => RInv) => ListIsPlausible
  BY Zenon DEF RInv, Right, ListsRight, ListIsPlausible
<1> QED
  BY <1>1, BlockOpsRight, PTL

\* What is right of a loop that has returned.
LEMMA LoopDone ==
  ASSUME NEW c, NEW b, LoopRight(c, b), c.at = "ok"
  PROVE  /\ c.op = "upload_all_blocks" => \A k \in Wanted : c.read[k] = AsRead(k, b[k])
         /\ c.op = "compare_blocks" =>
              /\ \A i \in DOMAIN c.local : c.read[c.local[i][1]] = AsRead(c.local[i][1], b[c.local[i][1]])
              /\ c.plcOnly => c.only = (Present(b) \cap Wanted) \ LocalKeys(c)
<1>1. CASE c.op = "upload_all_blocks"
  <2>1. \A k \in Present(b) \cap Wanted : c.read[k] = AsRead(k, b[k])
    BY Zenon, <1>1 DEF LoopRight, UploadsRight, Uploading
  <2>2. \A k \in Keys : c.read[k] = None \/ c.read[k] = AsRead(k, b[k])
    BY Zenon DEF LoopRight
  <2>4. \A k \in Keys : b[k] = None => AsRead(k, b[k]) = None
    BY Zenon DEF AsRead, Misjudged
  <2>3. \A k \in Wanted : k \in Keys /\ (b[k] = None \/ k \in Present(b) \cap Wanted)
    BY Zenon DEF Wanted, Present
  <2> QED
    BY Zenon, <1>1, <2>1, <2>2, <2>3, <2>4
<1>2. CASE c.op = "compare_blocks"
  <2>1. ComparesRight(c, b)
    BY Zenon, <1>2 DEF LoopRight
  <2>2. \A k \in LocalKeys(c) : c.read[k] = AsRead(k, b[k])
    BY Zenon, <2>1 DEF ComparesRight, Uploading
  <2>3. \A i \in DOMAIN c.local : c.local[i][1] \in LocalKeys(c)
    BY Zenon DEF LocalKeys
  <2>4. c.plcOnly => c.only = (Present(b) \cap Wanted) \ LocalKeys(c)
    BY Zenon, <2>1 DEF ComparesRight, OnlyRight
  <2> QED
    BY Zenon, <1>2, <2>2, <2>3, <2>4
<1> QED
  BY Zenon, <1>1, <1>2

\* A call that takes the mutex several times does what its doc says when it returns Ok,
\* nobody else changed the PLC meanwhile and no answer was left behind: upload_all_blocks
\* has every block of its types as upload reads it, compare_blocks judges every local block
\* by that and names those only the PLC has, db_fill has filled the whole block with the value, and force_bit has set the bit; for
\* any number of tasks, blocks and types, any chunk, page and block size, and wherever
\* exchanges of other calls fail.
THEOREM BlockOpsUndisturbedExact == Spec => []UndisturbedCallsAreExact
<1>1. ASSUME InStep => RInv PROVE UndisturbedCallsAreExact
  <2> SUFFICES ASSUME InStep, NEW t \in Tasks, call[t].at = "ok", call[t].quiet
               PROVE  LET c == call[t] IN
                      /\ c.op = "upload_all_blocks" /\ ~c.cut => \A k \in Wanted : c.read[k] = AsRead(k, blocks[k])
                      /\ c.op = "compare_blocks" /\ ~c.cut =>
                           /\ \A i \in DOMAIN c.local : LET k == c.local[i][1] IN
                                Verdict(c.local[i][2], c.read[k]) = Verdict(c.local[i][2], AsRead(k, blocks[k]))
                           /\ c.plcOnly => c.only = (Present(blocks) \cap Wanted) \ LocalKeys(c)
                      /\ c.op = "db_fill" => blocks[c.key] = [i \in DOMAIN blocks[c.key] |-> c.data[1]]
                      /\ c.op = "force_bit" => (c.key[2] \in image[WireByte(c.key[1])]) = c.key[3]
    BY Zenon DEF UndisturbedCallsAreExact
  <2> DEFINE c == call[t]
  <2>1. Right(c, blocks, image)
    BY Zenon, <1>1 DEF RInv
  <2>2. c.op \in Loops /\ ~c.cut => LoopRight(c, blocks)
    BY Zenon, <2>1 DEF Right, LoopsRight
  <2>3. c.op = "upload_all_blocks" /\ ~c.cut => \A k \in Wanted : c.read[k] = AsRead(k, blocks[k])
    BY <2>2, LoopDone DEF Loops
  <2>4. ASSUME c.op = "compare_blocks", ~c.cut
        PROVE  /\ \A i \in DOMAIN c.local : c.read[c.local[i][1]] = AsRead(c.local[i][1], blocks[c.local[i][1]])
               /\ c.plcOnly => c.only = (Present(blocks) \cap Wanted) \ LocalKeys(c)
    BY Zenon, <2>2, <2>4, LoopDone DEF Loops
  <2>5. c.op = "db_fill" => blocks[c.key] = [i \in DOMAIN blocks[c.key] |-> c.data[1]]
    BY Zenon, <2>1 DEF Right, FillsRight
  <2>6. c.op = "force_bit" => (c.key[2] \in image[WireByte(c.key[1])]) = c.key[3]
    BY Zenon, <2>1 DEF Right, ForcesRight
  <2> QED
    BY Zenon, <2>3, <2>4, <2>5, <2>6
<1>2. (InStep => RInv) => UndisturbedCallsAreExact
  BY Zenon, <1>1
<1> QED
  BY <1>2, BlockOpsRight, PTL
=============================================================================
