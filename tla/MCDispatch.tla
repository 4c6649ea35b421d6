---------------------------- MODULE MCDispatch -----------------------------
(***************************************************************************)
(* Two connections and an application thread over one area of two bytes.   *)
(* Requests cover every branch of the loop; a write of two items leaves    *)
(* room for the application to lock or purge the area in between, and the  *)
(* answer to a read of two items exceeds a frame.                          *)
(*                                                                         *)
(* The properties of Queries depend on no variable and are checked in the  *)
(* initial states.                                                         *)
(***************************************************************************)
EXTENDS Dispatch, Queries, TLC

CONSTANTS c1, c2, app, db, cb1

MCArea == {db}
MCOffset == 0..1
MCMaxAsk == (c1 :> 2) @@ (c2 :> 1)
MCItem == [area |-> db, offs |-> MCOffset]
MCWrite(b) == [area |-> db, offs |-> MCOffset, byte |-> b]
MCRead == [kind |-> "read", items |-> <<MCItem>>]
MCReadLong == [kind |-> "read", items |-> <<MCItem, MCItem>>]
MCWriteTwice == [kind |-> "write", items |-> <<MCWrite(1), MCWrite(0)>>]
MCRequest ==
  (c1 :> {MCRead, MCReadLong})
    @@ (c2 :> {MCWriteTwice, [kind |-> "badframe"], [kind |-> "malformed"], [kind |-> "refused"],
               [kind |-> "control"], [kind |-> "query"], [kind |-> "clock", clock |-> 0]})
ASSUME MCItemsAligned == ItemsAligned

-----------------------------------------------------------------------------
(* The clock                                                               *)

\* Dates at the ends of every field and of the years that two digits cover.
MCDates ==
  [year : {1989, 1990, 1999, 2000, 2024, 2089, 2090}, month : {1, 10, 12}, day : {1, 29, 31},
   hour : {0, 23}, minute : {9, 59}, second : {0, 59}, millisecond : {0, 9, 999},
   weekday : {0, 1, 7}]

\* The days of 1999 to 2001 and of 2099 to 2101, as days since 1970.
MCDays == (10592..11687) \cup (47117..48211)

\* Reference: the days from 1970 to a date, from the number of leap years.
LeapsBefore(y) == (y - 1) \div 4 - (y - 1) \div 100 + (y - 1) \div 400
DaysSince1970(dt) ==
  LET leap == LeapsBefore(dt.year + 1) - LeapsBefore(dt.year)
      months == <<0, 31, 59, 90, 120, 151, 181, 212, 243, 273, 304, 334>>
  IN  365 * (dt.year - 1970) + LeapsBefore(dt.year) - LeapsBefore(1970)
        + months[dt.month] + (IF dt.month > 2 THEN leap ELSE 0) + dt.day - 1

\* A time set with set_clock is what read_clock returns, through both codecs, the
\* server's handlers and its reply split over parameters and data, and in each of
\* the layouts that read_clock's comment lists; years outside 1990..2089 come back a
\* century off.  set_clock_to_now sets the host's date, over ordinary, leap and
\* century years.
ClockReadsBack ==
  Init =>
    /\ \A dt \in MCDates :
         LET stored == ClockAfter(SetClockRequest(dt), Fill(8, 0))
             shown == [dt EXCEPT !.year = IF @ < 1990 THEN @ + 100
                                          ELSE IF @ > 2089 THEN @ - 100 ELSE @]
         IN  /\ ReadClock(HandleUserData(ReadClockRequest, stored)) = shown
             /\ \A params \in {8, 12, 20} :
                  ReadClock(Reply("userdata", params, 20 - params, Fill(12, 255) \o stored)) = shown
    /\ \A days \in MCDays :
         /\ DaysSince1970(Now(days, 0)) = days
         /\ Now(days, 0).day \in 1..MonthDays(Now(days, 0).year)[Now(days, 0).month]

-----------------------------------------------------------------------------
(* Tables                                                                  *)

Asked(id, index) == ReadSzlPayload(HandleUserData(SzlRequest(id, index), Fill(8, 0)))

\* The client reads the server's tables as they are meant, but for these: the
\* version in the order code is not where the client looks, the protection schemes
\* are in the wrong byte of their words, and a table the server does not have is a
\* module list of one module and an error as a list of tables.  Block lists are
\* empty and block information is refused: the echo of the request is taken for an
\* error.  Copying to ROM and compressing are acknowledged and not done.
BuiltInTables ==
  /\ GetPlcStatus(Asked(1060, 0)) = "run"
  /\ GetCpInfo(Asked(305, 1)) = <<480, 32, 187500, 25000>>
  /\ GetCpuInfo(Asked(28, 0)) =
       [module_type |-> SimType, serial_number |-> SimSerial, as_name |-> SimPlc,
        copyright |-> SimCopyright, module_name |-> SimPlc]
  /\ GetOrderCode(Asked(17, 0)) = [code |-> SimOrder, version |-> <<0, 0, 0>>]
  /\ GetProtection(Asked(50, 4)) =
       [schemes |-> <<768, 768, 768>>, level |-> 0, password_set |-> FALSE]
  /\ ReadModuleList(Asked(160, 0)) = <<0>>
  /\ ReadSzlList(Asked(0, 0)) = Unexpected
  /\ SzlResponse(Asked(37, 0)) = [id |-> 37, index |-> 0, data |-> Fill(4, 0)]
  /\ ListBlocks(HandleUserData(ListBlocksRequest, Fill(8, 0))) = <<>>
  /\ \A n \in {0, 1, 65535} :
       BlockInfoPayload(HandleUserData(BlockInfoRequest(65, n), Fill(8, 0))) = PlcError
  /\ \A req \in {CopyRamToRom, Compress} :
       CheckPlcError(HandleUserData(req, Fill(8, 0))) = "ok"

\* Entries with one word each; entries with an index and a text that may be empty.
MCWords == BoundedSeq({0, 1, 200, 513}, 3)
MCTexts == UNION {[1..n -> [index : {1, 2, 7}, text : {<<>>, SimPlc, SimType}]] : n \in 1..3}
Wanted(entries, index) ==
  LET hits == {i \in DOMAIN entries : entries[i].index = index /\ entries[i].text # <<>>}
  IN  IF hits = {} THEN <<>> ELSE entries[Min(hits)].text

\* Any table in the layout of szl_block is read entry by entry: all words of a list,
\* the first text under each index, entry 7 before entry 2, whatever their order and
\* although an entry may be cut off at the end.  get_protection and read_module_list
\* expect another layout and come out right only because they take the number of
\* entries for the length they skip: an empty list reads as one module.
TablesUnderstood ==
  Init =>
    /\ BuiltInTables
    /\ \A words \in MCWords : \A pad \in {0, 2} :
         LET entries == FlattenSeq([i \in DOMAIN words |-> U16(words[i]) \o Fill(pad, 9)])
         IN  /\ ReadSzlList(SzlBlock(0, 0, 2 + pad, entries)) = words
             /\ ReadSzlList(SzlBlock(0, 0, 2 + pad, entries) \o <<9>>) = words
             /\ pad = 0 => ReadModuleList(SzlBlock(160, 0, 2, entries))
                             = IF words = <<>> THEN <<0>> ELSE words
    /\ \A words \in MCWords : \A word \in {Password, Fill(8, 32)} :
         Len(words) = 3 =>
           GetProtection(SzlBlock(50, 4, 16, FlattenSeq([i \in 1..3 |-> U16(words[i])])
                                               \o U16(2) \o word))
             = [schemes |-> words, level |-> 2, password_set |-> word = Password]
    /\ \A entries \in MCTexts : \A end \in {0, 35} :
         LET bytes == FlattenSeq([i \in DOMAIN entries |->
                                    SpacePadded(entries[i].index, entries[i].text)])
             table == SzlBlock(28, 0, 34, bytes \o Fill(end, 32))
             kept == SubSeq(table, 1, Len(table) - (IF end = 0 THEN 0 ELSE 2))
             type == IF Wanted(entries, 7) # <<>> THEN Wanted(entries, 7) ELSE Wanted(entries, 2)
         IN  /\ GetCpuInfo(kept) =
                  IF type = <<>> /\ Wanted(entries, 1) = <<>> THEN Guess
                  ELSE [module_type |-> type, serial_number |-> <<>>,
                        as_name |-> Wanted(entries, 1), copyright |-> <<>>,
                        module_name |-> Wanted(entries, 1)]
             /\ GetOrderCode(kept).code =
                  IF Wanted(entries, 1) = <<>> THEN Guess ELSE Wanted(entries, 1)

\* A table that says it has entries of 12, 13 or 14 bytes, and its first n bytes.
MCTable(id, size, x, n) == SubSeq(U16(id) \o <<0, 1, 0, size, 0, 1>> \o Fill(90, x), 1, n)
MCBlock(n, x) == SubSeq(Fill(8, x) \o <<0, 0>> \o U16(n) \o Fill(80, x), 1, n)

\* However much of a reply arrives, a query returns a value or an error, never
\* reading past the end, save at three lengths that the guards let through: 12 or 13
\* bytes of a CP entry, eight less two bytes of a protection entry, and block
\* information of 40 or 41 bytes.
QueriesReturn ==
  Init =>
    \A n \in 0..90 : \A x \in {0, 1, 127} :
      /\ \A size \in 12..14 :
           LET p == MCTable(305, size, x, n)
           IN  (GetCpInfo(p) = Panic) <=> (n - 8 >= size /\ n < 22)
      /\ \A size \in {0, 1, 34} :
           LET p == MCTable(28, size, x, n)
           IN  /\ (GetProtection(p) = Panic) <=> n \in {14, 15}
               /\ (GetCpuInfo(p) = Unexpected) <=> n < 8
               /\ (GetOrderCode(p) = Unexpected) <=> n < 8
               /\ (SzlResponse(p) = Unexpected) <=> n < 8
               /\ (ReadSzlList(p) = Unexpected) <=> n > 0 /\ (n < 8 \/ size < 2)
               /\ Len(ReadModuleList(p)) <= n \div 2
      /\ (GetBlockInfo(Fill(n, x), 1) = Panic) <=> n \in {40, 41}
      /\ (ParseBlockInfo(MCBlock(n, x)) = Unexpected) <=> (n < 84 \/ x > 0)
      /\ \A params \in {0, 8, 12} :
           LET reply == Reply("userdata", params, 0, SubSeq(Fill(params, 0) \o <<255, 9, 0, 28>>
                                                              \o Fill(90, x), 1, n))
           IN  /\ ListBlocks(reply) # Panic
               /\ (BlockInfoPayload(reply) = Unexpected) <=> n < params + 4
               /\ (ReadSzlPayload(reply) = Unexpected) <=> n < params
=============================================================================
