------------------------------ MODULE Queries -------------------------------
(***************************************************************************)
(* The client's UserData queries (clock, system status lists, block lists  *)
(* and block information; client.rs, clock.rs, szl.rs) and the handlers    *)
(* that answer them in the server (dispatch.rs), on bytes.                 *)
(*                                                                         *)
(* A request is its parameters followed by its data.  A reply is what      *)
(* recv_s7 returns: header fields and the bytes after the header.  A text  *)
(* in a table is one printable byte with its padding.  Where get_cpu_info  *)
(* and get_order_code guess at a reply in no known layout, the result is   *)
(* Guess.                                                                  *)
(***************************************************************************)
EXTENDS Integers, Sequences, SequencesExt, FiniteSetsExt

CONSTANTS
  Unexpected, \* Err(UnexpectedResponse)
  PlcError,   \* Err(PlcError)
  Panic,      \* a read past the end of the buffer
  Guess       \* what the heuristics make of a reply

U16(n) == <<n \div 256, n % 256>>
Word(b, i) == b[i] * 256 + b[i + 1]
Long(b, i) == Word(b, i) * 65536 + Word(b, i + 2)
From(b, i) == SubSeq(b, i, Len(b))
Fill(n, x) == [i \in 1..n |-> x]

\* Reading up to byte n of b, for a value that needs it.
Need(b, n, value) == IF Len(b) < n THEN Panic ELSE value

Trim(s) ==
  LET kept == {i \in DOMAIN s : s[i] # 32}
  IN  IF kept = {} THEN <<>> ELSE SubSeq(s, Min(kept), Max(kept))

\* A field up to its first NUL, trimmed.
Text(s) ==
  LET nuls == {i \in DOMAIN s : s[i] = 0}
  IN  Trim(IF nuls = {} THEN s ELSE SubSeq(s, 1, Min(nuls) - 1))

\* check_plc_error: only Ack and AckData headers carry an error.
CheckPlcError(reply) == IF reply.type = "ack" /\ reply.error # 0 THEN PlcError ELSE "ok"

-----------------------------------------------------------------------------
(* The clock                                                               *)

ToBcd(v) == (((v \div 10) * 16) % 256) + (v % 10)
FromBcd(v) == (v \div 16) * 10 + (v % 16)

EncodeClock(dt) ==
  <<ToBcd(dt.year % 100), ToBcd(dt.month), ToBcd(dt.day), ToBcd(dt.hour), ToBcd(dt.minute),
    ToBcd(dt.second), ToBcd(dt.millisecond \div 10),
    (dt.millisecond % 10) * 16 + (dt.weekday % 16)>>

Century(y) == IF y >= 90 THEN 1900 + y ELSE 2000 + y

DecodeClock(b) ==
  IF Len(b) < 8 THEN Unexpected
  ELSE [year |-> Century(FromBcd(b[1])), month |-> FromBcd(b[2]), day |-> FromBcd(b[3]),
        hour |-> FromBcd(b[4]), minute |-> FromBcd(b[5]), second |-> FromBcd(b[6]),
        millisecond |-> FromBcd(b[7]) * 10 + b[8] \div 16, weekday |-> b[8] % 16]

ReadClockRequest == <<0, 1, 18, 4, 17, 71, 1, 0>>
SetClockRequest(dt) == <<0, 1, 18, 4, 17, 71, 2, 0, 255, 9, 0, 8>> \o EncodeClock(dt)

\* The time is the last eight bytes of parameters and data together.
ReadClock(reply) ==
  LET total == reply.params + reply.data
  IN  IF Len(reply.body) < total \/ total < 8 THEN Unexpected
      ELSE DecodeClock(From(reply.body, total - 7))

\* Mutant: every fourth year is a leap year.
LeapJulian(y) == y % 4 = 0

Leap(y) == (y % 4 = 0 /\ y % 100 # 0) \/ y % 400 = 0
MonthDays(y) == <<31, IF Leap(y) THEN 29 ELSE 28, 31, 30, 31, 30, 31, 31, 30, 31, 30, 31>>

\* The loops of set_clock_to_now: whole years, then whole months, are taken
\* off the days since 1970.  Taken(y) days are off when the first loop is at
\* year y, and it stops where the rest is less than that year.
Taken(y) == 365 * (y - 1970) + Cardinality({z \in 1970..(y - 1) : Leap(z)})
FindYear(days) ==
  LET y == CHOOSE y \in (1970 + days \div 366)..(1970 + days \div 365) :
             Taken(y) <= days /\ days < Taken(y + 1)
  IN  <<y, days - Taken(y)>>

FindMonth(year, days) ==
  LET go[m \in Nat, d \in Nat] ==
        IF m > 12 \/ d < MonthDays(year)[m] THEN <<m, d>> ELSE go[m + 1, d - MonthDays(year)[m]]
  IN  go[1, days]

\* The host's clock says so many days since 1970 and seconds of the day.
Now(days, secs) ==
  LET y == FindYear(days)
      m == FindMonth(y[1], y[2])
  IN  [year |-> y[1], month |-> m[1], day |-> m[2] + 1, hour |-> secs \div 3600,
       minute |-> (secs \div 60) % 60, second |-> secs % 60, millisecond |-> 0, weekday |-> 0]

-----------------------------------------------------------------------------
(* System status lists, client side                                        *)

SzlRequest(id, index) == <<0, 1, 18, 4, 17, 68, 1, 0, 255, 9, 0, 4>> \o U16(id) \o U16(index)

\* An answer without data and a refusal are both an empty payload.
ReadSzlPayload(reply) ==
  LET data == From(reply.body, reply.params + 1)
  IN  IF Len(reply.body) < reply.params THEN Unexpected
      ELSE IF Len(data) < 4 \/ data[1] # 255 THEN <<>>
      ELSE From(data, 5)

\* read_szl: identification and the rest.
SzlResponse(p) ==
  IF Len(p) < 8 THEN Unexpected ELSE [id |-> Word(p, 1), index |-> Word(p, 3), data |-> From(p, 5)]

\* The whole entries of a table, at most as many as it says it has.
Entries(p) ==
  LET size == Word(p, 5)
      n == Min({Word(p, 7), (Len(p) - 8) \div size})
  IN  [k \in 1..n |-> SubSeq(p, 9 + (k - 1) * size, 8 + k * size)]

\* The first entry with this index that has a text.
FirstText(p, index) ==
  LET texts == SelectSeq([k \in DOMAIN Entries(p) |->
                            IF Word(Entries(p)[k], 1) = index
                            THEN Text(From(Entries(p)[k], 3)) ELSE <<>>],
                         LAMBDA t : t # <<>>)
  IN  IF texts = <<>> THEN <<>> ELSE texts[1]

ReadSzlList(p) ==
  IF p = <<>> THEN <<>>
  ELSE IF Len(p) < 8 THEN Unexpected
  ELSE IF Word(p, 5) < 2 THEN Unexpected
  ELSE [k \in DOMAIN Entries(p) |-> Word(Entries(p)[k], 1)]

GetPlcStatus(p) ==
  IF Len(p) < 12 THEN "unknown"
  ELSE IF p[12] = 0 THEN "unknown" ELSE IF p[12] = 8 THEN "run" ELSE "stop"

\* The version is the last three bytes of the table.
GetOrderCode(p) ==
  IF Len(p) < 8 THEN Unexpected
  ELSE LET known == Word(p, 1) \in {17, 28} /\ Word(p, 5) >= 4 /\ Word(p, 7) > 0
           code == IF known THEN FirstText(p, 1) ELSE <<>>
       IN  [code |-> IF code # <<>> THEN code ELSE Guess, version |-> From(p, Len(p) - 2)]

\* Entry 7 wins over entry 2; a missing module name is the plant's name.
GetCpuInfo(p) ==
  IF Len(p) < 8 THEN Unexpected
  ELSE IF ~(Word(p, 1) = 28 /\ Word(p, 5) >= 4 /\ Word(p, 7) > 0) THEN Guess
  ELSE LET asName == FirstText(p, 1)
           type == IF FirstText(p, 7) # <<>> THEN FirstText(p, 7) ELSE FirstText(p, 2)
           name == IF FirstText(p, 3) # <<>> THEN FirstText(p, 3) ELSE asName
           serial == FirstText(p, 5)
       IN  IF type = <<>> /\ serial = <<>> /\ asName = <<>> THEN Guess
           ELSE [module_type |-> type, serial_number |-> serial, as_name |-> asName,
                 copyright |-> FirstText(p, 4), module_name |-> name]

\* The guard asks for 12 bytes in the entry and 14 are read.
GetCpInfo(p) ==
  IF Len(p) >= 8 /\ Word(p, 1) = 305 /\ Word(p, 5) >= 12 /\ Word(p, 7) >= 1
       /\ Len(p) - 8 >= Word(p, 5)
  THEN Need(p, 22, <<Word(p, 11), Word(p, 13), Long(p, 15), Long(p, 19)>>)
  ELSE <<0, 0, 0, 0>>

\* Mutant: the length is never skipped.
SkipNothing(b) == b

\* skip_szl_entry_header: two bytes that look like a length are skipped.
SkipEntryHeader(b) == IF Len(b) >= 2 /\ b[1] = 0 /\ b[2] \in 1..200 THEN From(b, 3) ELSE b

\* Three words are taken for block length, identification and index.
ReadModuleList(p) ==
  IF Len(p) < 6 THEN <<>>
  ELSE LET b == SkipEntryHeader(From(p, 7)) IN [k \in 1..(Len(b) \div 2) |-> Word(b, 2 * k - 1)]

Upper(s) == [i \in DOMAIN s |-> IF s[i] \in 97..122 THEN s[i] - 32 ELSE s[i]]
Password == <<80, 65, 83, 83, 87, 79, 82, 68>>

GetProtection(p) ==
  IF Len(p) < 14 THEN Unexpected
  ELSE LET b == SkipEntryHeader(From(p, 7))
       IN  Need(b, 8, [schemes |-> <<Word(b, 1), Word(b, 3), Word(b, 5)>>, level |-> Word(b, 7),
                       password_set |-> Len(b) >= 16 /\ Upper(Trim(SubSeq(b, 9, 16))) = Password])

-----------------------------------------------------------------------------
(* Block lists and block information, client side                          *)

ListBlocksRequest == <<0, 1, 18, 4, 17, 67, 1, 0, 10, 0, 0, 0>>

\* Mutant: the length in the envelope is trusted.
ListBlocksTrusting(reply) ==
  LET data == From(reply.body, reply.params + 1)
  IN  IF Len(reply.body) < reply.params THEN Unexpected
      ELSE IF Len(data) < 4 \/ Word(data, 3) < 28 THEN <<>>
      ELSE Need(data, 32, [k \in 1..7 |-> [type |-> data[4 * k + 2], count |-> Word(data, 4 * k + 3)]])

\* Seven counts; total_count is their sum.
ListBlocks(reply) ==
  LET data == From(reply.body, reply.params + 1)
  IN  IF Len(reply.body) < reply.params THEN Unexpected
      ELSE IF Len(data) < 4 \/ Word(data, 3) < 28 \/ Len(data) < 32 THEN <<>>
      ELSE [k \in 1..7 |-> [type |-> data[4 * k + 2], count |-> Word(data, 4 * k + 3)]]

Digits(n) ==
  <<48 + n \div 10000, 48 + (n % 10000) \div 1000, 48 + (n % 1000) \div 100,
    48 + (n % 100) \div 10, 48 + (n % 10)>>
BlockInfoRequest(type, number) ==
  <<0, 1, 18, 4, 17, 67, 3, 0, 255, 9, 0, 8, 48, type>> \o Digits(number) \o <<65>>

BlockInfoPayload(reply) ==
  LET params == SubSeq(reply.body, 1, reply.params)
      data == From(reply.body, reply.params + 1)
  IN  IF Len(reply.body) < reply.params THEN Unexpected
      ELSE IF Len(params) >= 12 /\ Word(params, 11) # 0 THEN PlcError
      ELSE IF Len(data) < 4 THEN Unexpected
      ELSE IF data[1] # 255 THEN PlcError
      ELSE From(data, 5)

Field(b, i, n) == Text(SubSeq(b, i, Min({i + n - 1, Len(b)})))

\* The guard asks for 40 bytes and the fixed part has 42; what follows may be
\* cut short.
GetBlockInfo(p, number) ==
  IF Len(p) < 40 THEN Unexpected
  ELSE Need(p, 42,
         [block_type |-> p[2], block_number |-> number, language |-> p[11], flags |-> p[10],
          size |-> Min({Long(p, 15), 65535}), size_ram |-> Word(p, 35), mc7_size |-> Word(p, 41),
          local_data |-> Word(p, 39),
          checksum |-> IF Len(p) >= 70 THEN Word(p, 69) ELSE 0,
          version |-> IF Len(p) >= 67 THEN p[67] ELSE 0,
          texts |-> <<Field(p, 43, 8), Field(p, 51, 8), Field(p, 59, 8)>>])

\* The same from an uploaded block: a header of 36 bytes and a footer of 48.
ParseBlockInfo(b) ==
  IF Len(b) < 84 THEN Unexpected
  ELSE IF Long(b, 9) # Len(b) \/ Word(b, 35) + 36 >= Len(b) THEN Unexpected
  ELSE LET footer == From(b, Len(b) - 47)
       IN  [block_type |-> b[6], block_number |-> Word(b, 7), language |-> b[5], flags |-> b[4],
            size |-> Min({Len(b), 65535}), size_ram |-> Word(b, 29), mc7_size |-> Word(b, 35),
            local_data |-> Word(b, 33), checksum |-> Word(footer, 45), version |-> 0,
            texts |-> <<Field(footer, 21, 8), Field(footer, 29, 8), Field(footer, 37, 8)>>]

CopyRamToRom == <<0, 1, 18, 4, 67, 68, 1, 0>>
Compress == <<0, 1, 18, 4, 66, 68, 1, 0>>

-----------------------------------------------------------------------------
(* The server                                                              *)

Reply(type, params, data, body) ==
  [type |-> type, error |-> 0, params |-> params, data |-> data, body |-> body]

SzlBlock(id, index, size, entries) ==
  U16(id) \o U16(index) \o U16(size)
    \o U16(IF size > 0 THEN Len(entries) \div size ELSE 0) \o entries

\* The texts of the simulated PLC, one byte each.
SimPlc == <<83>>
SimOrder == <<79>>
SimType == <<84>>
SimCopyright == <<67>>
SimSerial == <<78>>

SpacePadded(index, text) == U16(index) \o text \o Fill(32 - Len(text), 32)
OrderEntry == U16(1) \o SimOrder \o Fill(20 - Len(SimOrder), 32) \o <<0, 1, 0, 0, 0, 0>>
CpuEntries ==
  SpacePadded(1, SimPlc) \o SpacePadded(2, SimType) \o SpacePadded(3, SimPlc)
    \o SpacePadded(4, SimCopyright) \o SpacePadded(5, SimSerial) \o SpacePadded(7, SimType)
    \o SpacePadded(8, SimPlc)

BuildSzlResponse(id) ==
  CASE id = 17   -> SzlBlock(id, 0, 28, OrderEntry)
    [] id = 50   -> SzlBlock(id, 0, 16, <<3, 0, 3, 0, 3, 0>> \o Fill(10, 0))
    [] id = 28   -> SzlBlock(id, 0, 34, CpuEntries)
    [] id = 305  -> SzlBlock(id, 1, 14, <<0, 1, 1, 224, 0, 32, 0, 2, 220, 108, 0, 0, 97, 168>>)
    [] id = 1060 -> SzlBlock(id, 0, 12, <<0, 0, 0, 8>> \o Fill(8, 0))
    [] OTHER     -> SzlBlock(id, 0, 0, <<>>)

\* Twelve bytes of the request are echoed as parameters, its envelope with them.
HandleSzl(req) ==
  LET table == BuildSzlResponse(IF Len(req) >= 14 THEN Word(req, 13) ELSE 0)
  IN  Reply("ack", 12, Len(table),
            (IF Len(req) >= 12 THEN SubSeq(req, 1, 12) ELSE Fill(12, 0))
              \o <<255, 4>> \o U16(Len(table)) \o table)

SetsClock(req) == Len(req) >= 7 /\ req[7] = 2

\* The clock is split over parameters and data, as a PLC does.
HandleClock(req, clock) ==
  IF SetsClock(req) THEN Reply("ack", 0, 0, <<>>)
  ELSE Reply("userdata", 12, 4, <<0, 1, 18, 8, 18, 135, 1, 0>> \o clock)

IsRequest(req) == Len(req) >= 5 /\ req[5] = 17
IsClock(req) == Len(req) >= 6 /\ req[6] % 16 = 7

HandleUserData(req, clock) ==
  IF ~IsRequest(req) THEN Reply("ack", 0, 0, <<>>)
  ELSE IF IsClock(req) THEN HandleClock(req, clock)
  ELSE HandleSzl(req)

\* store.set_clock: the store's clock after the request.
ClockAfter(req, clock) ==
  IF IsRequest(req) /\ IsClock(req) /\ SetsClock(req) /\ Len(req) >= 20
  THEN SubSeq(req, 13, 20) ELSE clock
=============================================================================
