----------------------------- MODULE MCGateway ------------------------------
(***************************************************************************)
(* Two PLCs with a data block of two bytes and one marker byte.            *)
(***************************************************************************)
EXTENDS Gateway, TLC

CONSTANTS p1, p2

MCCells == {<<"DB", 1, 0>>, <<"DB", 1, 1>>, <<"Marker", 0, 0>>}

Db(type, off, bit, name, writable) ==
  [area |-> "DB", db |-> 1, type |-> type, off |-> off, bit |-> bit, name |-> name,
   writable |-> writable]
Marker(type, off, name) ==
  [area |-> "M", db |-> 0, type |-> type, off |-> off, bit |-> 0, name |-> name,
   writable |-> TRUE]
Index(area, off, name) == [Marker("", off, name) EXCEPT !.area = area]

Commands(Ns, Vs) == {[name |-> n, variant |-> v] : n \in Ns, v \in Vs}

\* One PLC or two, some of them weak.
One(tags, commands, weak) ==
  [order |-> <<p1>>, tags |-> (p1 :> tags) @@ (p2 :> <<>>),
   commands |-> (p1 :> commands) @@ (p2 :> {}), weak |-> weak]
Two(s, t, weak) ==
  [order |-> <<p1, p2>>, tags |-> (p1 :> s) @@ (p2 :> t),
   commands |-> [p \in {p1, p2} |-> {}], weak |-> weak]

\* A bit; two bytes, one of them not to be written; a word whose offset is no
\* number, hence 0; two PLCs that share a name, with a timer, which is skipped; a
\* marker, which is looked for in data block 0; malformed tags.
MCConfigs ==
  {One(<<Db("", 0, 3, "a", TRUE)>>,
       Commands({"a"}, {<<"Bit", TRUE>>, <<"Word", <<8, 8>>>>}), {p1}),
   One(<<Db("BYTE", 1, 0, "b", FALSE), Db("BYTE", 0, 0, "a", TRUE)>>,
       Commands({"b"}, {<<"Byte", <<8>>>>}), {p1}),
   One(<<Db("WORD", Junk, 0, "a", TRUE)>>,
       Commands({"a"}, {<<"Word", <<8, 0>>>>}) \cup Commands({"c"}, {<<"Byte", <<8>>>>}), {}),
   Two(<<Db("BYTE", 0, 0, "a", TRUE)>>, <<Index("T", 1, "b"), Db("BYTE", 0, 0, "a", TRUE)>>, {}),
   Two(<<Db("BYTE", 1, 0, "b", FALSE)>>, <<Marker("B", 0, "a")>>, {p2}),
   One(<<Db("", 0, 8, "a", TRUE)>>, {}, {}),
   One(<<Marker("X", 0, "a"), Index("C", Junk, "b")>>, {}, {})}
=============================================================================
