------------------------------- MODULE MCPlus -------------------------------
(***************************************************************************)
(* Two tasks; lids with room for two offsets, and bit 1 of a data block    *)
(* always set: an offset and a block that are taken for others, and a      *)
(* block beyond that bit which is not; a u32 of five bits in groups of two. *)
(***************************************************************************)
EXTENDS PlusSession, TLC

CONSTANTS t1, t2

Var(db, offset, length) == [db |-> db, offset |-> offset, length |-> length]

MCCalls ==
  (t1 :> {"GetMultiVar"}) @@ (t2 :> {"SetMultiVar", "KeepAlive", "DeleteObject"})

\* Also one variable more than a count has room for, a value less than there are
\* variables, and a value too long for a frame.
MCSpecLists ==
  {<<>>, <<Var(0, 1, 2), Var(1, 2, 0)>>, <<Var(1, 1, 1), Var(2, 1, 1), Var(4, 0, 1)>>}
MCWriteLists ==
  {<< <<Var(1, 0, 1), Var(1, 1, 1)>>, << <<7>> >> >>,
   << <<Var(1, 0, 6)>>, << <<7, 7, 7, 7, 7, 7>> >> >>}
=============================================================================
