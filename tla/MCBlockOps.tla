---------------------------- MODULE MCBlockOps -----------------------------
(***************************************************************************)
(* Two tasks that share a client.  Blocks are shorter than a chunk, end    *)
(* with a part of one, or are beyond the limit of upload; one of them is   *)
(* sent without a data header, which its first byte may look like; lists   *)
(* take two pages and there is a type without blocks; a byte has two bits. *)
(***************************************************************************)
EXTENDS BlockOps, TLC

CONSTANTS r, w

\* Who calls what: readers against a writer, and pieces against pieces.
Together(R, W) == (r :> R) @@ (w :> W)
MCPrograms ==
  {Together({"upload", "full_upload", "list_blocks"}, {"download", "create_db", "delete_block"}),
   Together({"upload_all_blocks"}, {"download", "delete_block", "memory_reset"}),
   Together({"compare_blocks"}, {"download", "delete_block", "control"}),
   Together({"db_fill"}, {"db_fill", "create_db"}),
   Together({"force_bit"}, {"force_bit", "force_byte"})}
MCBlockTypes == <<"DB", "FC">>
MCKeys == {<<"DB", 1>>, <<"DB", 2>>}
MCContents == {<<0, 1>>, <<0, 2, 2, 2, 2>>, <<1, 1, 1, 1, 1, 1, 1, 1>>}
MCAtStart == {[k \in MCKeys |-> None], [k \in MCKeys |-> <<0, 2, 2, 2, 2>>]}
MCBare == {<<"DB", 2>>}
MCNewDbs == {<<0, 1>>}
MCLocals == {<< <<<<"DB", 1>>, <<0, 2, 2, 2, 2>>>>, <<<<"DB", 2>>, <<0, 1>>>> >>}
=============================================================================
