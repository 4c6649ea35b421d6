----------------------------- MODULE MCPartner ------------------------------
(***************************************************************************)
(* Messages of no, one and two slices (two bytes fit in a slice), so that  *)
(* a boundary falls inside and at the end of a message.                    *)
(***************************************************************************)
EXTENDS Partner

CONSTANTS a, b, x, y, z, len

MCMessage == {[rid |-> 1, data |-> <<x, y, z>>], [rid |-> 2, data |-> <<y, z>>],
              [rid |-> 3, data |-> <<>>]}
MCLengthBytes == <<len, len>>
=============================================================================
