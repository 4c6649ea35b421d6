---------------------------- MODULE MCDataStore ----------------------------
(***************************************************************************)
(* Two threads on one byte of one area, with one callback to register.     *)
(***************************************************************************)
EXTENDS DataStore

CONSTANTS t1, t2, db, cb1
=============================================================================
