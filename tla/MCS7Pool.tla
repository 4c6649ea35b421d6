------------------------------ MODULE MCS7Pool ------------------------------
(* S7Pool with four tasks on a pool of two: two tasks can queue at once,   *)
(* and there is one more connection identity than max_size, so that the    *)
(* bound, not the supply of identities, is what limits the pool.           *)
EXTENDS S7Pool
=============================================================================
