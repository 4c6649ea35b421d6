---------------------------- MODULE MCS7Session ----------------------------
(* S7Session with two tasks, three requests and two reconnects: enough for a *)
(* request to be given up, its late answer to be taken by the next, a      *)
(* wrap-around of pdu_ref, and a reconnect that waits for a running        *)
(* operation.                                                              *)
EXTENDS S7Session
=============================================================================
