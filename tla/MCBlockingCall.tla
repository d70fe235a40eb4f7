---------------------------- MODULE MCBlockingCall ----------------------------
(* Values for TLC: no timeout, non-blocking, and a timeout that two turns   *)
(* of the loop can fall into.                                              *)
EXTENDS BlockingCall

MCTimeouts == {-1, 0, 2}
=============================================================================
