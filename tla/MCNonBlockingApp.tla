-------------------------- MODULE MCNonBlockingApp --------------------------
(* The instance of NonBlockingApp has no constants of its own.             *)
EXTENDS NonBlockingApp
=============================================================================
