---------------------------- MODULE MCSocketObjects ----------------------------
(* Objects of a kind, handles and callbacks are interchangeable.            *)
EXTENDS SocketObjects, TLC

Symmetry == Permutations(Sockets) \cup Permutations(Handles) \cup Permutations(Callbacks)
=============================================================================
