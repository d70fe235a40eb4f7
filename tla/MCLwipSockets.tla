----------------------------- MODULE MCLwipSockets -----------------------------
(* Cells and pcbs are interchangeable: the runs check invariants only.      *)
EXTENDS LwipSockets, TLC

Symmetry == Permutations(Cells) \cup Permutations(TcpPcbs)
=============================================================================
