------------------------------ MODULE MCSending ------------------------------
(* The instances of Sending have no constants of their own.                *)
EXTENDS Sending
=============================================================================
