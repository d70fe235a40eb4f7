------------------------------- MODULE MCNetif -------------------------------
(* The instance of Netif: the .cfg gives every constant.                    *)
EXTENDS Netif
=============================================================================
