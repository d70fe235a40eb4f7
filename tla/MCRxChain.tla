------------------------------ MODULE MCRxChain ------------------------------
(* Instances of RxChain and RxQueue small enough for TLC.                  *)
EXTENDS RxQueue

(* TCP: segments of one or two pbufs.                                      *)
TcpPackets == {<<1>>, <<2>>, <<1, 3>>}

(* UDP: also an empty datagram, and one whose first pbuf holds no payload. *)
UdpPackets == {<<0>>, <<2>>, <<1, 3>>, <<0, 1>>}
=============================================================================
