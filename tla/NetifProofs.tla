----------------------------- MODULE NetifProofs -----------------------------
(* The safety properties of Netif, for any addresses, connects and leases.  *)
EXTENDS Netif, TLAPS

-----------------------------------------------------------------------------
(* The inductive invariant.                                                *)

(* The connect that waits for tcpip_inited has one token or one callback to *)
(* come, and nobody else has any.                                          *)
InitsOnce ==
  tcpip_inited + (IF booting THEN 1 ELSE 0) = IF app = "initing" THEN 1 ELSE 0

(* The tokens of netif_up, and the one a report will release, stand for a   *)
(* lease each.                                                             *)
Counts ==
  /\ InitsOnce
  /\ netif_up + (IF tcpip \in {"copy", "release"} \/ (tcpip = "status" /\ netif.up) THEN 1 ELSE 0)
       <= leases

(* No DHCP client runs without the status callback, no lease without a      *)
(* client.                                                                 *)
Callbacks ==
  /\ netif.dhcp \/ app = "starting" => netif.callback
  /\ netif.up => netif.dhcp

(* The text is that of the lease once it was copied.                        *)
Copied == netif.up /\ tcpip \in {"idle", "release"} => ip_addr = netif.ip_addr

(* A connect that found nothing left over is the first to start a client,   *)
(* and what is reported from there on are its own leases.                  *)
Fresh ==
  ~leftover =>
    /\ app \in {"initing", "added", "starting"} =>
         tcpip = "idle" /\ netif_up = 0 /\ ~netif.dhcp
    /\ app = "waiting" =>
         /\ tcpip = "copy" => netif.up
         /\ netif.up => netif.ip_addr \in mine
         /\ netif_up > 0 \/ tcpip = "release" => ip_addr \in mine

IInv == TypeOK /\ Counts /\ Callbacks /\ Copied /\ Fresh

-----------------------------------------------------------------------------
(* The initial state satisfies the invariant.                                *)
LEMMA InitIInv == Init => IInv
<1> SUFFICES ASSUME Init PROVE IInv
  OBVIOUS
<1>1. NewNetif \in [callback : BOOLEAN, up : BOOLEAN, ip_addr : Addresses \cup {NULL},
                    dhcp : BOOLEAN]
  BY DEF NewNetif
<1>2. TypeOK
  <2>1. booting \in BOOLEAN /\ leftover \in BOOLEAN
    BY DEF Init
  <2>2. tcpip_inited \in 0..1 /\ netif_up \in 0..leases
    BY NetifAssumption DEF Init
  <2>3. connects \in 0..MaxConnects /\ leases \in 0..MaxLeases
    BY NetifAssumption DEF Init
  <2> QED
    BY <1>1, <2>1, <2>2, <2>3 DEF Init, TypeOK
<1>3. Counts /\ Callbacks /\ Copied /\ Fresh
  BY DEF Init, Counts, InitsOnce, Callbacks, Copied, Fresh, NewNetif
<1> QED
  BY <1>2, <1>3 DEF IInv

(* A connect that finds nothing left over starts from an idle interface.    *)
LEMMA ConnectStep == ASSUME IInv, connect PROVE IInv'
<1> USE NetifAssumption DEF IInv, TypeOK, connect
<1>1. TypeOK'
  <2>1. booting' \in BOOLEAN /\ leftover' \in BOOLEAN
    OBVIOUS
  <2>2. connects' \in 0..MaxConnects
    OBVIOUS
  <2> QED
    BY <2>1, <2>2
<1>2. Counts'
  <2>1. tcpip_inited = 0 /\ ~booting
    BY DEF Counts, InitsOnce
  <2>2. app' = "initing" /\ booting' = TRUE
    BY DEF must_init
  <2> QED
    BY <2>1, <2>2 DEF Counts, InitsOnce
<1>3. Callbacks'
  BY DEF Callbacks
<1>4. Copied'
  BY DEF Copied
<1>5. Fresh'
  <2>1. SUFFICES ASSUME ~leftover' PROVE tcpip' = "idle" /\ netif_up' = 0 /\ ~netif'.dhcp
    BY <2>1 DEF Fresh
  <2>2. ~(netif_up > 0) /\ ~Reporting /\ ~netif.dhcp
    BY <2>1, Zenon
  <2>3. netif_up = 0
    BY <2>2
  <2> QED
    BY <2>2, <2>3 DEF Reporting
<1> QED
  BY <1>1, <1>2, <1>3, <1>4, <1>5

(* netif_add gives a new interface, without a callback.                     *)
LEMMA InitNetifStep == ASSUME IInv, init_netif PROVE IInv'
<1> USE NetifAssumption DEF IInv, TypeOK, init_netif, NewNetif
<1>1. TypeOK'
  OBVIOUS
<1>2. Counts'
  BY DEF Counts, InitsOnce
<1>3. Callbacks'
  BY DEF Callbacks
<1>4. Copied'
  BY DEF Copied
<1>5. Fresh'
  BY DEF Fresh
<1> QED
  BY <1>1, <1>2, <1>3, <1>4, <1>5

(* From here on every change of the interface is reported.                  *)
LEMMA InitCallbacksStep == ASSUME IInv, init_netif_callbacks PROVE IInv'
<1> USE NetifAssumption DEF IInv, TypeOK, init_netif_callbacks, status_callback
<1>1. TypeOK'
  OBVIOUS
<1>2. Counts'
  BY DEF Counts, InitsOnce
<1>3. Callbacks'
  BY DEF Callbacks
<1>4. Copied'
  BY DEF Copied
<1>5. Fresh'
  BY DEF Fresh
<1> QED
  BY <1>1, <1>2, <1>3, <1>4, <1>5

(* dhcp_start comes after the callbacks.                                    *)
LEMMA DhcpStartStep == ASSUME IInv, dhcp_start PROVE IInv'
<1> USE NetifAssumption DEF IInv, TypeOK, dhcp_start
<1>1. TypeOK'
  OBVIOUS
<1>2. Counts'
  BY DEF Counts, InitsOnce
<1>3. Callbacks'
  BY DEF Callbacks
<1>4. Copied'
  BY DEF Copied
<1>5. Fresh'
  BY DEF Callbacks, Fresh
<1> QED
  BY <1>1, <1>2, <1>3, <1>4, <1>5

(* The wait ends, by a token or after 15 s.                                 *)
LEMMA ConnectReturnStep == ASSUME IInv, connect_return PROVE IInv'
<1> USE NetifAssumption DEF IInv, TypeOK, connect_return
<1>1. TypeOK'
  OBVIOUS
<1>2. Counts'
  BY DEF Counts, InitsOnce
<1>3. Callbacks'
  BY DEF Callbacks
<1>4. Copied'
  BY DEF Copied
<1>5. Fresh'
  BY DEF Fresh
<1> QED
  BY <1>1, <1>2, <1>3, <1>4, <1>5

(* dhcp_release and dhcp_stop; the text is kept.                            *)
LEMMA DisconnectStep == ASSUME IInv, disconnect PROVE IInv'
<1> USE NetifAssumption DEF IInv, TypeOK, disconnect
<1>1. TypeOK'
  OBVIOUS
<1>2. Counts'
  BY DEF Counts, InitsOnce
<1>3. Callbacks'
  BY DEF Callbacks
<1>4. Copied'
  BY DEF Copied
<1>5. Fresh'
  BY DEF Fresh
<1> QED
  BY <1>1, <1>2, <1>3, <1>4, <1>5

(* tcpip_init_irq releases one token for every connect that waits for it.   *)
LEMMA TcpipInitStep == ASSUME IInv, tcpip_init_irq PROVE IInv'
<1> USE NetifAssumption DEF IInv, TypeOK, tcpip_init_irq
<1>1. TypeOK'
  <2>1. tcpip_inited = 0
    BY DEF Counts, InitsOnce
  <2>2. tcpip_inited' \in 0..1
    BY <2>1
  <2>3. booting' \in BOOLEAN
    OBVIOUS
  <2> QED
    BY <2>2, <2>3
<1>2. Counts'
  BY DEF Counts, InitsOnce
<1>3. Callbacks'
  BY DEF Callbacks
<1>4. Copied'
  BY DEF Copied
<1>5. Fresh'
  BY DEF Fresh
<1> QED
  BY <1>1, <1>2, <1>3, <1>4, <1>5

(* A lease is reported at once.                                             *)
LEMMA DhcpBindStep == ASSUME IInv, dhcp_bind PROVE IInv'
<1> USE NetifAssumption DEF IInv, TypeOK, dhcp_bind
<1>1. TypeOK'
  <2>1. PICK a \in Addresses :
          netif' = [netif EXCEPT !.up = TRUE, !.ip_addr = a] /\ mine' = mine \cup {a}
    OBVIOUS
  <2>2. netif' \in [callback : BOOLEAN, up : BOOLEAN, ip_addr : Addresses \cup {NULL},
                    dhcp : BOOLEAN]
    BY <2>1
  <2> QED
    BY <2>1, <2>2
<1>2. Counts'
  BY DEF Counts, InitsOnce
<1>3. Callbacks'
  BY DEF Callbacks
<1>4. Copied'
  BY DEF Callbacks, Copied
<1>5. Fresh'
  BY DEF Fresh
<1> QED
  BY <1>1, <1>2, <1>3, <1>4, <1>5

(* A lease that ends takes the interface down.                              *)
LEMMA DhcpLostStep == ASSUME IInv, dhcp_lost PROVE IInv'
<1> USE NetifAssumption DEF IInv, TypeOK, dhcp_lost
<1>1. TypeOK'
  OBVIOUS
<1>2. Counts'
  BY DEF Counts, InitsOnce
<1>3. Callbacks'
  BY DEF Callbacks
<1>4. Copied'
  BY DEF Copied
<1>5. Fresh'
  BY DEF Callbacks, Fresh
<1> QED
  BY <1>1, <1>2, <1>3, <1>4, <1>5

(* netif_status_irq looks at the interface, which is that of the report.    *)
LEMMA StatusIrqStep == ASSUME IInv, netif_status_irq PROVE IInv'
<1> USE NetifAssumption DEF IInv, TypeOK, netif_status_irq, netif_is_up
<1>1. TypeOK'
  OBVIOUS
<1>2. Counts'
  BY DEF Counts, InitsOnce
<1>3. Callbacks'
  BY DEF Callbacks
<1>4. Copied'
  BY DEF Copied
<1>5. Fresh'
  BY DEF Fresh
<1> QED
  BY <1>1, <1>2, <1>3, <1>4, <1>5

(* inet_ntoa_r writes the text of the lease.                                *)
LEMMA StatusCopyStep == ASSUME IInv, status_copy PROVE IInv'
<1> USE NetifAssumption DEF IInv, TypeOK, status_copy
<1>1. TypeOK'
  OBVIOUS
<1>2. Counts'
  BY DEF Counts, InitsOnce
<1>3. Callbacks'
  BY DEF Callbacks
<1>4. Copied'
  BY DEF Copied
<1>5. Fresh'
  BY DEF Fresh
<1> QED
  BY <1>1, <1>2, <1>3, <1>4, <1>5

(* The token comes after the text.                                          *)
LEMMA StatusReleaseStep == ASSUME IInv, status_release PROVE IInv'
<1> USE NetifAssumption DEF IInv, TypeOK, status_release, released
<1>1. TypeOK'
  BY DEF Counts
<1>2. Counts'
  BY DEF Counts, InitsOnce
<1>3. Callbacks'
  BY DEF Callbacks
<1>4. Copied'
  BY DEF Copied
<1>5. Fresh'
  BY DEF Fresh
<1> QED
  BY <1>1, <1>2, <1>3, <1>4, <1>5

(* Every step preserves the invariant.                                       *)
LEMMA StepIInv == IInv /\ [Next]_vars => IInv'
<1> SUFFICES ASSUME IInv, [Next]_vars PROVE IInv'
  OBVIOUS
<1>1. CASE UNCHANGED vars
  BY <1>1 DEF vars, IInv, TypeOK, Counts, InitsOnce, Callbacks, Copied, Fresh
<1> QED
  BY <1>1, ConnectStep, InitNetifStep, InitCallbacksStep, DhcpStartStep,
     ConnectReturnStep, DisconnectStep, TcpipInitStep, DhcpBindStep, DhcpLostStep,
     StatusIrqStep, StatusCopyStep, StatusReleaseStep DEF Next, Tcpip, Connecting

(* The invariant holds in every reachable state.                            *)
LEMMA Invariance == Spec => []IInv
BY InitIInv, StepIInv, PTL DEF Spec

(* netif_up never holds more tokens than there were leases, and             *)
(* tcpip_inited never more than one (netif_status_irq, tcpip_init_irq).     *)
THEOREM TypeCorrect == Spec => []TypeOK
<1>1. IInv => TypeOK
  BY DEF IInv
<1> QED
  BY <1>1, Invariance, PTL

(* While the interface is up, get_ip_address returns its address, but for   *)
(* the time of the report (netif_status_irq).                               *)
THEOREM AddressIsCurrentHolds == Spec => []AddressIsCurrent
<1>1. IInv => AddressIsCurrent
  BY DEF IInv, Copied, AddressIsCurrent, Reporting, get_ip_address
<1> QED
  BY <1>1, Invariance, PTL

(* A connect that takes a token, and found nothing left over, had a lease    *)
(* whose address get_ip_address returns (connect).                          *)
THEOREM ConnectedHasAddressHolds == Spec => ConnectedHasAddress
<1>1. IInv /\ [Next]_vars => [(netif_up' < netif_up /\ ~leftover) => get_ip_address \in mine]_vars
  <2> SUFFICES ASSUME IInv, Next, netif_up' < netif_up, ~leftover PROVE get_ip_address \in mine
    OBVIOUS
  <2>1. connect_return
    <3>1. connect \/ disconnect \/ dhcp_bind \/ dhcp_lost => netif_up' = netif_up
      BY DEF connect, disconnect, dhcp_bind, dhcp_lost
    <3>2. Tcpip => netif_up' \in {netif_up, netif_up + 1}
      BY DEF Tcpip, tcpip_init_irq, netif_status_irq, status_copy, status_release,
         released
    <3>3. Connecting => netif_up' = netif_up \/ connect_return
      BY DEF Connecting, init_netif, init_netif_callbacks, dhcp_start
    <3>4. netif_up \in Nat
      BY DEF IInv, TypeOK
    <3> QED
      BY <3>1, <3>2, <3>3, <3>4 DEF Next
  <2>2. app = "waiting" /\ netif_up > 0
    BY <2>1 DEF connect_return
  <2> QED
    BY <2>2 DEF IInv, Fresh, get_ip_address
<1> QED
  BY <1>1, Invariance, PTL DEF Spec, ConnectedHasAddress

-----------------------------------------------------------------------------
(* What ConnectReturns rests on: the steps of connect that are left.        *)
Left ==
  CASE app = "initing" -> 4
    [] app = "added" -> 3
    [] app = "starting" -> 2
    [] app = "waiting" -> 1
    [] OTHER -> 0

(* Every step of connect brings its end nearer, the tcpip thread takes it   *)
(* no further away, and the one wait without a timeout has its token, or    *)
(* the callback that releases it is still to run: exactly one, and none is  *)
(* left for a later connect.                                               *)
ConnectNearsItsEnd ==
  /\ [](Left \in Nat /\ (Left = 0 <=> app = "idle"))
  /\ [][/\ Connecting => Left' < Left
        /\ Tcpip \/ dhcp_bind \/ dhcp_lost => Left' = Left]_vars
  /\ []InitsOnce

(* However often the interface is connected, and whatever DHCP does         *)
(* (connect, tcpip_init_irq).                                              *)
THEOREM ConnectsEnd == Spec => ConnectNearsItsEnd
<1>1. IInv => Left \in Nat /\ (Left = 0 <=> app = "idle")
  BY DEF IInv, TypeOK, Left
<1>2. Connecting => Left' < Left
  BY DEF Connecting, init_netif, init_netif_callbacks, dhcp_start, connect_return, Left
<1>3. Tcpip \/ dhcp_bind \/ dhcp_lost => Left' = Left
  BY DEF Tcpip, tcpip_init_irq, dhcp_bind, dhcp_lost, netif_status_irq, status_copy,
         status_release, Left
<1>4. [Next]_vars => [/\ Connecting => Left' < Left
                      /\ Tcpip \/ dhcp_bind \/ dhcp_lost => Left' = Left]_vars
  BY <1>2, <1>3
<1>5. IInv => InitsOnce
  BY DEF IInv, Counts
<1> QED
  BY <1>1, <1>4, <1>5, Invariance, PTL DEF Spec, ConnectNearsItsEnd
=============================================================================
