-------------------------------- MODULE Netif --------------------------------
(***************************************************************************)
(* LWIPInterface as a network interface: connect starts the tcpip thread,   *)
(* adds the interface and waits for DHCP; the tcpip thread reports leases   *)
(* through netif_status_irq.  lwIP's DHCP client is external: it gets a     *)
(* lease, may lose it and get another.                                     *)
(***************************************************************************)
EXTENDS Naturals, FiniteSets

CONSTANTS
  Addresses,    \* what a DHCP server may lease
  MaxConnects,  \* bound: calls of connect
  MaxLeases,    \* bound: leases
  NULL

ASSUME NetifAssumption == NULL \notin Addresses /\ MaxConnects \in Nat /\ MaxLeases \in Nat

VARIABLES
  \* the application's thread
  app,           \* where it is in connect, or "idle"
  \* the semaphores
  tcpip_inited,
  netif_up,
  \* the tcpip thread
  tcpip,         \* "idle", or where it is in netif_status_irq
  booting,       \* tcpip_init was called, its callback has not run
  \* the interface
  netif,         \* [callback, up, ip_addr, dhcp]
  ip_addr,       \* the text get_ip_address returns; NULL is the empty text
  \* history
  connects, leases, \* how many there were
  mine,          \* the addresses leased since connect was called
  leftover       \* connect found a token, a report under way or an old client

vars == <<app, tcpip_inited, netif_up, tcpip, booting, netif, ip_addr,
          connects, leases, mine, leftover>>

(* What memset and netif_add leave: no address, no DHCP client.             *)
NewNetif == [callback |-> FALSE, up |-> FALSE, ip_addr |-> NULL, dhcp |-> FALSE]

Init ==
  /\ app = "idle" /\ tcpip_inited = 0 /\ netif_up = 0
  /\ tcpip = "idle" /\ booting = FALSE
  /\ netif = NewNetif /\ ip_addr = NULL
  /\ connects = 0 /\ leases = 0 /\ mine = {} /\ leftover = FALSE

-----------------------------------------------------------------------------
(* The application.                                                        *)

Reporting == tcpip # "idle"

must_init_once == connects = 0
must_init == TRUE

(* connect, up to tcpip_inited.wait(), which has no timeout.                *)
connect ==
  /\ app = "idle" /\ connects < MaxConnects
  /\ app' = "initing" /\ booting' = (booting \/ must_init)
  /\ connects' = connects + 1 /\ mine' = {}
  /\ leftover' = (netif_up > 0 \/ Reporting \/ netif.dhcp)
  /\ UNCHANGED <<tcpip_inited, netif_up, tcpip, netif, ip_addr, leases>>

(* memset and netif_add; nobody tells the DHCP client of an interface that  *)
(* was connected before.                                                   *)
init_netif ==
  /\ app = "initing" /\ tcpip_inited > 0
  /\ tcpip_inited' = tcpip_inited - 1 /\ netif' = NewNetif
  /\ app' = "added"
  /\ UNCHANGED <<netif_up, tcpip, booting, ip_addr, connects, leases, mine, leftover>>

status_callback_missing == FALSE
status_callback == TRUE

init_netif_callbacks ==
  /\ app = "added"
  /\ netif' = [netif EXCEPT !.callback = status_callback]
  /\ app' = "starting"
  /\ UNCHANGED <<tcpip_inited, netif_up, tcpip, booting, ip_addr, connects, leases, mine,
                 leftover>>

dhcp_start ==
  /\ app = "starting"
  /\ netif' = [netif EXCEPT !.dhcp = TRUE]
  /\ app' = "waiting"
  /\ UNCHANGED <<tcpip_inited, netif_up, tcpip, booting, ip_addr, connects, leases, mine,
                 leftover>>

(* netif_up.wait(1500): the tokens there were, or 0 after the time.  It is  *)
(* never negative, so connect returns 0 on each.                           *)
connect_return ==
  /\ app = "waiting"
  /\ \/ netif_up > 0 /\ netif_up' = netif_up - 1
     \/ netif_up = 0 /\ UNCHANGED netif_up
  /\ app' = "idle"
  /\ UNCHANGED <<tcpip_inited, tcpip, booting, netif, ip_addr, connects, leases, mine, leftover>>

(* dhcp_release takes the interface down and its address away, and          *)
(* dhcp_stop drops the client.                                             *)
disconnect ==
  /\ app = "idle" /\ netif.dhcp
  /\ netif' = [netif EXCEPT !.up = FALSE, !.ip_addr = NULL, !.dhcp = FALSE]
  /\ UNCHANGED <<app, tcpip_inited, netif_up, tcpip, booting, ip_addr, connects, leases, mine, leftover>>

get_ip_address == ip_addr

-----------------------------------------------------------------------------
(* The tcpip thread.                                                       *)

tcpip_init_irq ==
  /\ booting /\ booting' = FALSE
  /\ tcpip_inited' = tcpip_inited + 1
  /\ UNCHANGED <<app, netif_up, tcpip, netif, ip_addr, connects, leases, mine, leftover>>

(* A lease brings the interface up, which calls netif_status_irq.           *)
dhcp_bind ==
  \E a \in Addresses :
    /\ tcpip = "idle" /\ netif.dhcp /\ ~netif.up /\ leases < MaxLeases
    /\ netif' = [netif EXCEPT !.up = TRUE, !.ip_addr = a]
    /\ leases' = leases + 1 /\ mine' = mine \cup {a}
    /\ tcpip' = IF netif.callback THEN "status" ELSE "idle"
    /\ UNCHANGED <<app, tcpip_inited, netif_up, booting, ip_addr, connects, leftover>>

(* Refused or run out: lwIP reports that as well.                          *)
dhcp_lost ==
  /\ tcpip = "idle" /\ netif.up
  /\ netif' = [netif EXCEPT !.up = FALSE, !.ip_addr = NULL]
  /\ tcpip' = IF netif.callback THEN "status" ELSE "idle"
  /\ UNCHANGED <<app, tcpip_inited, netif_up, booting, ip_addr, connects, leases, mine, leftover>>

netif_is_up_untested(n) == TRUE
netif_is_up(n) == n.up

(* netif_status_irq: the test, the copy and the release.                   *)
netif_status_irq ==
  /\ tcpip = "status"
  /\ tcpip' = IF netif_is_up(netif) THEN "copy" ELSE "idle"
  /\ UNCHANGED <<app, tcpip_inited, netif_up, booting, netif, ip_addr, connects, leases, mine,
                 leftover>>

status_copy ==
  /\ tcpip = "copy" /\ tcpip' = "release"
  /\ ip_addr' = netif.ip_addr
  /\ UNCHANGED <<app, tcpip_inited, netif_up, booting, netif, connects, leases, mine, leftover>>

released_twice(tokens) == tokens + 2
released(tokens) == tokens + 1

status_release ==
  /\ tcpip = "release" /\ tcpip' = "idle"
  /\ netif_up' = released(netif_up)
  /\ UNCHANGED <<app, tcpip_inited, booting, netif, ip_addr, connects, leases, mine, leftover>>

-----------------------------------------------------------------------------
Tcpip == tcpip_init_irq \/ netif_status_irq \/ status_copy \/ status_release
Connecting == init_netif \/ init_netif_callbacks \/ dhcp_start \/ connect_return

Next == connect \/ disconnect \/ dhcp_bind \/ dhcp_lost \/ Tcpip \/ Connecting

(* Both threads run and time passes; no server has to give a lease.         *)
Fairness == WF_vars(Tcpip) /\ WF_vars(Connecting)

Spec == Init /\ [][Next]_vars /\ Fairness

-----------------------------------------------------------------------------
(* Properties.                                                             *)

TypeOK ==
  /\ app \in {"idle", "initing", "added", "starting", "waiting"}
  /\ tcpip_inited \in 0..1 /\ netif_up \in 0..leases
  /\ tcpip \in {"idle", "status", "copy", "release"} /\ booting \in BOOLEAN
  /\ netif \in [callback : BOOLEAN, up : BOOLEAN, ip_addr : Addresses \cup {NULL}, dhcp : BOOLEAN]
  /\ ip_addr \in Addresses \cup {NULL}
  /\ connects \in 0..MaxConnects /\ leases \in 0..MaxLeases
  /\ mine \subseteq Addresses /\ leftover \in BOOLEAN

(* While the interface is up, and its state is not just being reported, the *)
(* text that get_ip_address returns is its address, however often leases    *)
(* are lost and the interface is connected again (netif_status_irq).        *)
AddressIsCurrent == (netif.up /\ ~Reporting) => get_ip_address = netif.ip_addr

(* A connect that returns on a token, when it found none, no report under   *)
(* way and no client that a disconnect had not stopped, had a lease, and    *)
(* get_ip_address returns one of its addresses: the text is copied before   *)
(* the token is released (connect).                                        *)
ConnectedHasAddress ==
  [][(netif_up' < netif_up /\ ~leftover) => get_ip_address \in mine]_vars

(* connect returns: tcpip_inited is released once for every wait, and       *)
(* netif_up.wait has a timeout (connect).                                  *)
ConnectReturns == app # "idle" ~> app = "idle"
=============================================================================
