----------------------------- MODULE LwipSockets -----------------------------
(***************************************************************************)
(* The sockets of LWIPInterface and the pcbs lwIP keeps for them.          *)
(* socket_open allocates a struct lwip_socket (a cell of the heap) and a   *)
(* pcb from lwIP's pool, with the cell as the argument of its handlers.    *)
(* Cells and pcbs are used again once they are free.  Application threads  *)
(* call socket_open, socket_connect, socket_recv and socket_close, one     *)
(* thread to a socket; the tcpip thread runs the handlers and drops pcbs.  *)
(***************************************************************************)
CONSTANTS
  Cells,      \* blocks of memory that new and delete pass around
  TcpPcbs,    \* lwIP's pools
  UdpPcbs,
  NULL

Pcbs == TcpPcbs \cup UdpPcbs

ASSUME PoolsAssumption ==
  /\ TcpPcbs \cap UdpPcbs = {} /\ NULL \notin Cells \cup Pcbs

VARIABLES
  \* the cells
  heap,      \* those that are allocated
  handles,   \* those the application holds
  closing,   \* those in socket_close, not deleted yet
  proto,     \* s->proto
  pcb,       \* s->tcp and s->udp, a union
  rx,        \* s->rx_chain: the pcbs whose packets are in it
  sem,       \* s->sem: what has become of the semaphore
  \* the pcbs
  state,     \* "free" in the pool, else TCP's state; UDP is closed or bound
  arg,       \* the argument of the handlers
  unclosed,  \* pcbs that a tcp_close failed on
  \* history
  told,      \* sockets whose socket_connect returned 0
  late,      \* sockets whose socket_connect returned without an answer
  lost,      \* sockets whose pcb lwIP took or another socket closed
  stray,     \* sockets that a pcb of another socket wrote to
  fault      \* the first use of memory that is gone; it ends the model

cells == <<heap, handles, closing, proto>>
contents == <<pcb, rx, sem>>
pcbs == <<state, arg, unclosed>>
history == <<told, late, lost, stray>>
vars == <<cells, contents, pcbs, history, fault>>

States == {"free", "closed", "bound", "syn_sent", "established", "close_wait",
           "fin_wait", "closing", "last_ack", "time_wait"}

Init ==
  /\ heap = {} /\ handles = {} /\ closing = {}
  /\ proto = [c \in Cells |-> "tcp"] /\ pcb = [c \in Cells |-> NULL]
  /\ rx = [c \in Cells |-> {}] /\ sem = [c \in Cells |-> "none"]
  /\ state = [p \in Pcbs |-> "free"] /\ arg = [p \in Pcbs |-> NULL]
  /\ unclosed = {}
  /\ told = {} /\ late = {} /\ lost = {} /\ stray = {}
  /\ fault = "none"

Holders(p) == {c \in handles : pcb[c] = p}

-----------------------------------------------------------------------------
(* The application's calls.                                                *)

InState(pool, s) == {p \in pool : state[p] = s}

(* udp_new takes a free pcb; tcp_new, when there is none, one in TIME_WAIT. *)
new_pcb(pr) ==
  IF pr = "udp" THEN InState(UdpPcbs, "free")
  ELSE IF InState(TcpPcbs, "free") # {} THEN InState(TcpPcbs, "free")
  ELSE InState(TcpPcbs, "time_wait")

(* memset after new.                                                       *)
fresh_rx_kept(c) == rx[c]
fresh_rx(c) == {}

(* tcp_arg and udp_recv.                                                   *)
handler_arg_old(p, c) == IF arg[p] = NULL THEN c ELSE arg[p]
handler_arg(p, c) == c

(* Without a pcb the cell is not deleted.                                  *)
socket_open ==
  \E c \in Cells \ heap, pr \in {"tcp", "udp"} :
    /\ heap' = heap \cup {c}
    /\ proto' = [proto EXCEPT ![c] = pr]
    /\ rx' = [rx EXCEPT ![c] = fresh_rx(c)] /\ sem' = [sem EXCEPT ![c] = "none"]
    /\ \/ \E p \in new_pcb(pr) :
            /\ pcb' = [pcb EXCEPT ![c] = p] /\ handles' = handles \cup {c}
            /\ state' = [state EXCEPT ![p] = "closed"]
            /\ arg' = [arg EXCEPT ![p] = handler_arg(p, c)]
       \/ /\ new_pcb(pr) = {}
          /\ pcb' = [pcb EXCEPT ![c] = NULL]
          /\ UNCHANGED <<handles, state, arg>>
    /\ UNCHANGED <<closing, unclosed, history, fault>>

InConnect(c) == sem[c] \in {"waiting", "signalled"}

(* A socket whose thread is not inside socket_connect.                     *)
Ready == {c \in handles : ~InConnect(c)}
(* Every call but socket_open hands s->tcp or s->udp to lwIP.  What lwIP    *)
(* makes of one that is gone is not followed: the call is not made.        *)
Usable(c) == pcb[c] # NULL /\ state[pcb[c]] # "free"

(* Only a bound pcb receives datagrams.                                    *)
socket_bind ==
  \E c \in Ready :
    /\ proto[c] = "udp" /\ Usable(c)
    /\ state' = [state EXCEPT ![pcb[c]] = "bound"]
    /\ UNCHANGED <<cells, contents, arg, unclosed, history, fault>>

connect_sem_none(c) == sem[c]
connect_sem(c) == "waiting"

(* socket_connect up to its wait.  tcp_connect may refuse, which the code  *)
(* does not see.                                                           *)
socket_connect ==
  \E c \in Ready :
    /\ proto[c] = "tcp" /\ Usable(c)
    /\ sem' = [sem EXCEPT ![c] = connect_sem(c)]
    /\ \/ state[pcb[c]] = "closed" /\ state' = [state EXCEPT ![pcb[c]] = "syn_sent"]
       \/ UNCHANGED state
    /\ UNCHANGED <<cells, pcb, rx, arg, unclosed, history, fault>>

(* connected.wait(1500) < 0: never on a timeout, which is 0.               *)
wait_failed(c) == FALSE

(* The wait ends, by the semaphore or by its timeout, and the semaphore    *)
(* goes with the call's stack.                                             *)
connect_return ==
  \E c \in handles :
    /\ InConnect(c)
    /\ told' = IF wait_failed(c) THEN told ELSE told \cup {c}
    /\ late' = IF sem[c] = "waiting" THEN late \cup {c} ELSE late
    /\ sem' = [sem EXCEPT ![c] = "dead"]
    /\ UNCHANGED <<cells, pcb, rx, pcbs, lost, stray, fault>>

(* Reading empties the queue and calls tcp_recved on s->tcp.               *)
socket_recv ==
  \E c \in Ready :
    /\ rx[c] # {} /\ Usable(c)
    /\ rx' = [rx EXCEPT ![c] = {}]
    /\ UNCHANGED <<cells, pcb, sem, pcbs, history, fault>>

(* tcp_close: the states it may leave a pcb in.  Without memory for the    *)
(* FIN it fails and leaves the state as it is; unread data ends in a reset. *)
tcp_close(p) ==
  CASE state[p] \in {"closed", "syn_sent"} -> {"free"}
    [] state[p] = "established" -> {"fin_wait", "free", "established"}
    [] state[p] = "close_wait" -> {"last_ack", "free", "close_wait"}
    [] OTHER -> {state[p]}

(* udp_disconnect forgets the peer and keeps the pcb.                      *)
udp_disconnect(p) == {state[p]}

close_pcb_none(c) == {state[pcb[c]]}
close_pcb(c) == IF proto[c] = "udp" THEN udp_disconnect(pcb[c]) ELSE tcp_close(pcb[c])

(* Socket::close forgets the handle first.                                 *)
other_handles_all(c) == handles
other_handles(c) == handles \ {c}

socket_close ==
  \E c \in Ready :
    /\ Usable(c)
    /\ handles' = other_handles(c) /\ closing' = closing \cup {c}
    /\ \E s \in close_pcb(c) :
         /\ state' = [state EXCEPT ![pcb[c]] = s]
         /\ unclosed' = IF s \in {"established", "close_wait"}
                        THEN unclosed \cup {pcb[c]} ELSE unclosed \ {pcb[c]}
    /\ lost' = lost \cup (Holders(pcb[c]) \ {c})
    /\ UNCHANGED <<heap, proto, contents, arg, told, late, stray, fault>>

(* The rest of socket_close: the queue and the cell are given back.  What  *)
(* the cell held does not matter any more.                                 *)
socket_delete ==
  \E c \in closing :
    /\ rx' = [rx EXCEPT ![c] = {}]
    /\ pcb' = [pcb EXCEPT ![c] = NULL] /\ sem' = [sem EXCEPT ![c] = "none"]
    /\ heap' = heap \ {c} /\ closing' = closing \ {c}
    /\ told' = told \ {c} /\ late' = late \ {c}
    /\ lost' = lost \ {c} /\ stray' = stray \ {c}
    /\ UNCHANGED <<handles, proto, pcbs, fault>>

-----------------------------------------------------------------------------
(* The tcpip thread.                                                       *)

(* The handshake ends: tcp_connect_irq releases s->sem.                    *)
tcp_connect_irq ==
  \E p \in InState(TcpPcbs, "syn_sent") :
    /\ state' = [state EXCEPT ![p] = "established"]
    /\ LET c == arg[p] IN
         IF c \in heap /\ InConnect(c)
         THEN sem' = [sem EXCEPT ![c] = "signalled"] /\ UNCHANGED fault
         ELSE fault' = "semaphore" /\ UNCHANGED sem
    /\ UNCHANGED <<cells, pcb, rx, arg, unclosed, told, late, lost, stray>>

(* Another pcb's handler reached cell c.                                   *)
Strayed(c, p) == IF pcb[c] = p THEN stray ELSE stray \cup {c}

(* A packet is appended to s->rx_chain.  In a cell that was deleted this   *)
(* overwrites free memory.                                                 *)
recv_irq ==
  \E p \in (InState(TcpPcbs, "established") \ unclosed) \cup InState(UdpPcbs, "bound") :
    LET c == arg[p] IN
      /\ \/ rx' = [rx EXCEPT ![c] = @ \cup {p}] /\ UNCHANGED fault
         \/ c \notin heap /\ fault' = "cell" /\ UNCHANGED rx
      /\ stray' = IF c \in heap THEN Strayed(c, p) ELSE stray
      /\ UNCHANGED <<cells, pcb, sem, pcbs, told, late, lost>>

(* lwIP resets a connection on data that comes after tcp_close.            *)
data_after_close ==
  \E p \in InState(TcpPcbs, "established") \cap unclosed :
    /\ state' = [state EXCEPT ![p] = "free"] /\ unclosed' = unclosed \ {p}
    /\ UNCHANGED <<cells, contents, arg, history, fault>>

(* The states in which tcp_recv_irq, called for the peer's FIN, zeroes     *)
(* s->tcp.                                                                 *)
zeroing_all == {"close_wait", "time_wait"}
zeroing == {"time_wait"}

after_fin(p) ==
  CASE state[p] = "established" -> {"close_wait"}
    [] state[p] = "fin_wait" -> {"closing", "time_wait"}
    [] OTHER -> {}

fin_irq ==
  \E p \in TcpPcbs : \E s \in after_fin(p) :
    /\ state' = [state EXCEPT ![p] = s]
    /\ LET c == arg[p] IN
         IF s \notin zeroing THEN UNCHANGED <<pcb, stray, fault>>
         ELSE IF c \in heap
         THEN /\ pcb' = [pcb EXCEPT ![c] = NULL] /\ stray' = Strayed(c, p)
              /\ UNCHANGED fault
         ELSE (UNCHANGED fault \/ fault' = "cell") /\ UNCHANGED <<pcb, stray>>
    /\ UNCHANGED <<cells, rx, sem, arg, unclosed, told, late, lost>>

(* A closed connection ends.                                               *)
pcb_done ==
  \E p \in TcpPcbs :
    /\ state[p] \in {"closing", "last_ack", "time_wait"}
    /\ state' = [state EXCEPT ![p] = "free"]
    /\ UNCHANGED <<cells, contents, arg, unclosed, history, fault>>

(* A reset, or too many retransmissions: the pcb is gone, and no handler   *)
(* of the code is told.                                                    *)
pcb_drop ==
  \E p \in TcpPcbs :
    /\ state[p] \notin {"free", "closed", "time_wait"}
    /\ state' = [state EXCEPT ![p] = "free"]
    /\ unclosed' = unclosed \ {p} /\ lost' = lost \cup Holders(p)
    /\ UNCHANGED <<cells, contents, arg, told, late, stray, fault>>

-----------------------------------------------------------------------------
Next ==
  /\ fault = "none"
  /\ \/ socket_open \/ socket_bind \/ socket_connect \/ connect_return
     \/ socket_recv \/ socket_close \/ socket_delete
     \/ tcp_connect_irq \/ recv_irq \/ data_after_close \/ fin_irq
     \/ pcb_done \/ pcb_drop

Spec == Init /\ [][Next]_vars

-----------------------------------------------------------------------------
TypeOK ==
  /\ handles \cup closing \subseteq heap /\ heap \subseteq Cells
  /\ handles \cap closing = {}
  /\ proto \in [Cells -> {"tcp", "udp"}] /\ pcb \in [Cells -> Pcbs \cup {NULL}]
  /\ rx \in [Cells -> SUBSET Pcbs]
  /\ sem \in [Cells -> {"none", "waiting", "signalled", "dead"}]
  /\ state \in [Pcbs -> States] /\ arg \in [Pcbs -> Cells \cup {NULL}]
  /\ unclosed \subseteq TcpPcbs
  /\ told \cup late \cup lost \cup stray \subseteq Cells
  /\ fault \in {"none", "cell", "semaphore"}

(* An open socket has a pcb of its own, whose handlers find that socket,   *)
(* as long as lwIP did not drop the pcb and no handler of a closed socket  *)
(* wrote into the cell.                                                    *)
OwnPcb ==
  \A c \in handles \ (lost \cup stray) :
    /\ Usable(c) /\ arg[pcb[c]] = c
    /\ \A d \in handles \ {c} : pcb[d] = pcb[c] => d \in lost

(* A socket's queue holds packets of its own pcb only, under the same      *)
(* condition.                                                              *)
OwnData == \A c \in handles \ (lost \cup stray) : rx[c] \subseteq {pcb[c]}

(* A connection that can still carry data, and a handshake, belong to an   *)
(* open socket.                                                            *)
LivePcbsAreOwned ==
  \A p \in TcpPcbs \ unclosed :
    state[p] \in {"closed", "syn_sent", "established", "close_wait"} =>
      arg[p] \in handles /\ (pcb[arg[p]] = p \/ arg[p] \in stray)

(* socket_recv's test for a closed connection, s->tcp = 0, holds only for  *)
(* a socket that the end of another one's connection zeroed.               *)
NoConnectionIsForeign ==
  \A c \in handles : pcb[c] = NULL => c \in lost \cup stray

(* tcp_connect_irq finds no semaphore only when socket_connect gave up     *)
(* waiting before, or the socket's pcb was lost.                           *)
DeadSemaphoreIsLate == fault = "semaphore" => late \cup lost # {}

(* LWIPInterface.h on socket_connect: "0 on success, negative on failure". *)
ConnectReportsTruth == told \cap late = {}

(* NetworkStack.h on socket_close: "Closes any open connection and         *)
(* deallocates any memory associated with the socket."                     *)
CloseDeallocates ==
  \A p \in UdpPcbs : state[p] # "free" => arg[p] \in handles \cup closing
=============================================================================
