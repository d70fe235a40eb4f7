--------------------------- MODULE LwipSocketsProofs ---------------------------
(* The safety properties of LwipSockets, for pools and heaps of any size.  *)
EXTENDS LwipSockets, TLAPS

-----------------------------------------------------------------------------
(* The inductive invariant.                                                *)

(* A pcb that is neither in the pool nor on its way back.                  *)
Alive(p) == state[p] \in {"closed", "bound", "syn_sent", "established", "close_wait"}

(* A socket's pcb comes from the pool of its protocol.                     *)
Kinds ==
  /\ \A p \in UdpPcbs : state[p] \in {"free", "closed", "bound"}
  /\ \A p \in TcpPcbs : state[p] # "bound"
  /\ \A c \in handles : pcb[c] # NULL =>
       pcb[c] \in (IF proto[c] = "udp" THEN UdpPcbs ELSE TcpPcbs)

(* A tcp_close that failed leaves a connection.                            *)
Unclosed == \A p \in unclosed : state[p] \in {"established", "close_wait"}

(* A socket that was not lost holds a live pcb that finds it, or none; the *)
(* handler of another one zeroed it then.                                  *)
Held ==
  \A c \in handles \ lost :
    pcb[c] # NULL => Alive(pcb[c]) /\ pcb[c] \notin unclosed /\ arg[pcb[c]] = c

(* A live pcb belongs to an open socket, which holds it or was zeroed.     *)
Owned ==
  \A p \in TcpPcbs \ unclosed :
    Alive(p) => /\ arg[p] \in handles
                /\ pcb[arg[p]] = p \/ (pcb[arg[p]] = NULL /\ arg[p] \in stray)

(* No two live pcbs find the same socket.                                  *)
Unique ==
  \A p, q \in TcpPcbs \ unclosed : (Alive(p) /\ Alive(q) /\ arg[p] = arg[q]) => p = q

(* While a handshake is under way its socket waits, or gave up, or a       *)
(* socket that had lost the pcb began it and is still open.                *)
Handshakes ==
  \A p \in TcpPcbs : state[p] = "syn_sent" =>
    \/ sem[arg[p]] = "waiting" \/ arg[p] \in late
    \/ \E d \in handles \cap lost : pcb[d] \in {p, NULL}

IInv ==
  /\ TypeOK /\ Kinds /\ Unclosed /\ Held /\ NoConnectionIsForeign
  /\ Owned /\ Unique /\ Handshakes /\ OwnData /\ DeadSemaphoreIsLate

-----------------------------------------------------------------------------
(* The initial state satisfies the invariant.                              *)
LEMMA InitIInv == Init => IInv
BY PoolsAssumption DEF Init, IInv, TypeOK, Kinds, Unclosed, Held, NoConnectionIsForeign,
   Owned, Unique, Handshakes, OwnData, DeadSemaphoreIsLate, Alive, States, Pcbs, Holders

(* socket_open takes a free cell and a pcb that no live socket is found by.*)
LEMMA OpenStep == ASSUME IInv, fault = "none", socket_open PROVE IInv'
<1> USE DEF IInv, socket_open, cells, contents, pcbs, history
<1>1. TypeOK'
  BY DEF TypeOK, States, Pcbs, InState, fresh_rx, handler_arg, new_pcb
<1>2. Kinds'
  BY DEF Kinds, Pcbs, TypeOK, InState, new_pcb
<1>3. Unclosed'
  BY DEF Unclosed, Pcbs, TypeOK, InState, new_pcb
<1>4. Held'
  BY DEF Held, Pcbs, TypeOK, Unclosed, Alive, InState, handler_arg, new_pcb
<1>5. NoConnectionIsForeign'
  BY PoolsAssumption DEF NoConnectionIsForeign, Pcbs, TypeOK, InState, new_pcb
<1>6. Owned'
  BY DEF Owned, Pcbs, TypeOK, Alive, handler_arg
<1>7. Unique'
  BY DEF Unique, Pcbs, TypeOK, Owned, Alive, handler_arg
<1>8. Handshakes'
  BY DEF Handshakes, Pcbs, TypeOK, Unclosed, Owned, Alive
<1>9. OwnData'
  BY DEF OwnData, TypeOK, fresh_rx
<1> QED
  BY <1>1, <1>2, <1>3, <1>4, <1>5, <1>6, <1>7, <1>8, <1>9 DEF DeadSemaphoreIsLate

(* socket_bind changes the state of a UDP pcb.                             *)
LEMMA BindStep == ASSUME IInv, fault = "none", socket_bind PROVE IInv'
<1> USE DEF IInv, socket_bind, cells, contents, pcbs, history
<1>1. TypeOK'
  BY DEF TypeOK, States
<1>2. Kinds'
  BY PoolsAssumption DEF Kinds, Ready, Usable
<1>3. Unclosed'
  BY DEF Unclosed, Kinds, Ready, Usable
<1>4. Held'
  BY DEF Held, Alive
<1>5. Owned'
  BY DEF Owned, Kinds, Alive, Ready, Usable
<1>6. Unique'
  BY DEF Unique, Kinds, Alive, Ready, Usable
<1>7. Handshakes'
  BY DEF Handshakes
<1> QED
  BY <1>1, <1>2, <1>3, <1>4, <1>5, <1>6, <1>7 DEF NoConnectionIsForeign, OwnData,
     DeadSemaphoreIsLate

(* socket_connect starts a handshake that its socket waits for.            *)
LEMMA ConnectStep == ASSUME IInv, fault = "none", socket_connect PROVE IInv'
<1> USE DEF IInv, socket_connect, cells, contents, pcbs, history
<1>1. TypeOK'
  BY DEF TypeOK, States, Ready, connect_sem
<1>2. Kinds'
  BY PoolsAssumption DEF Kinds, Pcbs, TypeOK, Ready
<1>3. Unclosed'
  BY DEF Unclosed, Pcbs, TypeOK
<1>4. Held'
  BY DEF Held, TypeOK, Alive
<1>5. Owned'
  BY DEF Owned, Pcbs, TypeOK, Alive
<1>6. Unique'
  BY DEF Unique, Pcbs, TypeOK, Alive
<1>7. Handshakes'
  BY DEF Handshakes, Pcbs, TypeOK, Held, Ready, Usable, connect_sem
<1> QED
  BY <1>1, <1>2, <1>3, <1>4, <1>5, <1>6, <1>7 DEF NoConnectionIsForeign, OwnData,
     DeadSemaphoreIsLate

(* The wait in socket_connect ends; only a late answer is left to come.    *)
LEMMA ConnectReturnStep == ASSUME IInv, fault = "none", connect_return PROVE IInv'
<1> USE DEF IInv, connect_return, cells, contents, pcbs, history
<1>1. TypeOK'
  BY DEF TypeOK
<1>2. Handshakes'
  BY DEF Handshakes
<1> QED
  BY <1>1, <1>2 DEF Kinds, Unclosed, Held, NoConnectionIsForeign, Owned, Unique,
     OwnData, DeadSemaphoreIsLate, Alive

(* socket_recv empties the queue of a socket.                              *)
LEMMA RecvStep == ASSUME IInv, fault = "none", socket_recv PROVE IInv'
<1> USE DEF IInv, socket_recv, cells, contents, pcbs, history
<1>1. TypeOK'
  BY DEF TypeOK, Ready
<1>2. OwnData'
  BY DEF OwnData
<1> QED
  BY <1>1, <1>2 DEF Kinds, Unclosed, Held, NoConnectionIsForeign, Owned, Unique,
     Handshakes, DeadSemaphoreIsLate, Alive

(* socket_close gives up the handle; every other holder of the pcb is lost.*)
LEMMA CloseStep == ASSUME IInv, fault = "none", socket_close PROVE IInv'
<1> USE DEF IInv, socket_close, cells, contents, pcbs, history
<1>1. TypeOK'
  BY DEF TypeOK, States, Kinds, Holders, Ready, Usable, close_pcb, other_handles,
     tcp_close, udp_disconnect
<1>2. Kinds'
  BY DEF Kinds, close_pcb, other_handles, tcp_close, udp_disconnect
<1>3. Unclosed'
  BY DEF Unclosed, close_pcb, tcp_close, udp_disconnect
<1>4. Held'
  BY DEF Held, Alive, Holders, other_handles
<1>5. NoConnectionIsForeign'
  BY DEF NoConnectionIsForeign, other_handles
<1>6. Owned'
  BY PoolsAssumption DEF Owned, TypeOK, Kinds, Alive, Ready, Usable, close_pcb,
     other_handles, tcp_close
<1>7. Unique'
  BY DEF Unique, TypeOK, Unclosed, Alive, Ready, Usable, close_pcb, tcp_close,
     udp_disconnect
<1>8. Handshakes'
  BY DEF Handshakes, TypeOK, Kinds, Usable, close_pcb, other_handles, tcp_close,
     udp_disconnect
<1>9. OwnData'
  BY DEF OwnData, other_handles
<1> QED
  BY <1>1, <1>2, <1>3, <1>4, <1>5, <1>6, <1>7, <1>8, <1>9 DEF DeadSemaphoreIsLate

(* The cell that socket_close deletes belongs to nobody by then.           *)
LEMMA DeleteStep == ASSUME IInv, fault = "none", socket_delete PROVE IInv'
<1> USE DEF IInv, socket_delete, cells, contents, pcbs, history
<1>1. TypeOK'
  BY DEF TypeOK
<1>2. Kinds'
  BY DEF Kinds
<1>3. Held'
  BY DEF Held, TypeOK, Alive
<1>4. NoConnectionIsForeign'
  BY DEF NoConnectionIsForeign, TypeOK
<1>5. Owned'
  BY DEF Owned, TypeOK, Alive
<1>6. Handshakes'
  BY DEF Handshakes, TypeOK, Unclosed, Owned, Alive
<1>7. OwnData'
  BY DEF OwnData, TypeOK
<1> QED
  BY <1>1, <1>2, <1>3, <1>4, <1>5, <1>6, <1>7 DEF Unclosed, Unique, DeadSemaphoreIsLate,
     Alive

(* tcp_connect_irq finds the socket that waits, or one that gave up.       *)
LEMMA ConnectIrqStep == ASSUME IInv, fault = "none", tcp_connect_irq PROVE IInv'
<1> USE DEF IInv, tcp_connect_irq, cells, contents, pcbs, history
<1>1. TypeOK'
  BY DEF TypeOK, States, Pcbs, InState
<1>2. Kinds'
  BY DEF Kinds, InState
<1>3. Unclosed'
  BY DEF Unclosed
<1>4. Held'
  BY DEF Held, Alive
<1>5. Owned'
  BY DEF Owned, Alive, InState
<1>6. Unique'
  BY DEF Unique, Alive, InState
<1>7. Handshakes'
  BY DEF Handshakes, Pcbs, TypeOK, Unclosed, Owned, Unique, Alive, InState
<1>8. DeadSemaphoreIsLate'
  BY DEF DeadSemaphoreIsLate, TypeOK, Unclosed, Owned, Handshakes, Alive, InConnect,
     InState
<1> QED
  BY <1>1, <1>2, <1>3, <1>4, <1>5, <1>6, <1>7, <1>8 DEF NoConnectionIsForeign, OwnData

(* A received packet goes to the socket that owns the pcb, or to a stray.  *)
LEMMA RecvIrqStep == ASSUME IInv, fault = "none", recv_irq PROVE IInv'
<1> USE DEF IInv, recv_irq, cells, contents, pcbs, history
<1>1. TypeOK'
  BY DEF TypeOK, Pcbs, InState, Strayed
<1>2. NoConnectionIsForeign'
  BY DEF NoConnectionIsForeign, Strayed
<1>3. Owned'
  BY DEF Owned, Alive, Strayed
<1>4. OwnData'
  BY DEF OwnData, TypeOK, Strayed
<1>5. DeadSemaphoreIsLate'
  BY DEF DeadSemaphoreIsLate
<1> QED
  BY <1>1, <1>2, <1>3, <1>4, <1>5 DEF Kinds, Unclosed, Held, Unique, Handshakes, Alive

(* Data for a pcb whose tcp_close failed resets the connection.            *)
LEMMA DataAfterCloseStep == ASSUME IInv, fault = "none", data_after_close PROVE IInv'
<1> USE DEF IInv, data_after_close, cells, contents, pcbs, history
<1>1. TypeOK'
  BY DEF TypeOK, States, Pcbs
<1>2. Kinds'
  BY DEF Kinds
<1>3. Unclosed'
  BY DEF Unclosed
<1>4. Held'
  BY DEF Held, Alive
<1>5. Owned'
  BY DEF Owned, Pcbs, TypeOK, Alive
<1>6. Unique'
  BY DEF Unique, Pcbs, TypeOK, Alive
<1>7. Handshakes'
  BY DEF Handshakes
<1> QED
  BY <1>1, <1>2, <1>3, <1>4, <1>5, <1>6, <1>7 DEF NoConnectionIsForeign, OwnData,
     DeadSemaphoreIsLate

(* tcp_recv_irq zeroes s->tcp only for a pcb that was closed before.       *)
LEMMA FinIrqStep == ASSUME IInv, fault = "none", fin_irq PROVE IInv'
<1> USE DEF IInv, fin_irq, cells, contents, pcbs, history
<1>1. TypeOK'
  BY DEF TypeOK, States, Pcbs, Strayed, after_fin
<1>2. Kinds'
  BY DEF Kinds, TypeOK, after_fin
<1>3. Unclosed'
  BY DEF Unclosed, after_fin
<1>4. Held'
  BY DEF Held, TypeOK, Alive, after_fin
<1>5. NoConnectionIsForeign'
  BY DEF NoConnectionIsForeign, TypeOK, Held, Alive, Strayed, after_fin, zeroing
<1>6. Owned'
  BY DEF Owned, TypeOK, Alive, Strayed, after_fin, zeroing
<1>7. Unique'
  BY DEF Unique, Alive, after_fin
<1>8. Handshakes'
  BY DEF Handshakes, TypeOK, after_fin
<1>9. OwnData'
  BY DEF OwnData, TypeOK, Held, Alive, Strayed, after_fin, zeroing
<1>10. DeadSemaphoreIsLate'
  BY DEF DeadSemaphoreIsLate
<1> QED
  BY <1>1, <1>2, <1>3, <1>4, <1>5, <1>6, <1>7, <1>8, <1>9, <1>10

(* A closed connection ends; no live pcb changes.                          *)
LEMMA DoneStep == ASSUME IInv, fault = "none", pcb_done PROVE IInv'
<1> USE DEF IInv, pcb_done, cells, contents, pcbs, history
<1>1. TypeOK'
  BY DEF TypeOK, States, Pcbs
<1>2. Kinds'
  BY DEF Kinds
<1>3. Unclosed'
  BY DEF Unclosed
<1>4. Held'
  BY DEF Held, Alive
<1>5. Owned'
  BY DEF Owned, Alive
<1>6. Unique'
  BY DEF Unique, Alive
<1>7. Handshakes'
  BY DEF Handshakes
<1> QED
  BY <1>1, <1>2, <1>3, <1>4, <1>5, <1>6, <1>7 DEF NoConnectionIsForeign, OwnData,
     DeadSemaphoreIsLate

(* lwIP drops a pcb; every socket that held it is lost.                    *)
LEMMA DropStep == ASSUME IInv, fault = "none", pcb_drop PROVE IInv'
<1> USE DEF IInv, pcb_drop, cells, contents, pcbs, history
<1>1. TypeOK'
  BY DEF TypeOK, States, Pcbs, Holders
<1>2. Kinds'
  BY DEF Kinds
<1>3. Unclosed'
  BY DEF Unclosed
<1>4. Held'
  BY DEF Held, Alive, Holders
<1>5. NoConnectionIsForeign'
  BY DEF NoConnectionIsForeign
<1>6. Owned'
  BY DEF Owned, Pcbs, TypeOK, Alive
<1>7. Unique'
  BY DEF Unique, Pcbs, TypeOK, Alive
<1>8. Handshakes'
  BY DEF Handshakes
<1>9. OwnData'
  BY DEF OwnData
<1> QED
  BY <1>1, <1>2, <1>3, <1>4, <1>5, <1>6, <1>7, <1>8, <1>9 DEF DeadSemaphoreIsLate

(* Every step preserves the invariant.                                     *)
LEMMA StepIInv == IInv /\ [Next]_vars => IInv'
<1> SUFFICES ASSUME IInv, [Next]_vars PROVE IInv'
  OBVIOUS
<1>1. CASE UNCHANGED vars
  BY <1>1 DEF IInv, TypeOK, Kinds, Unclosed, Held, NoConnectionIsForeign, Owned, Unique,
     Handshakes, OwnData, DeadSemaphoreIsLate, Alive, vars, cells, contents, pcbs,
     history
<1> QED
  BY <1>1, OpenStep, BindStep, ConnectStep, ConnectReturnStep, RecvStep, CloseStep,
     DeleteStep, ConnectIrqStep, RecvIrqStep, DataAfterCloseStep, FinIrqStep, DoneStep,
     DropStep DEF Next

(* The invariant holds in every reachable state.                            *)
LEMMA Invariance == Spec => []IInv
BY InitIInv, StepIInv, PTL DEF Spec

-----------------------------------------------------------------------------
(* Cells and pcbs stay in their pools, and a closing socket has no handle   *)
(* (socket_open, socket_close).                                            *)
THEOREM TypeCorrect == Spec => []TypeOK
<1>1. IInv => TypeOK
  BY DEF IInv
<1> QED
  BY <1>1, Invariance, PTL

(* socket_open gives every open socket a pcb of its own, whose handlers     *)
(* find it, until lwIP drops the pcb or a foreign handler zeroes s->tcp.    *)
THEOREM OwnPcbHolds == Spec => []OwnPcb
<1>1. ASSUME IInv, NEW c \in handles \ (lost \cup stray)
      PROVE  /\ Usable(c) /\ arg[pcb[c]] = c
             /\ \A d \in handles \ {c} : pcb[d] = pcb[c] => d \in lost
  <2>1. pcb[c] # NULL
    BY <1>1 DEF IInv, NoConnectionIsForeign
  <2>2. Alive(pcb[c]) /\ arg[pcb[c]] = c
    BY <1>1, <2>1 DEF IInv, Held
  <2>3. Usable(c)
    BY <2>1, <2>2 DEF Usable, Alive
  <2>4. ASSUME NEW d \in handles \ {c}, pcb[d] = pcb[c], d \notin lost PROVE FALSE
    BY <1>1, <2>1, <2>2, <2>4 DEF IInv, Held
  <2> QED
    BY <2>2, <2>3, <2>4
<1>2. IInv => OwnPcb
  BY <1>1 DEF OwnPcb
<1> QED
  BY <1>2, Invariance, PTL

(* recv_irq appends to the queue of a socket only what its own pcb          *)
(* received, under the same condition.                                     *)
THEOREM OwnDataHolds == Spec => []OwnData
<1>1. IInv => OwnData
  BY DEF IInv
<1> QED
  BY <1>1, Invariance, PTL

(* A connection that can carry data belongs to an open socket, but for one  *)
(* whose tcp_close failed (socket_close does not look at its result).       *)
THEOREM LivePcbsAreOwnedHolds == Spec => []LivePcbsAreOwned
<1>1. IInv => LivePcbsAreOwned
  BY DEF IInv, Owned, Alive, LivePcbsAreOwned
<1> QED
  BY <1>1, Invariance, PTL

(* s->tcp is zeroed only in a socket that lost its pcb or by the handler of *)
(* a pcb that is not its own (tcp_recv_irq).                               *)
THEOREM NoConnectionIsForeignHolds == Spec => []NoConnectionIsForeign
<1>1. IInv => NoConnectionIsForeign
  BY DEF IInv
<1> QED
  BY <1>1, Invariance, PTL

(* tcp_connect_irq releases a semaphore that is gone only after a timeout   *)
(* of socket_connect or the loss of a pcb.                                 *)
THEOREM DeadSemaphoreIsLateHolds == Spec => []DeadSemaphoreIsLate
<1>1. IInv => DeadSemaphoreIsLate
  BY DEF IInv
<1> QED
  BY <1>1, Invariance, PTL
=============================================================================
