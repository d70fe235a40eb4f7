---------------------------- MODULE NonBlockingApp ----------------------------
(***************************************************************************)
(* The HW_Non_Blocking sample: a program that polls two sockets once for    *)
(* every token of a semaphore, which the sockets' callback releases in the  *)
(* tcpip thread.  The sockets are those of RxChain and BlockingCall: data   *)
(* is queued before the callback runs, and recv returns at once.           *)
(***************************************************************************)
EXTENDS Naturals

CONSTANTS
  NumSockets,  \* the sockets, in the order in which they are set up and polled
  Buffer,      \* sizeof buffer
  Segments,    \* sizes of the segments that may arrive
  MaxSegments  \* bound on the segments

ASSUME AppAssumption ==
  /\ NumSockets \in Nat \ {0} /\ Buffer \in Nat \ {0} /\ MaxSegments \in Nat
  /\ Segments \subseteq Nat \ {0}

Sockets == 1 .. NumSockets

VARIABLES
  main, turn,   \* where main is, and with which socket
  network_sem,  \* tokens
  connected, attached,
  queue,        \* bytes that recv would find
  irq, pending, \* the socket whose handler is about to call back, or 0, and
                \* the size of its segment
  segments,     \* how many arrived
  early,        \* history: bytes whose handler found nothing attached
  excess        \* history: bytes by which announced segments exceeded Buffer

Beyond(n) == IF n > Buffer THEN n - Buffer ELSE 0

sockets == <<connected, attached, queue>>
tcpip == <<irq, pending>>
vars == <<main, turn, network_sem, sockets, tcpip, segments, early, excess>>

network_sem_empty == 0
network_sem_initial == 1

Init ==
  /\ main = "connect" /\ turn = 1 /\ network_sem = network_sem_initial
  /\ connected = {} /\ attached = {} /\ queue = [s \in Sockets |-> 0]
  /\ irq = 0 /\ pending = 0 /\ segments = 0 /\ early = [s \in Sockets |-> 0]
  /\ excess = [s \in Sockets |-> 0]

-----------------------------------------------------------------------------
(* main; the results of connect are not looked at.                          *)
connect ==
  /\ main = "connect" /\ main' = "attach"
  /\ connected' \in {connected, connected \cup {turn}}
  /\ UNCHANGED <<turn, network_sem, attached, queue, tcpip, segments, early, excess>>

attach ==
  /\ main = "attach"
  /\ attached' = attached \cup {turn}
  /\ IF turn < NumSockets THEN main' = "connect" /\ turn' = turn + 1
                          ELSE main' = "wait" /\ turn' = 1
  /\ UNCHANGED <<network_sem, connected, queue, tcpip, segments, early, excess>>

takes_all_but_one(n) == n > 1
takes(n) == n > 0

wait ==
  /\ main = "wait" /\ takes(network_sem)
  /\ network_sem' = network_sem - 1 /\ main' = "recv"
  /\ UNCHANGED <<turn, sockets, tcpip, segments, early, excess>>

(* 2500 ms without a token.                                                *)
times_out_anyway(n) == TRUE
times_out(n) == n = 0

give_up ==
  /\ main = "wait" /\ times_out(network_sem) /\ main' = "done"
  /\ UNCHANGED <<turn, network_sem, sockets, tcpip, segments, early, excess>>

(* One recv, which takes what there is, up to the buffer's size.            *)
recv ==
  /\ main = "recv"
  /\ queue' = [queue EXCEPT ![turn] = Beyond(@)]
  /\ IF turn < NumSockets THEN turn' = turn + 1 /\ UNCHANGED main
                          ELSE turn' = 1 /\ main' = "wait"
  /\ UNCHANGED <<network_sem, connected, attached, tcpip, segments, early, excess>>

-----------------------------------------------------------------------------
(* The tcpip thread.                                                       *)

(* tcp_recv_irq with data, up to the call of Socket::thunk.                 *)
segment ==
  \E s \in connected, n \in Segments :
    /\ irq = 0 /\ segments < MaxSegments
    /\ queue' = [queue EXCEPT ![s] = @ + n] /\ segments' = segments + 1
    /\ irq' = s /\ pending' = n
    /\ UNCHANGED <<main, turn, network_sem, connected, attached, early, excess>>

(* Socket::thunk calls what is attached,                                   *)
network_callback ==
  /\ irq \in attached
  /\ network_sem' = network_sem + 1
  /\ excess' = [excess EXCEPT ![irq] = @ + Beyond(pending)]
  /\ irq' = 0 /\ pending' = 0
  /\ UNCHANGED <<main, turn, sockets, segments, early>>

(* or nothing.                                                             *)
no_callback ==
  /\ irq # 0 /\ irq \notin attached
  /\ early' = [early EXCEPT ![irq] = @ + pending]
  /\ irq' = 0 /\ pending' = 0
  /\ UNCHANGED <<main, turn, network_sem, sockets, segments, excess>>

-----------------------------------------------------------------------------
Main == connect \/ attach \/ wait \/ recv
thunk == network_callback \/ no_callback
Next == Main \/ give_up \/ segment \/ thunk

(* Both threads run; packets need not come, nor time be short.              *)
Spec == Init /\ [][Next]_vars /\ WF_vars(Main) /\ WF_vars(thunk)

-----------------------------------------------------------------------------
(* Properties.  What came before attach had no callback, and the initial    *)
(* token makes up for as much of it as one recv takes; a segment has one    *)
(* token, whatever its size.  Late(s) is what no token stands for.         *)

TypeOK ==
  /\ main \in {"connect", "attach", "wait", "recv", "done"} /\ turn \in Sockets
  /\ network_sem \in 0 .. segments + 1
  /\ connected \subseteq Sockets /\ attached \subseteq Sockets
  /\ queue \in [Sockets -> Nat]
  /\ early \in [Sockets -> Nat] /\ excess \in [Sockets -> Nat]
  /\ irq \in {0} \cup Sockets /\ pending \in Nat /\ segments \in 0 .. MaxSegments

Late(s) ==
  Beyond(early[s]) + excess[s] + (IF irq = s THEN Beyond(pending) ELSE 0)

(* What a socket holds is no more than the polls to come will take: those   *)
(* of the tokens, of a callback that is due and of the turn under way.      *)
TokensCoverData ==
  \A s \in Sockets :
    main # "done" =>
      queue[s] <= Late(s) + Buffer * (network_sem
                                      + (IF irq = s THEN 1 ELSE 0)
                                      + (IF main = "recv" /\ turn <= s THEN 1 ELSE 0))

(* main gives up only when nothing is left to read, but for a segment whose *)
(* callback comes as the time runs out, and what no token stands for.      *)
NothingLeftBehind ==
  [][give_up => \A s \in Sockets : queue[s] <= Late(s) \/ irq = s]_vars

(* Data that is queued is read, or main has given up; it may stay only      *)
(* when there is more of it than the tokens stand for.                     *)
DataIsRead ==
  \A s \in Sockets : queue[s] > 0 ~> (queue[s] = 0 \/ Late(s) > 0 \/ main = "done")
=============================================================================
