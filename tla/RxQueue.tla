------------------------------- MODULE RxQueue -------------------------------
(***************************************************************************)
(* The receive queue implements a stream or a queue of datagrams, until a   *)
(* handler runs where pbuf_consume gives the last pbuf back.  RxChain shows *)
(* what comes of that.                                                     *)
(***************************************************************************)
EXTENDS RxChain, FiniteSets

VARIABLE result  \* what the last call that found data returned: [from, count]

qvars == <<vars, result>>

QueueInit == Init /\ result = [from |-> 0, count |-> 0]

(* buf starts with the first byte of p.                                    *)
result_of_call == [from |-> payload[p], count |-> copied]

QueueNext ==
  /\ Next
  /\ result' = IF pc = "copy" /\ pc' = "consume" THEN result_of_call ELSE result

QueueSpec == QueueInit /\ [][QueueNext]_qvars
FairQueueSpec == QueueSpec /\ WF_vars(~corrupt /\ recv_call)

(* A handler raced with the consumer.                                      *)
broken == raced # {} \/ corrupt

-----------------------------------------------------------------------------
(* The datagrams that wait: those that start in the list, but for the one   *)
(* of the call that has copied it.                                         *)
Waiting ==
  {i \in first : rx_chain # NULL
                 /\ (i > rx_chain \/ (i = rx_chain /\ pc \in {"idle", "copy"}))}

(* The first member of S after i, and its n-th member.                      *)
After(S, i) == CHOOSE j \in S : j > i /\ \A k \in S : k > i => j <= k
Rank(S, i) == Cardinality({j \in S : j <= i})
Nth(S, n) == CHOOSE i \in S : Rank(S, i) = n

EndOfDatagram(i) ==
  IF \E j \in first : j > i THEN payload[After(first, i)] ELSE rcv_nxt

datagram(i) == [from |-> payload[i], count |-> EndOfDatagram(i) - payload[i]]

queue == [n \in 1 .. Cardinality(Waiting) |-> datagram(Nth(Waiting, n))]

Stream == INSTANCE ByteStream WITH arrived <- rcv_nxt, taken <- rd
Datagrams == INSTANCE DatagramQueue WITH arrived <- rcv_nxt

-----------------------------------------------------------------------------
(* socket_recv hands out the bytes of tcp_recv_irq once and in order,       *)
(* whatever segments, buffers and interleavings there are.                 *)
ImplementsStream == Stream!Spec

(* socket_recvfrom hands out the datagrams of udp_recv_irq one by one, each *)
(* from its first byte on.                                                 *)
ImplementsDatagrams == Datagrams!Spec
=============================================================================
