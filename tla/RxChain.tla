------------------------------- MODULE RxChain -------------------------------
(***************************************************************************)
(* The receive queue of one open LWIPInterface socket: the pbuf list that  *)
(* starts at s->rx_chain.  The tcpip thread appends to it in udp_recv_irq  *)
(* and tcp_recv_irq, with interrupts disabled; the application thread      *)
(* empties it in socket_recv and socket_recvfrom, with no protection, so   *)
(* the handler may run between any two of the application's steps.         *)
(*                                                                         *)
(* Pbufs are numbered in the order in which the driver hands them up, so a *)
(* number stands for one allocation (reuse of freed memory is a fresh      *)
(* number), and a payload pointer is the position, in the stream of all    *)
(* bytes received, of the first byte the pbuf still holds.                 *)
(***************************************************************************)
EXTENDS Integers, Sequences

CONSTANTS
  Proto,     \* s->proto: "TCP" or "UDP"
  Packets,   \* packets the driver may deliver: <<2>> is one pbuf of 2 bytes,
             \* <<1, 3>> two linked pbufs that end at bytes 1 and 3
  Sizes,     \* values of the argument "size" of the receive calls
  U16,       \* 2^16: the width of pbuf_copy_partial's length argument
  TcpWnd,    \* TCP_WND, the receive window of a fresh pcb
  NumPbufs   \* bound on the pbufs received in one behaviour

NULL == 0
Pbufs == 1 .. NumPbufs

ASSUME ProtoAssumption == Proto \in {"TCP", "UDP"}
ASSUME NumAssumption == NumPbufs \in Nat /\ U16 \in Nat \ {0} /\ TcpWnd \in Nat
ASSUME SizesAssumption == Sizes \subseteq Nat
(* Only a UDP packet may be empty, and no packet ends in an empty pbuf.    *)
ASSUME PacketsAssumption ==
  \A c \in Packets :
    /\ c \in Seq(Nat) /\ Len(c) > 0
    /\ \A i, j \in 1 .. Len(c) : i < j => c[i] <= c[j]
    /\ \A i, j \in 1 .. Len(c) : i < j /\ Proto = "TCP" => c[i] < c[j]
    /\ Proto = "TCP" => c[1] > 0
    /\ Len(c) > 1 => c[Len(c) - 1] < c[Len(c)]

VARIABLES
  \* the pbufs, as lwIP lays them out
  next, len, tot_len, ref, payload,
  heap,       \* pbufs whose memory is allocated
  received,   \* number of pbufs handed up so far
  rcv_nxt,    \* number of bytes handed up so far
  \* struct lwip_socket and its pcb
  rx_chain, rcv_wnd,
  \* the tcpip thread
  tpc,        \* "notify" between the append and s->callback
  signalled,  \* s->callback ran since the last receive call began
  \* the application thread in socket_recv / socket_recvfrom
  pc, size, p, q, walk, victim, left, copied, consume,
  \* history
  more,       \* the last result is what was asked for: more may be queued
  clipped,    \* the last result is what 16 bits leave of a larger size
  first,      \* pbufs that start a packet
  rd,         \* end of the bytes the receive calls have disposed of
  raced,      \* pbufs appended after the consumer read p->next as NULL
  corrupt     \* a handler followed rx_chain into freed memory

mem == <<next, len, tot_len, ref, payload, heap>>
arrivals == <<received, rcv_nxt, first>>
tcpip == <<tpc, signalled>>
locals == <<size, p, q, walk, victim, left, copied, consume>>
results == <<more, clipped>>
history == <<rd, raced, corrupt>>
vars == <<mem, arrivals, rx_chain, rcv_wnd, tcpip, pc, locals, results,
          history>>

Init ==
  /\ next = [i \in Pbufs |-> NULL] /\ len = [i \in Pbufs |-> 0]
  /\ tot_len = [i \in Pbufs |-> 0] /\ ref = [i \in Pbufs |-> 0]
  /\ payload = [i \in Pbufs |-> 0] /\ heap = {}
  /\ received = 0 /\ rcv_nxt = 0 /\ first = {}
  /\ rx_chain = NULL /\ rcv_wnd = TcpWnd
  /\ tpc = "idle" /\ signalled = FALSE
  /\ pc = "idle" /\ size = 0
  /\ p = NULL /\ q = NULL /\ walk = NULL /\ victim = NULL
  /\ left = 0 /\ copied = 0 /\ consume = 0
  /\ more = FALSE /\ clipped = FALSE
  /\ rd = 0 /\ raced = {} /\ corrupt = FALSE

-----------------------------------------------------------------------------
(* The tcpip thread.                                                       *)

(* The last pbuf of the list that starts at r.                             *)
Last(r) == CHOOSE j \in r .. received :
             next[j] = NULL /\ \A i \in r .. j - 1 : next[i] # NULL

(* The driver hands up packet c: allocated, filled, and linked to the end  *)
(* of the list whose head is rx_chain.                                     *)
Append1(c) ==
  LET k == Len(c)
      new == received + 1 .. received + k
      start(i) == IF i = received + 1 THEN 0 ELSE c[i - received - 1]
      tail == IF rx_chain = NULL THEN NULL ELSE Last(rx_chain)
  IN /\ next' = [i \in Pbufs |->
                  IF i \in new THEN IF i = received + k THEN NULL ELSE i + 1
                  ELSE IF i = tail THEN received + 1 ELSE next[i]]
     /\ len' = [i \in Pbufs |->
                  IF i \in new THEN c[i - received] - start(i) ELSE len[i]]
     /\ tot_len' = [i \in Pbufs |->
                  IF i \in new THEN c[k] - start(i)
                  ELSE IF Proto = "TCP" /\ tail # NULL /\ i \in rx_chain .. tail
                       THEN tot_len[i] + c[k] ELSE tot_len[i]]
     /\ payload' = [i \in Pbufs |->
                  IF i \in new THEN rcv_nxt + start(i) ELSE payload[i]]
     /\ ref' = [i \in Pbufs |-> IF i \in new THEN 1 ELSE ref[i]]
     /\ heap' = heap \cup new
     /\ received' = received + k
     /\ rcv_nxt' = rcv_nxt + c[k]
     /\ first' = first \cup {received + 1}
     /\ rx_chain' = IF rx_chain = NULL THEN received + 1 ELSE rx_chain
     /\ raced' = IF pc \in {"unlink", "free"} /\ q = NULL
                 THEN raced \cup new ELSE raced

(* Where the handler goes after __enable_irq: to the callback, whatever    *)
(* the list held before.                                                   *)
after_append_if_empty == IF rx_chain = NULL THEN "notify" ELSE "idle"
after_append == "notify"

(* tcp_recv_irq with data, udp_recv_irq: up to __enable_irq.  TCP accepts  *)
(* only what fits the window.  A head that is already freed is followed    *)
(* into memory that holds anything: the model stops there.                 *)
recv_irq ==
  /\ tpc = "idle"
  /\ \E c \in Packets :
       /\ received + Len(c) <= NumPbufs
       /\ Proto = "TCP" => c[Len(c)] <= rcv_wnd
       /\ IF rx_chain # NULL /\ rx_chain \notin heap
          THEN /\ corrupt' = TRUE
               /\ UNCHANGED <<mem, arrivals, rx_chain, rcv_wnd, tpc, raced>>
          ELSE /\ Append1(c)
               /\ rcv_wnd' = IF Proto = "TCP" THEN rcv_wnd - c[Len(c)] ELSE rcv_wnd
               /\ tpc' = after_append
               /\ UNCHANGED corrupt
  /\ UNCHANGED <<signalled, pc, locals, results, rd>>

(* The end of both handlers: s->callback(s->data).                         *)
callback ==
  /\ tpc = "notify"
  /\ tpc' = "idle" /\ signalled' = TRUE
  /\ UNCHANGED <<mem, arrivals, rx_chain, rcv_wnd, pc, locals, results,
                 history>>

-----------------------------------------------------------------------------
(* The application thread.                                                 *)

Smaller(a, b) == IF a < b THEN a ELSE b

(* "Nothing ready": NSAPI_ERROR_WOULD_BLOCK.                               *)
recv_would_block ==
  /\ pc = "idle" /\ rx_chain = NULL
  /\ more' = FALSE /\ clipped' = FALSE /\ signalled' = FALSE
  /\ UNCHANGED <<mem, arrivals, rx_chain, rcv_wnd, tpc, pc, locals, history>>

(* p = s->rx_chain, and the length passed to pbuf_copy_partial: a u16_t,   *)
(* clamped to the packet by socket_recvfrom, cut to 16 bits by socket_recv.*)
recv_start ==
  /\ pc = "idle" /\ rx_chain # NULL
  /\ size' \in Sizes
  /\ left' = IF Proto = "UDP" THEN Smaller(size', tot_len[rx_chain])
             ELSE size' % U16
  /\ p' = rx_chain /\ walk' = rx_chain /\ copied' = 0
  /\ pc' = "copy" /\ signalled' = FALSE
  /\ UNCHANGED <<mem, arrivals, rx_chain, rcv_wnd, tpc, q, victim, consume,
                 results, history>>

(* One pbuf of pbuf_copy_partial's loop.                                   *)
copy_partial ==
  /\ pc = "copy" /\ left # 0 /\ walk # NULL
  /\ LET n == Smaller(len[walk], left)
     IN copied' = copied + n /\ left' = left - n
  /\ walk' = next[walk]
  /\ UNCHANGED <<mem, arrivals, rx_chain, rcv_wnd, tcpip, pc, size, p, q,
                 victim, consume, results, history>>

(* The length given to pbuf_consume: what was copied, or the whole packet. *)
consume_copied == copied
consume_arg == IF Proto = "UDP" THEN tot_len[p] ELSE copied

(* The call of pbuf_consume.  The count is the call's result, which a      *)
(* TCP application compares with the size it passed.                       *)
copy_done ==
  /\ pc = "copy" /\ (left = 0 \/ walk = NULL)
  /\ pc' = "consume"
  /\ consume' = consume_arg
  /\ more' = (Proto = "UDP" \/ copied = size)
  /\ clipped' = (Proto = "TCP" /\ size >= U16 /\ copied = size % U16)
  /\ rd' = payload[p] + consume'
  /\ UNCHANGED <<mem, arrivals, rx_chain, rcv_wnd, tcpip, size, p, q, walk,
                 victim, left, copied, raced, corrupt>>

(* pbuf_consume's tests on a pbuf left with n bytes when rest are to go:   *)
(* whether it is freed, what is left to consume, and whether the loop ends *)
(* with the consumer at r.                                                 *)
frees_whole(n, rest) == n = 0 \/ rest > n \/ rest = 0
frees(n, rest) == n = 0 \/ rest > n \/ (rest = 0 /\ Proto = "UDP")
remaining_all(n, rest) == rest
remaining(n, rest) == IF rest > n THEN rest - n ELSE rest
ends_at_null(rest, r) == r = NULL
ends(rest, r) == rest = 0

(* One turn of pbuf_consume's loop, up to q = p->next.                     *)
pbuf_consume ==
  /\ pc = "consume"
  /\ LET cut == IF consume <= len[p] THEN consume ELSE 0
         rest == IF consume <= len[p] THEN 0 ELSE consume
         n == len[p] - cut
     IN /\ payload' = [payload EXCEPT ![p] = @ + cut]
        /\ len' = [len EXCEPT ![p] = n]
        /\ IF frees(n, rest)
           THEN /\ q' = next[p]
                /\ consume' = remaining(n, rest)
                /\ pc' = "unlink"
           ELSE /\ consume' = rest
                /\ pc' = IF ends(rest, p) THEN "store" ELSE "consume"
                /\ UNCHANGED q
  /\ UNCHANGED <<next, tot_len, ref, heap, arrivals, rx_chain, rcv_wnd, tcpip,
                 size, p, walk, victim, left, copied, results, history>>

pbuf_ref_none(r) == ref
pbuf_ref(r) == [i \in Pbufs |-> IF i = r THEN ref[i] + 1 ELSE ref[i]]

(* pbuf_ref(q), and pbuf_free(p) up to its own reading of p->next.         *)
pbuf_unlink ==
  /\ pc = "unlink"
  /\ ref' = [pbuf_ref(q) EXCEPT ![p] = @ - 1]
  /\ victim' = p /\ walk' = next[p]
  /\ pc' = "free"
  /\ UNCHANGED <<next, len, tot_len, payload, heap, arrivals, rx_chain, rcv_wnd,
                 tcpip, size, p, q, left, copied, consume, results, history>>

(* pbuf_free gives the victim's memory back and drops the list's reference *)
(* to its successor; it goes on while that was the last one.  The end of   *)
(* pbuf_free is p = q and the test of pbuf_consume's loop.                 *)
pbuf_free ==
  /\ pc = "free"
  /\ heap' = heap \ {victim}
  /\ ref' = [i \in Pbufs |-> IF i = walk THEN ref[i] - 1 ELSE ref[i]]
  /\ IF walk # NULL /\ ref'[walk] = 0
     THEN victim' = walk /\ walk' = next[walk] /\ UNCHANGED <<p, pc>>
     ELSE /\ p' = q
          /\ pc' = IF ends(consume, q) THEN "store" ELSE "consume"
          /\ UNCHANGED <<victim, walk>>
  /\ UNCHANGED <<next, len, tot_len, payload, arrivals, rx_chain, rcv_wnd,
                 tcpip, size, q, left, copied, consume, results, history>>

(* The argument of tcp_recved.                                             *)
recved_size == copied + left
recved == copied

(* s->rx_chain = ..., tcp_recved and the return, which ends the locals.    *)
recv_return ==
  /\ pc = "store"
  /\ rx_chain' = p
  /\ rcv_wnd' = IF Proto = "TCP" THEN rcv_wnd + recved ELSE rcv_wnd
  /\ pc' = "idle"
  /\ size' = 0 /\ p' = NULL /\ q' = NULL /\ walk' = NULL /\ victim' = NULL
  /\ left' = 0 /\ copied' = 0 /\ consume' = 0
  /\ UNCHANGED <<mem, arrivals, tcpip, results, history>>

-----------------------------------------------------------------------------
recv_call == \/ copy_partial \/ copy_done \/ pbuf_consume
             \/ pbuf_unlink \/ pbuf_free \/ recv_return

Next == /\ ~corrupt
        /\ \/ recv_irq \/ callback
           \/ recv_would_block \/ recv_start \/ recv_call

Spec == Init /\ [][Next]_vars
(* The scheduler runs the thread that is inside a receive call.            *)
FairSpec == Spec /\ WF_vars(~corrupt /\ recv_call)

-----------------------------------------------------------------------------
(* The types, and that the consumer's pointer is never NULL where          *)
(* pbuf_consume and pbuf_free follow it.                                   *)
TypeOK ==
  /\ next \in [Pbufs -> Pbufs \cup {NULL}] /\ ref \in [Pbufs -> Nat]
  /\ len \in [Pbufs -> Nat] /\ tot_len \in [Pbufs -> Nat]
  /\ payload \in [Pbufs -> Nat]
  /\ heap \subseteq Pbufs /\ first \subseteq Pbufs /\ raced \subseteq Pbufs
  /\ received \in 0 .. NumPbufs /\ rcv_nxt \in Nat /\ rcv_wnd \in Nat
  /\ rx_chain \in 0 .. received
  /\ tpc \in {"idle", "notify"}
  /\ pc \in {"idle", "copy", "consume", "unlink", "free", "store"}
  /\ p \in 0 .. received /\ q \in 0 .. received
  /\ walk \in 0 .. received /\ victim \in 0 .. received
  /\ size \in Nat /\ left \in Nat /\ copied \in Nat /\ consume \in Nat /\ rd \in Nat
  /\ more \in BOOLEAN /\ clipped \in BOOLEAN
  /\ signalled \in BOOLEAN /\ corrupt \in BOOLEAN
  /\ pc \in {"copy", "consume", "unlink"} => p # NULL
  /\ pc = "free" => victim # NULL

(* Between receive calls, the next byte a call will return is the one that *)
(* follows the last byte disposed of, and an empty queue means that every  *)
(* byte was: pbuf_consume steps over exactly what pbuf_copy_partial copied *)
(* (TCP) or one datagram (UDP).  The exception is data that arrived while  *)
(* the consumer held q = NULL; even then no byte is returned twice.        *)
NoGapNoRepeat ==
  pc = "idle" =>
    LET head == IF rx_chain = NULL THEN rcv_nxt ELSE payload[rx_chain]
    IN rd <= head /\ (raced = {} => rd = head)

(* Between receive calls the allocated pbufs are those of the list at      *)
(* rx_chain, each with one reference; only a raced pbuf can be allocated   *)
(* and off the list (leaked), and none of the list was freed.              *)
NoLeakNoDangling ==
  pc = "idle" =>
    LET list == IF rx_chain = NULL THEN {} ELSE rx_chain .. received
    IN /\ list \subseteq heap
       /\ heap \subseteq list \cup raced
       /\ \A i \in list : ref[i] = 1 /\ next[i] = IF i = received THEN NULL ELSE i + 1

(* The window TCP advertises and the bytes in the queue never exceed       *)
(* TCP_WND together, and make it up exactly as long as no arrival raced:   *)
(* tcp_recved returns what was taken from the queue, no more and no less.  *)
WindowMatchesQueue ==
  Proto = "TCP" /\ pc = "idle" =>
    LET queued == IF rx_chain = NULL THEN 0 ELSE rcv_nxt - payload[rx_chain]
    IN rcv_wnd + queued <= TcpWnd /\ (raced = {} => rcv_wnd + queued = TcpWnd)

(* A queue that holds data is known to the application: the last call      *)
(* returned all it asked for, or the callback ran after that call began,   *)
(* or is about to run.  So an application that receives until a short      *)
(* count or WOULD_BLOCK and then waits for the callback misses nothing,    *)
(* with one exception: a TCP call that asks for 65536 bytes or more, whose *)
(* short count (0 for a multiple of 65536) is what 16 bits leave of them.  *)
DataIsAnnounced ==
  pc = "idle" /\ rx_chain # NULL =>
    more \/ signalled \/ tpc = "notify" \/ clipped

(* UDP: the queue always starts with the first pbuf of a datagram, and a   *)
(* call never returns bytes of a second one, whatever pbufs it spans.      *)
DatagramBoundaries ==
  Proto = "UDP" =>
    /\ pc = "idle" /\ rx_chain # NULL => rx_chain \in first
    /\ pc = "consume" /\ p \in first =>
         \A i \in first : i > p => payload[p] + copied <= payload[i]

(* The heap is corrupted only by a handler that ran between pbuf_free's    *)
(* first release and the assignment of rx_chain.                           *)
CorruptionOnlyInWindow ==
  [][corrupt' # corrupt => pc \in {"consume", "unlink", "free", "store"}
                           /\ rx_chain \notin heap]_vars

(* A receive call ends: the loop of pbuf_consume terminates whatever       *)
(* arrives meanwhile, unless the heap is corrupted first.                  *)
RecvReturns == pc # "idle" ~> (pc = "idle" \/ corrupt)
=============================================================================
