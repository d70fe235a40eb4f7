---------------------------- MODULE RxChainProofs ----------------------------
(* The safety properties of RxChain, and that RxQueue implements ByteStream *)
(* and DatagramQueue, for every set of packets, every argument size, window *)
(* and number of pbufs.                                                    *)
EXTENDS RxQueue, FiniteSetTheorems, TLAPS

-----------------------------------------------------------------------------
(* The inductive invariant.                                                *)

(* The first pbuf the list still owns: the consumer's once a call began.   *)
Front == IF pc = "idle" THEN rx_chain ELSE p
EndOf(i) == payload[i] + len[i]

(* From a on the pbufs are linked in order, the last one is received, and  *)
(* their bytes follow each other in the stream.                            *)
Linked(a) ==
  \A i \in a .. received : next[i] = IF i = received THEN NULL ELSE i + 1
Contiguous(a) ==
  \A i \in a .. received :
    EndOf(i) = IF i = received THEN rcv_nxt ELSE payload[i + 1]
Owned(a) ==
  /\ Linked(a) /\ Contiguous(a)
  /\ \A i \in a .. received : i \in heap /\ ref[i] = 1

(* Bytes are handed up in stream order.                                    *)
Ordered ==
  /\ \A i \in 1 .. received : EndOf(i) <= rcv_nxt
  /\ \A i, j \in 1 .. received : i < j => EndOf(i) <= payload[j]
  /\ heap \subseteq 1 .. received
  /\ raced \subseteq 1 .. received /\ first \subseteq 1 .. received
  /\ Proto = "TCP" /\ Front # NULL =>
       \A i \in 1 .. received : i > Front => len[i] > 0
  /\ rx_chain # NULL => Linked(rx_chain)

IdleInv ==
  pc \in {"idle", "copy"} =>
    /\ rx_chain # NULL => Owned(rx_chain)
    /\ heap \subseteq raced \cup IF rx_chain = NULL THEN {} ELSE rx_chain .. received
    /\ rx_chain # NULL /\ Proto = "TCP" => len[rx_chain] > 0
    /\ pc = "copy" => p = rx_chain

CopyInv ==
  pc = "copy" =>
    /\ payload[p] + copied <= rcv_nxt
    /\ walk # NULL => walk >= p
    /\ walk # NULL /\ left # 0 => payload[p] + copied = payload[walk]
    /\ walk = NULL /\ left # 0 /\ ~signalled /\ tpc = "idle" =>
         payload[p] + copied = rcv_nxt
    /\ Proto = "UDP" => copied + left <= tot_len[p]
    /\ Proto = "TCP" => copied + left = size % U16

(* While pbuf_consume runs, everything before p is freed.                  *)
InCall == pc \in {"consume", "unlink", "free", "store"}
ConsumeInv ==
  InCall =>
    /\ rx_chain # NULL /\ p # rx_chain => rx_chain \notin heap
    /\ rx_chain # NULL
    /\ p # NULL => p >= rx_chain
    /\ rd <= rcv_nxt
    /\ ~more /\ ~clipped /\ ~signalled /\ tpc = "idle" => rd = rcv_nxt

LoopInv ==
  /\ pc = "consume" =>
       /\ Owned(p) /\ heap \subseteq raced \cup p .. received
       /\ rd = payload[p] + consume
       /\ Proto = "TCP" => len[p] > 0
  /\ pc = "unlink" =>
       /\ Owned(p) /\ heap \subseteq raced \cup p .. received
       /\ rd = EndOf(p) + consume
       /\ q = NULL => consume = 0 /\ p + 1 .. received \subseteq raced
       /\ q # NULL => q = p + 1
  /\ pc = "store" =>
       /\ p # NULL =>
            /\ Owned(p) /\ heap \subseteq raced \cup p .. received
            /\ rd = payload[p]
            /\ Proto = "TCP" => len[p] > 0
       /\ p = NULL => heap \subseteq raced /\ (raced = {} => rd = rcv_nxt)

FreeInv ==
  pc = "free" =>
    /\ p # NULL /\ victim >= p
    /\ victim # p => p \notin heap
    /\ rd = EndOf(p) + consume
    /\ Linked(p)
    /\ p \in heap => p = rx_chain \/ rx_chain \notin heap
    /\ q # NULL =>
         /\ q = p + 1 /\ victim = p /\ walk = q
         /\ Linked(q) /\ Contiguous(q)
         /\ EndOf(p) = payload[q]
         /\ \A i \in p .. received : i \in heap
         /\ \A i \in q .. received : ref[i] = IF i = q THEN 2 ELSE 1
         /\ heap \subseteq raced \cup p .. received
    /\ q = NULL =>
         /\ consume = 0 /\ p + 1 .. received \subseteq raced
         /\ p = received => rd = rcv_nxt
         /\ walk # NULL => walk = victim + 1
         /\ \A i \in victim + 1 .. received : ref[i] = 1
         /\ heap \subseteq raced \cup {p}

(* UDP: the datagram that starts at i ends with pbuf m.                    *)
LastOf(i, m) ==
  /\ m \in i .. received /\ m + 1 \in first \cup {received + 1}
  /\ m > i => len[m] > 0
  /\ \A j \in i + 1 .. m : j \notin first
Untouched == pc \in {"idle", "copy", "store"}
UdpInv ==
  Proto = "UDP" =>
    /\ \A i \in first :
         Front # NULL /\ (IF Untouched THEN i >= Front ELSE i > Front) =>
           \E m \in i .. received : LastOf(i, m) /\ payload[i] + tot_len[i] = EndOf(m)
    /\ Untouched /\ Front # NULL => Front \in first
    /\ InCall => more
    /\ pc = "consume" =>
         /\ \E m \in p .. received : LastOf(p, m) /\ rd = EndOf(m)
         /\ p \in first => copied <= consume
    /\ pc \in {"unlink", "free"} /\ q # NULL =>
         IF consume = 0 THEN q \in first
         ELSE /\ q \notin first
              /\ \E m \in q .. received : LastOf(q, m) /\ rd = EndOf(m)

(* What the last calls disposed of, and the window.                        *)
Position == IF Front = NULL THEN rcv_nxt ELSE payload[Front]
HistoryInv ==
  /\ pc \in {"idle", "copy"} => rd <= Position /\ (raced = {} => rd = Position)
  /\ Proto = "TCP" /\ pc \in {"idle", "copy"} =>
       /\ rcv_wnd + rcv_nxt <= TcpWnd + Position
       /\ raced = {} => rcv_wnd + rcv_nxt = TcpWnd + Position
  /\ Proto = "TCP" /\ InCall =>
       /\ rcv_wnd + copied + rcv_nxt <= TcpWnd + rd
       /\ raced = {} => rcv_wnd + copied + rcv_nxt = TcpWnd + rd

IInv == /\ TypeOK /\ Ordered /\ IdleInv /\ CopyInv /\ ConsumeInv /\ LoopInv
        /\ FreeInv /\ UdpInv /\ HistoryInv /\ DataIsAnnounced

-----------------------------------------------------------------------------
(* Facts about the operators and the pbufs.                                *)

(* A remainder of natural numbers is one.                                  *)
LEMMA ModNat == \A a \in Nat : \A b \in Nat \ {0} : a % b \in Nat
  OBVIOUS

(* A number smaller than the divisor is its own remainder.                 *)
LEMMA ModSmall == \A a \in Nat : \A b \in Nat \ {0} : a < b => a % b = a
  OBVIOUS

(* What the invariant says of one received pbuf.                           *)
LEMMA PbufFacts ==
  IInv => \A i \in 1 .. received :
            /\ i \in Pbufs /\ payload[i] \in Nat /\ len[i] \in Nat /\ tot_len[i] \in Nat
            /\ ref[i] \in Nat /\ EndOf(i) \in Nat
            /\ payload[i] <= EndOf(i) /\ EndOf(i) <= rcv_nxt /\ payload[i] <= rcv_nxt
<1> SUFFICES ASSUME IInv, NEW i \in 1 .. received
             PROVE  /\ i \in Pbufs /\ payload[i] \in Nat /\ len[i] \in Nat /\ tot_len[i] \in Nat
                    /\ ref[i] \in Nat /\ EndOf(i) \in Nat
                    /\ payload[i] <= EndOf(i) /\ EndOf(i) <= rcv_nxt /\ payload[i] <= rcv_nxt
  OBVIOUS
<1>1. i \in Pbufs
  BY NumAssumption DEF IInv, TypeOK, Pbufs
<1>2. payload[i] \in Nat /\ len[i] \in Nat /\ tot_len[i] \in Nat /\ ref[i] \in Nat /\ rcv_nxt \in Nat
  BY <1>1 DEF IInv, TypeOK
<1>3. EndOf(i) <= rcv_nxt
  BY DEF IInv, Ordered
<1> QED BY <1>1, <1>2, <1>3 DEF EndOf

(* Smaller returns the smaller of its arguments.                           *)
LEMMA SmallerFacts ==
  \A a, b \in Nat : /\ Smaller(a, b) \in Nat /\ Smaller(a, b) <= a /\ Smaller(a, b) <= b
                    /\ Smaller(a, b) = a \/ Smaller(a, b) = b
  BY DEF Smaller

-----------------------------------------------------------------------------
(* The arrival of a packet.                                                *)

(* The last pbuf of a list linked in arrival order is the newest.          *)
LEMMA LastIsReceived ==
  ASSUME NEW r \in 1 .. received, received \in Nat, Linked(r)
  PROVE  Last(r) = received
<1>1. \A j \in r .. received : next[j] = NULL <=> j = received
  BY DEF Linked, NULL
<1>2. received \in r .. received /\ \A i \in r .. received - 1 : next[i] # NULL
  BY <1>1
<1> QED BY <1>1, <1>2 DEF Last

(* A handler that finds rx_chain allocated runs before the consumer has    *)
(* freed anything: rx_chain is the front of the list.                      *)
LEMMA FrontAtArrival ==
  ASSUME IInv, rx_chain = NULL \/ rx_chain \in heap
  PROVE  /\ Front = rx_chain /\ received \in Nat
         /\ rx_chain = NULL => pc = "idle"
         /\ rx_chain # NULL => rx_chain \in 1 .. received /\ Last(rx_chain) = received
         /\ pc # "idle" => p = rx_chain
         /\ pc = "free" => victim = p
<1>1. received \in Nat /\ rx_chain \in 0 .. received /\ pc \in {"idle", "copy", "consume", "unlink", "free", "store"}
  BY NumAssumption DEF IInv, TypeOK
<1>2. pc # "idle" => p = rx_chain /\ rx_chain # NULL
  BY <1>1 DEF IInv, TypeOK, IdleInv, ConsumeInv, InCall, NULL
<1>3. rx_chain # NULL => Last(rx_chain) = received
  BY <1>1, LastIsReceived DEF IInv, Ordered, NULL
<1>4. pc = "free" => victim = p
  BY <1>2 DEF IInv, FreeInv
<1> QED BY <1>1, <1>2, <1>3, <1>4 DEF Front, NULL

(* What packet c looks like once it is linked.                             *)
LEMMA PacketFacts ==
  ASSUME NEW c \in Packets
  PROVE  /\ Len(c) \in Nat /\ Len(c) > 0
         /\ \A i \in 1 .. Len(c) : c[i] \in Nat /\ c[i] <= c[Len(c)]
         /\ \A i, j \in 1 .. Len(c) : i <= j => c[i] <= c[j]
         /\ Proto = "TCP" => \A i, j \in 1 .. Len(c) : i < j => c[i] < c[j]
         /\ Proto = "TCP" => c[1] > 0
         /\ Len(c) > 1 => c[Len(c) - 1] < c[Len(c)]
<1>1. c \in Seq(Nat) /\ Len(c) > 0
  BY PacketsAssumption
<1>2. Len(c) \in Nat /\ \A i \in 1 .. Len(c) : c[i] \in Nat
  BY <1>1
<1>3. \A i, j \in 1 .. Len(c) : i < j => c[i] <= c[j]
  BY PacketsAssumption
<1>4. \A i, j \in 1 .. Len(c) : i <= j => c[i] <= c[j]
  <2> SUFFICES ASSUME NEW i \in 1 .. Len(c), NEW j \in 1 .. Len(c), i <= j
               PROVE  c[i] <= c[j]
    OBVIOUS
  <2>1. CASE i = j
    BY <2>1, <1>2
  <2>2. CASE i < j
    BY <2>2, <1>3
  <2> QED BY <2>1, <2>2, <1>2
<1>5. \A i \in 1 .. Len(c) : c[i] <= c[Len(c)]
  BY <1>1, <1>2, <1>4
<1>6. Proto = "TCP" => \A i, j \in 1 .. Len(c) : i < j => c[i] < c[j]
  BY PacketsAssumption
<1>7. /\ Proto = "TCP" => c[1] > 0
      /\ Len(c) > 1 => c[Len(c) - 1] < c[Len(c)]
  BY PacketsAssumption
<1> QED BY <1>1, <1>2, <1>4, <1>5, <1>6, <1>7

(* What Append1 makes of a packet c.                                       *)
Appended(c) ==
  LET k == Len(c)
      start(i) == IF i = received + 1 THEN 0 ELSE c[i - received - 1]
  IN /\ k \in Nat /\ k > 0 /\ received' = received + k /\ received' <= NumPbufs
     /\ c[k] \in Nat /\ rcv_nxt' = rcv_nxt + c[k]
     /\ next' \in [Pbufs -> Pbufs \cup {NULL}] /\ ref' \in [Pbufs -> Nat]
     /\ len' \in [Pbufs -> Nat] /\ tot_len' \in [Pbufs -> Nat] /\ payload' \in [Pbufs -> Nat]
     /\ \A i \in 1 .. received :
          /\ payload'[i] = payload[i] /\ len'[i] = len[i] /\ ref'[i] = ref[i]
          /\ Proto = "UDP" => tot_len'[i] = tot_len[i]
          /\ next'[i] = IF rx_chain # NULL /\ i = received THEN received + 1 ELSE next[i]
     /\ \A i \in received + 1 .. received' :
          /\ payload'[i] = rcv_nxt + start(i)
          /\ payload'[i] + len'[i] = rcv_nxt + c[i - received]
          /\ tot_len'[i] = c[k] - start(i)
          /\ ref'[i] = 1 /\ next'[i] = IF i = received' THEN NULL ELSE i + 1
          /\ Proto = "TCP" => len'[i] > 0
     /\ received' > received + 1 => len'[received'] > 0

(* Append1 in the terms the proofs need: what old and new pbufs hold.      *)
LEMMA AppendFacts ==
  ASSUME IInv, NEW c \in Packets, received + Len(c) <= NumPbufs, Append1(c),
         rx_chain = NULL \/ rx_chain \in heap
  PROVE  Appended(c)
<1> DEFINE k == Len(c)
           new == received + 1 .. received + k
           start(i) == IF i = received + 1 THEN 0 ELSE c[i - received - 1]
           tail == IF rx_chain = NULL THEN NULL ELSE Last(rx_chain)
<1>1. /\ k \in Nat /\ k > 0 /\ received' = received + k /\ received' <= NumPbufs
      /\ c[k] \in Nat /\ rcv_nxt' = rcv_nxt + c[k] /\ received \in Nat /\ rcv_nxt \in Nat
  BY PacketFacts DEF Append1, IInv, TypeOK
<1>2. tail = IF rx_chain = NULL THEN NULL ELSE received
  BY FrontAtArrival
<1>3. \A i \in new : /\ i \in Pbufs /\ i - received \in 1 .. k /\ c[i - received] \in Nat
                     /\ start(i) \in Nat /\ start(i) <= c[i - received] /\ c[i - received] <= c[k]
                     /\ Proto = "TCP" => start(i) < c[i - received]
  <2> SUFFICES ASSUME NEW i \in new
               PROVE  /\ i \in Pbufs /\ i - received \in 1 .. k /\ c[i - received] \in Nat
                      /\ start(i) \in Nat /\ start(i) <= c[i - received] /\ c[i - received] <= c[k]
                      /\ Proto = "TCP" => start(i) < c[i - received]
    OBVIOUS
  <2>1. i \in Pbufs /\ i - received \in 1 .. k
    BY <1>1, NumAssumption DEF Pbufs
  <2>2. c[i - received] \in Nat /\ c[i - received] <= c[k]
    BY <2>1, <1>1, PacketFacts
  <2>3. CASE i = received + 1
    BY <2>1, <2>2, <2>3, <1>1, PacketFacts
  <2>4. CASE i # received + 1
    <3>1. i - received - 1 \in 1 .. k /\ i - received - 1 < i - received
      BY <2>1, <2>4, <1>1
    <3> QED BY <2>1, <2>2, <2>4, <3>1, <1>1, PacketFacts
  <2> QED BY <2>3, <2>4
<1>4. \A i \in Pbufs : i \in 1 .. received => i \notin new
  BY <1>1
<1> HIDE DEF tail, start
<1>5. /\ next' = [i \in Pbufs |->
                   IF i \in new THEN IF i = received + k THEN NULL ELSE i + 1
                   ELSE IF i = tail THEN received + 1 ELSE next[i]]
      /\ len' = [i \in Pbufs |-> IF i \in new THEN c[i - received] - start(i) ELSE len[i]]
      /\ tot_len' = [i \in Pbufs |->
                   IF i \in new THEN c[k] - start(i)
                   ELSE IF Proto = "TCP" /\ tail # NULL /\ i \in rx_chain .. tail
                        THEN tot_len[i] + c[k] ELSE tot_len[i]]
      /\ payload' = [i \in Pbufs |-> IF i \in new THEN rcv_nxt + start(i) ELSE payload[i]]
      /\ ref' = [i \in Pbufs |-> IF i \in new THEN 1 ELSE ref[i]]
  BY DEF Append1, tail, start
<1>6. /\ next' \in [Pbufs -> Pbufs \cup {NULL}] /\ ref' \in [Pbufs -> Nat]
      /\ len' \in [Pbufs -> Nat] /\ tot_len' \in [Pbufs -> Nat] /\ payload' \in [Pbufs -> Nat]
  <2>1. \A i \in new : i # received + k => i + 1 \in Pbufs
    BY <1>1, <1>3, NumAssumption DEF Pbufs
  <2>2. received + 1 \in Pbufs
    BY <1>1, NumAssumption DEF Pbufs
  <2>3. next' \in [Pbufs -> Pbufs \cup {NULL}]
    BY <1>5, <2>1, <2>2 DEF IInv, TypeOK
  <2>4. ref' \in [Pbufs -> Nat]
    BY <1>5 DEF IInv, TypeOK
  <2>5. len' \in [Pbufs -> Nat]
    <3>1. \A i \in new : c[i - received] - start(i) \in Nat
      BY <1>3
    <3> QED BY <3>1, <1>5 DEF IInv, TypeOK
  <2>6. tot_len' \in [Pbufs -> Nat]
    <3>1. \A i \in new : c[k] - start(i) \in Nat
      <4> SUFFICES ASSUME NEW i \in new PROVE c[k] - start(i) \in Nat
        OBVIOUS
      <4>1. start(i) \in Nat /\ start(i) <= c[i - received] /\ c[i - received] \in Nat /\ c[i - received] <= c[k]
        BY <1>3
      <4> QED BY <4>1, <1>1
    <3>2. \A i \in Pbufs : tot_len[i] + c[k] \in Nat /\ tot_len[i] \in Nat
      BY <1>1 DEF IInv, TypeOK
    <3> QED BY <3>1, <3>2, <1>5
  <2>7. payload' \in [Pbufs -> Nat]
    <3>1. \A i \in new : rcv_nxt + start(i) \in Nat
      BY <1>1, <1>3
    <3> QED BY <3>1, <1>5 DEF IInv, TypeOK
  <2> QED BY <2>3, <2>4, <2>5, <2>6, <2>7
<1>7. \A i \in 1 .. received :
          /\ payload'[i] = payload[i] /\ len'[i] = len[i] /\ ref'[i] = ref[i]
          /\ Proto = "UDP" => tot_len'[i] = tot_len[i]
          /\ next'[i] = IF rx_chain # NULL /\ i = received THEN received + 1 ELSE next[i]
  BY <1>1, <1>2, <1>4, <1>5, PbufFacts DEF NULL
<1>8. \A i \in received + 1 .. received' :
          /\ payload'[i] = rcv_nxt + start(i)
          /\ payload'[i] + len'[i] = rcv_nxt + c[i - received]
          /\ tot_len'[i] = c[k] - start(i)
          /\ ref'[i] = 1 /\ next'[i] = IF i = received' THEN NULL ELSE i + 1
          /\ Proto = "TCP" => len'[i] > 0
  BY <1>1, <1>3, <1>5
<1>9. received' > received + 1 => len'[received'] > 0
  <2> SUFFICES ASSUME received' > received + 1 PROVE len'[received'] > 0
    OBVIOUS
  <2>1. k > 1 /\ received + k \in new /\ received + k - received = k /\ received + k # received + 1
    BY <1>1
  <2>2. start(received + k) = c[k - 1]
    BY <2>1, <1>1 DEF start
  <2>3. len'[received'] = c[k] - start(received + k)
    BY <2>1, <1>1, <1>3, <1>5
  <2>4. c[k - 1] < c[k] /\ c[k - 1] \in Nat
    BY <2>1, <1>1, PacketFacts
  <2> QED BY <2>2, <2>3, <2>4, <1>1
<1> QED BY <1>1, <1>6, <1>7, <1>8, <1>9 DEF Appended, start

(* The stream positions after the arrival: old pbufs keep theirs, the new  *)
(* ones go on where the stream ended.                                      *)
LEMMA StreamAtArrival ==
  ASSUME IInv, NEW c \in Packets, Appended(c)
  PROVE  /\ \A i \in 1 .. received : EndOf(i)' = EndOf(i)
         /\ \A i \in received + 1 .. received' :
              /\ EndOf(i)' \in Nat /\ payload'[i] <= EndOf(i)' /\ rcv_nxt <= payload'[i]
              /\ EndOf(i)' <= rcv_nxt'
              /\ EndOf(i)' = IF i = received' THEN rcv_nxt' ELSE payload'[i + 1]
         /\ \A i, j \in received + 1 .. received' : i < j => EndOf(i)' <= payload'[j]
         /\ payload'[received + 1] = rcv_nxt
         /\ payload'[received + 1] + tot_len'[received + 1] = EndOf(received)'
<1>1. /\ received \in Nat /\ rcv_nxt \in Nat /\ received' \in Nat /\ received' = received + Len(c)
      /\ Len(c) \in Nat /\ Len(c) > 0 /\ rcv_nxt' = rcv_nxt + c[Len(c)] /\ c[Len(c)] \in Nat
  BY DEF IInv, TypeOK, Appended
<1>2. \A i \in 1 .. received : EndOf(i)' = EndOf(i)
  BY DEF Appended, EndOf
<1> DEFINE start(i) == IF i = received + 1 THEN 0 ELSE c[i - received - 1]
<1>3. \A i \in received + 1 .. received' :
        /\ payload'[i] = rcv_nxt + start(i) /\ EndOf(i)' = rcv_nxt + c[i - received]
        /\ tot_len'[i] = c[Len(c)] - start(i) /\ i - received \in 1 .. Len(c)
        /\ c[i - received] \in Nat /\ c[i - received] <= c[Len(c)]
  BY <1>1, PacketFacts DEF Appended, EndOf
<1> HIDE DEF start
<1>4. \A i \in received + 1 .. received' : start(i) \in Nat /\ start(i) <= c[i - received]
  <2> SUFFICES ASSUME NEW i \in received + 1 .. received'
               PROVE  start(i) \in Nat /\ start(i) <= c[i - received]
    OBVIOUS
  <2>1. CASE i = received + 1
    <3>1. start(i) = 0
      BY <2>1 DEF start
    <3> QED BY <3>1, <1>3
  <2>2. CASE i # received + 1
    <3>1. i - received - 1 \in 1 .. Len(c) /\ i - received - 1 <= i - received /\ i - received \in 1 .. Len(c)
      BY <2>2, <1>1, <1>3
    <3>2. start(i) = c[i - received - 1]
      BY <2>2 DEF start
    <3> QED BY <3>1, <3>2, PacketFacts
  <2> QED BY <2>1, <2>2
<1>5. \A i, j \in received + 1 .. received' : i < j => EndOf(i)' <= payload'[j]
  <2> SUFFICES ASSUME NEW i \in received + 1 .. received', NEW j \in received + 1 .. received', i < j
               PROVE  EndOf(i)' <= payload'[j]
    OBVIOUS
  <2>0. j # received + 1
    BY <1>1
  <2>1. start(j) = c[j - received - 1] /\ j - received - 1 \in 1 .. Len(c) /\ i - received <= j - received - 1
    BY <2>0, <1>1, <1>3 DEF start
  <2>2. c[i - received] <= c[j - received - 1] /\ c[j - received - 1] \in Nat
    BY <2>1, <1>3, PacketFacts
  <2>3. EndOf(i)' = rcv_nxt + c[i - received] /\ payload'[j] = rcv_nxt + c[j - received - 1] /\ c[i - received] \in Nat
    BY <1>3, <2>1
  <2> QED BY <1>1, <2>2, <2>3
<1>6. \A i \in received + 1 .. received' :
        EndOf(i)' = IF i = received' THEN rcv_nxt' ELSE payload'[i + 1]
  <2> SUFFICES ASSUME NEW i \in received + 1 .. received'
               PROVE  EndOf(i)' = IF i = received' THEN rcv_nxt' ELSE payload'[i + 1]
    OBVIOUS
  <2>1. CASE i = received'
    BY <2>1, <1>1, <1>3
  <2>2. CASE i # received'
    <3>1. i + 1 \in received + 1 .. received' /\ i + 1 # received + 1 /\ (i + 1) - received - 1 = i - received
      BY <2>2, <1>1
    <3>2. start(i + 1) = c[i - received]
      BY <3>1 DEF start
    <3> QED BY <2>2, <3>1, <3>2, <1>3
  <2> QED BY <2>1, <2>2
<1>7. received + 1 \in received + 1 .. received' /\ received' \in received + 1 .. received'
  BY <1>1
<1>8. payload'[received + 1] = rcv_nxt /\ tot_len'[received + 1] = c[Len(c)]
  <2>1. start(received + 1) = 0
    BY DEF start
  <2> QED BY <2>1, <1>1, <1>3, <1>7
<1>9. \A i \in received + 1 .. received' :
        /\ EndOf(i)' \in Nat /\ payload'[i] <= EndOf(i)' /\ rcv_nxt <= payload'[i]
        /\ EndOf(i)' <= rcv_nxt'
  <2> SUFFICES ASSUME NEW i \in received + 1 .. received'
               PROVE  /\ EndOf(i)' \in Nat /\ payload'[i] <= EndOf(i)' /\ rcv_nxt <= payload'[i]
                      /\ EndOf(i)' <= rcv_nxt'
    OBVIOUS
  <2>1. /\ EndOf(i)' = rcv_nxt + c[i - received] /\ payload'[i] = rcv_nxt + start(i)
        /\ c[i - received] \in Nat /\ c[i - received] <= c[Len(c)]
    BY <1>3
  <2>2. start(i) \in Nat /\ start(i) <= c[i - received]
    BY <1>4
  <2> QED BY <1>1, <2>1, <2>2
<1>10. payload'[received + 1] + tot_len'[received + 1] = EndOf(received)'
  BY <1>1, <1>3, <1>7, <1>8 DEF EndOf
<1> QED BY <1>2, <1>5, <1>6, <1>8, <1>9, <1>10

(* A packet that is linked keeps every conjunct of the invariant, wherever *)
(* the consumer is.                                                        *)
LEMMA ArrivalInv ==
  ASSUME IInv, NEW c \in Packets, received + Len(c) <= NumPbufs, Append1(c),
         Proto = "TCP" => c[Len(c)] <= rcv_wnd,
         rx_chain = NULL \/ rx_chain \in heap,
         rcv_wnd' = IF Proto = "TCP" THEN rcv_wnd - c[Len(c)] ELSE rcv_wnd,
         tpc' = "notify", UNCHANGED <<corrupt, signalled, pc, locals, results, rd>>
  PROVE  IInv'
<1> DEFINE new == received + 1 .. received'
<1>a. Appended(c)
  BY AppendFacts
<1>f. /\ Front = rx_chain /\ received \in Nat
      /\ rx_chain = NULL => pc = "idle"
      /\ rx_chain # NULL => rx_chain \in 1 .. received
      /\ pc # "idle" => p = rx_chain
      /\ pc = "free" => victim = p
  BY FrontAtArrival
<1>s. /\ \A i \in 1 .. received : EndOf(i)' = EndOf(i)
      /\ \A i \in new :
              /\ EndOf(i)' \in Nat /\ payload'[i] <= EndOf(i)' /\ rcv_nxt <= payload'[i]
              /\ EndOf(i)' <= rcv_nxt'
              /\ EndOf(i)' = IF i = received' THEN rcv_nxt' ELSE payload'[i + 1]
      /\ \A i, j \in new : i < j => EndOf(i)' <= payload'[j]
      /\ payload'[received + 1] = rcv_nxt
      /\ payload'[received + 1] + tot_len'[received + 1] = EndOf(received)'
  BY <1>a, StreamAtArrival
<1>r. /\ received' \in Nat /\ received < received' /\ received' <= NumPbufs
      /\ rcv_nxt \in Nat /\ rcv_nxt' \in Nat /\ rcv_nxt <= rcv_nxt'
      /\ \A i : i \in 1 .. received' <=> i \in 1 .. received \/ i \in new
      /\ \A i \in 1 .. received : i \notin new
      /\ new \subseteq Pbufs
      /\ heap' = heap \cup new /\ first' = first \cup {received + 1}
      /\ rx_chain' = IF rx_chain = NULL THEN received + 1 ELSE rx_chain
      /\ raced' = IF pc \in {"unlink", "free"} /\ q = NULL THEN raced \cup new ELSE raced
      /\ received + 1 \in new
  <2>1. /\ received' = received + Len(c) /\ Len(c) \in Nat /\ Len(c) > 0 /\ received' <= NumPbufs
        /\ rcv_nxt' = rcv_nxt + c[Len(c)] /\ c[Len(c)] \in Nat
    BY <1>a DEF Appended
  <2>2. rcv_nxt \in Nat
    BY DEF IInv, TypeOK
  <2>3. /\ received' \in Nat /\ received < received'
        /\ rcv_nxt' \in Nat /\ rcv_nxt <= rcv_nxt' /\ received + 1 \in new
        /\ \A i : i \in 1 .. received' <=> i \in 1 .. received \/ i \in new
        /\ \A i \in 1 .. received : i \notin new
    BY <1>f, <2>1, <2>2
  <2>4. new \subseteq Pbufs
    BY <1>f, <2>1, <2>3, NumAssumption DEF Pbufs
  <2>5. /\ heap' = heap \cup new /\ first' = first \cup {received + 1}
        /\ rx_chain' = IF rx_chain = NULL THEN received + 1 ELSE rx_chain
        /\ raced' = IF pc \in {"unlink", "free"} /\ q = NULL THEN raced \cup new ELSE raced
    BY <2>1 DEF Append1
  <2> QED BY <2>1, <2>2, <2>3, <2>4, <2>5
<1>c. /\ pc' = pc /\ p' = p /\ q' = q /\ walk' = walk /\ victim' = victim /\ left' = left
      /\ size' = size /\ copied' = copied /\ consume' = consume /\ more' = more
      /\ clipped' = clipped /\ rd' = rd /\ corrupt' = corrupt /\ signalled' = signalled
  BY DEF locals, results
<1>m. \A i \in 1 .. received : payload'[i] = payload[i] /\ len'[i] = len[i] /\ ref'[i] = ref[i]
  BY <1>a DEF Appended
<1>n. /\ \A i \in 1 .. received :
           next'[i] = IF rx_chain # NULL /\ i = received THEN received + 1 ELSE next[i]
      /\ \A i \in new : next'[i] = IF i = received' THEN NULL ELSE i + 1
      /\ \A i \in new : ref'[i] = 1
  BY <1>a DEF Appended
<1>o. Front' = rx_chain' /\ rx_chain' \in 1 .. received' /\ (rx_chain # NULL => rx_chain' = rx_chain)
  BY <1>f, <1>r, <1>c DEF Front, NULL
<1>l. \A a \in 1 .. received : rx_chain # NULL /\ Linked(a) => Linked(a)'
  BY <1>n, <1>r, <1>f DEF Linked
<1>g. \A a \in 1 .. received : Contiguous(a) => Contiguous(a)'
  <2> SUFFICES ASSUME NEW a \in 1 .. received, Contiguous(a), NEW i \in a .. received'
               PROVE  EndOf(i)' = IF i = received' THEN rcv_nxt' ELSE payload'[i + 1]
    BY DEF Contiguous
  <2>1. CASE i \in new
    BY <2>1, <1>s
  <2>2. CASE i \in 1 .. received /\ i # received
    <3>1. EndOf(i)' = payload[i + 1] /\ i + 1 \in 1 .. received /\ i # received'
      BY <2>2, <1>s, <1>f, <1>r DEF Contiguous
    <3> QED BY <3>1, <1>m
  <2>3. CASE i = received
    BY <2>3, <1>s, <1>f, <1>r DEF Contiguous
  <2> QED BY <2>1, <2>2, <2>3, <1>f, <1>r
<1>w. \A a \in 1 .. received : rx_chain # NULL /\ Owned(a) => Owned(a)'
  <2> SUFFICES ASSUME NEW a \in 1 .. received, rx_chain # NULL, Owned(a) PROVE Owned(a)'
    OBVIOUS
  <2>1. Linked(a)' /\ Contiguous(a)'
    BY <1>l, <1>g DEF Owned
  <2>2. \A i \in a .. received : i \in heap' /\ ref'[i] = 1
    BY <1>r, <1>m DEF Owned
  <2>3. \A i \in new : i \in heap' /\ ref'[i] = 1
    BY <1>r, <1>n
  <2>4. \A i \in a .. received' : i \in a .. received \/ i \in new
    BY <1>r, <1>f
  <2>5. \A i \in a .. received' : i \in heap' /\ ref'[i] = 1
    BY <2>2, <2>3, <2>4
  <2> QED BY <2>1, <2>5 DEF Owned
<1>z. rx_chain = NULL => Owned(rx_chain)'
  BY <1>r, <1>n, <1>s, <1>o DEF Owned, Linked, Contiguous
<1>1. TypeOK'
  <2>1. /\ next' \in [Pbufs -> Pbufs \cup {NULL}] /\ ref' \in [Pbufs -> Nat]
        /\ len' \in [Pbufs -> Nat] /\ tot_len' \in [Pbufs -> Nat] /\ payload' \in [Pbufs -> Nat]
    BY <1>a DEF Appended
  <2>2. rcv_wnd' \in Nat
    BY <1>a, PacketFacts, ProtoAssumption DEF IInv, TypeOK, Appended
  <2>3. heap' \subseteq Pbufs /\ first' \subseteq Pbufs /\ raced' \subseteq Pbufs
    BY <1>r DEF IInv, TypeOK
  <2>4. \A x : x \in 0 .. received => x \in 0 .. received'
    BY <1>r, <1>f
  <2>5. received' \in 0 .. NumPbufs /\ rx_chain' \in 0 .. received'
    BY <1>r, <1>o, NumAssumption
  <2> QED BY <1>c, <1>r, <2>1, <2>2, <2>3, <2>4, <2>5 DEF IInv, TypeOK
<1>2. Ordered'
  <2>1. \A i \in 1 .. received' : EndOf(i)' <= rcv_nxt'
    <3>1. \A i \in 1 .. received : EndOf(i)' <= rcv_nxt'
      BY <1>s, <1>r, PbufFacts
    <3> QED BY <3>1, <1>s, <1>r
  <2>2. \A i, j \in 1 .. received' : i < j => EndOf(i)' <= payload'[j]
    <3> SUFFICES ASSUME NEW i \in 1 .. received', NEW j \in 1 .. received', i < j
                 PROVE  EndOf(i)' <= payload'[j]
      OBVIOUS
    <3>1. CASE i \in 1 .. received /\ j \in 1 .. received
      BY <3>1, <1>s, <1>m DEF IInv, Ordered
    <3>2. CASE i \in 1 .. received /\ j \in new
      <4>1. EndOf(i)' = EndOf(i) /\ EndOf(i) <= rcv_nxt /\ EndOf(i) \in Nat /\ rcv_nxt \in Nat
        BY <3>2, <1>s, <1>r, PbufFacts
      <4>2. rcv_nxt <= payload'[j] /\ payload'[j] \in Nat
        BY <3>2, <1>s, <1>r, <1>a DEF Appended
      <4> QED BY <4>1, <4>2
    <3>3. CASE i \in new /\ j \in new
      BY <3>3, <1>s
    <3> QED BY <3>1, <3>2, <3>3, <1>r, <1>f
  <2>3. heap' \subseteq 1 .. received' /\ raced' \subseteq 1 .. received' /\ first' \subseteq 1 .. received'
    BY <1>r DEF IInv, Ordered
  <2>4. Proto = "TCP" => \A i \in 1 .. received' : i > Front' => len'[i] > 0
    <3>1. Proto = "TCP" => \A i \in new : len'[i] > 0
      BY <1>a DEF Appended
    <3>2. Proto = "TCP" /\ rx_chain # NULL => \A i \in 1 .. received : i > rx_chain => len'[i] > 0
      BY <1>f, <1>m DEF IInv, Ordered
    <3>3. rx_chain = NULL => \A i \in 1 .. received : ~(i > rx_chain')
      BY <1>f, <1>r
    <3> QED BY <3>1, <3>2, <3>3, <1>o, <1>r
  <2>5. Linked(rx_chain)'
    BY <1>l, <1>z, <1>f, <1>o DEF IInv, Ordered, Linked, Owned
  <2> QED BY <2>1, <2>2, <2>3, <2>4, <2>5 DEF Ordered
<1>3. IdleInv'
  BY <1>a, <1>c, <1>f, <1>m, <1>o, <1>r, <1>w, <1>z DEF IInv, IdleInv, Appended, NULL
<1>4. CopyInv'
  <2> SUFFICES ASSUME pc = "copy" PROVE CopyInv'
    BY <1>c DEF CopyInv
  <2>1. p \in 1 .. received /\ walk \in 0 .. received /\ copied \in Nat /\ payload[p] \in Nat
    BY <1>f, PbufFacts DEF IInv, TypeOK, NULL
  <2>2. Proto = "UDP" => tot_len'[p] = tot_len[p]
    BY <2>1, <1>a DEF Appended
  <2>3. walk # NULL => payload'[walk] = payload[walk]
    BY <2>1, <1>m DEF NULL
  <2>4. payload'[p] = payload[p]
    BY <2>1, <1>m
  <2> QED BY <1>c, <1>r, <2>1, <2>2, <2>3, <2>4 DEF IInv, CopyInv
<1>5. ConsumeInv'
  BY <1>c, <1>f, <1>o, <1>r DEF IInv, TypeOK, ConsumeInv, InCall, NULL
<1>6. LoopInv'
  BY <1>c, <1>f, <1>m, <1>o, <1>r, <1>s, <1>w
     DEF IInv, LoopInv, ConsumeInv, InCall, NULL
<1>7. FreeInv'
  <2> SUFFICES ASSUME pc = "free" PROVE FreeInv'
    BY <1>c DEF FreeInv
  <2>1. /\ rx_chain # NULL /\ p = rx_chain /\ victim = p /\ p \in 1 .. received /\ p \in heap
        /\ rx_chain' = p /\ consume \in Nat
        /\ EndOf(p)' = EndOf(p)
        /\ raced' = IF q = NULL THEN raced \cup new ELSE raced
    BY <1>c, <1>f, <1>m, <1>r DEF IInv, TypeOK, ConsumeInv, InCall, EndOf
  <2>2. Linked(p)'
    BY <2>1, <1>l, <1>c DEF IInv, FreeInv
  <2>3. ASSUME q # NULL
        PROVE  /\ q = p + 1 /\ walk = q /\ q \in 1 .. received
               /\ Linked(q)' /\ Contiguous(q)' /\ EndOf(p) = payload'[q]
               /\ \A i \in p .. received' : i \in heap'
               /\ \A i \in q .. received' : ref'[i] = IF i = q THEN 2 ELSE 1
               /\ heap' \subseteq raced' \cup p .. received'
    <3>1. /\ q = p + 1 /\ walk = q /\ q \in 1 .. received /\ Linked(q) /\ Contiguous(q)
          /\ EndOf(p) = payload[q]
          /\ \A i \in p .. received : i \in heap
          /\ \A i \in q .. received : ref[i] = IF i = q THEN 2 ELSE 1
          /\ heap \subseteq raced \cup p .. received
      BY <2>1, <2>3 DEF IInv, FreeInv, TypeOK, NULL
    <3>2. Linked(q)' /\ Contiguous(q)'
      BY <3>1, <2>1, <1>l, <1>g, <1>c
    <3>3. \A i \in q .. received' : ref'[i] = IF i = q THEN 2 ELSE 1
      BY <3>1, <1>m, <1>n, <1>r, <1>f
    <3>4. (\A i \in p .. received' : i \in heap') /\ heap' \subseteq raced' \cup p .. received'
      BY <3>1, <2>1, <2>3, <1>r, <1>f
    <3> QED BY <3>1, <3>2, <3>3, <3>4, <1>m
  <2>4. ASSUME q = NULL
        PROVE  /\ consume = 0 /\ p + 1 .. received' \subseteq raced' /\ p # received'
               /\ walk # NULL => walk = victim + 1
               /\ \A i \in victim + 1 .. received' : ref'[i] = 1
               /\ heap' \subseteq raced' \cup {p}
    <3>1. /\ consume = 0 /\ p + 1 .. received \subseteq raced
          /\ walk # NULL => walk = victim + 1
          /\ \A i \in victim + 1 .. received : ref[i] = 1
          /\ heap \subseteq raced \cup {p}
      BY <2>4 DEF IInv, FreeInv
    <3>2. \A i \in victim + 1 .. received' : ref'[i] = 1
      <4>1. \A i \in victim + 1 .. received : ref'[i] = 1
        BY <3>1, <2>1, <1>m, <1>f
      <4>2. \A i \in victim + 1 .. received' : i \in victim + 1 .. received \/ i \in new
        BY <2>1, <1>r, <1>f
      <4> QED BY <4>1, <4>2, <1>n
    <3>3. p + 1 .. received' \subseteq raced' /\ p # received' /\ heap' \subseteq raced' \cup {p}
      BY <3>1, <2>1, <2>4, <1>r, <1>f
    <3> QED BY <3>1, <3>2, <3>3
  <2>5. rd = EndOf(p) + consume
    BY DEF IInv, FreeInv
  <2> QED BY <1>c, <2>1, <2>2, <2>3, <2>4, <2>5 DEF FreeInv, Linked, Contiguous, EndOf
<1>8. UdpInv'
  <2> SUFFICES ASSUME Proto = "UDP" PROVE UdpInv'
    BY DEF UdpInv
  <2>0. /\ first \subseteq 1 .. received
        /\ \A i \in 1 .. received : i \in first' => i \in first
        /\ \A m \in 1 .. received : m + 1 \in first \cup {received + 1} => m + 1 \in first'
    BY <1>f, <1>r DEF IInv, Ordered
  <2>1. \A i \in 1 .. received : \A m \in i .. received :
          LastOf(i, m) => m \in i .. received' /\ LastOf(i, m)' /\ EndOf(m)' = EndOf(m)
    <3> SUFFICES ASSUME NEW i \in 1 .. received, NEW m \in i .. received, LastOf(i, m)
                 PROVE  m \in i .. received' /\ LastOf(i, m)' /\ EndOf(m)' = EndOf(m)
      OBVIOUS
    <3>1. m \in 1 .. received /\ m \in i .. received'
      BY <1>f, <1>r
    <3>2. m + 1 \in first' /\ (m > i => len'[m] > 0)
      BY <3>1, <2>0, <1>m DEF LastOf
    <3>3. \A j \in i + 1 .. m : j \notin first'
      BY <3>1, <2>0, <1>f DEF LastOf
    <3> QED BY <3>1, <3>2, <3>3, <1>s DEF LastOf
  <2>2. \A i \in 1 .. received : payload'[i] = payload[i] /\ tot_len'[i] = tot_len[i]
    BY <1>a, <1>m DEF Appended
  <2>3. \A m : m \in 1 .. received => m \in 1 .. received'
    BY <1>r
  <2>4. \A i : i = received + 1 => LastOf(i, received)'
    BY <1>a, <1>f, <1>r, <2>0 DEF LastOf, Appended
  <2>5. \A i \in first' : Front' # NULL /\ (IF Untouched' THEN i >= Front' ELSE i > Front') =>
          \E m \in i .. received' : LastOf(i, m)' /\ payload'[i] + tot_len'[i] = EndOf(m)'
    <3> SUFFICES ASSUME NEW i \in first', Front' # NULL,
                        IF Untouched' THEN i >= Front' ELSE i > Front'
                 PROVE  \E m \in i .. received' :
                          LastOf(i, m)' /\ payload'[i] + tot_len'[i] = EndOf(m)'
      OBVIOUS
    <3>1. CASE i = received + 1
      <4>1. \E m \in i .. received' : m = received'
        BY <3>1, <1>f, <1>r
      <4> QED BY <3>1, <4>1, <2>4, <1>s DEF LastOf, EndOf
    <3>2. CASE i \in first
      <4>1. i \in 1 .. received /\ Front # NULL /\ (IF Untouched THEN i >= Front ELSE i > Front)
        BY <3>2, <2>0, <1>c, <1>f, <1>o, <1>r DEF Untouched
      <4>2. PICK m \in i .. received : LastOf(i, m) /\ payload[i] + tot_len[i] = EndOf(m)
        BY <3>2, <4>1 DEF IInv, UdpInv
      <4> QED BY <4>1, <4>2, <2>1, <2>2
    <3> QED BY <3>1, <3>2, <1>r
  <2>6. Untouched' /\ Front' # NULL => Front' \in first'
    BY <1>c, <1>f, <1>o, <1>r DEF IInv, UdpInv, Untouched
  <2>7. InCall' => more'
    BY <1>c DEF IInv, UdpInv, InCall
  <2>8. pc' = "consume" =>
         /\ \E m \in p .. received' : LastOf(p, m)' /\ rd = EndOf(m)'
         /\ p \in first' => copied <= consume
    <3> SUFFICES ASSUME pc = "consume"
                 PROVE  /\ \E m \in p .. received' : LastOf(p, m)' /\ rd = EndOf(m)'
                        /\ p \in first' => copied <= consume
      BY <1>c
    <3>1. p \in 1 .. received
      BY <1>f DEF IInv, ConsumeInv, InCall
    <3>2. PICK m \in p .. received : LastOf(p, m) /\ rd = EndOf(m)
      BY DEF IInv, UdpInv
    <3>3. \A i : i = p => LastOf(i, m)'
      BY <3>1, <3>2, <2>1
    <3>4. LastOf(p, m)'
      BY <3>3, <1>c DEF LastOf
    <3>5. p \in first' => copied <= consume
      BY <3>1, <2>0 DEF IInv, UdpInv
    <3> QED BY <3>1, <3>2, <3>4, <3>5, <2>1
  <2>9. pc' \in {"unlink", "free"} /\ q # NULL =>
         IF consume = 0 THEN q \in first'
         ELSE /\ q \notin first'
              /\ \E m \in q .. received' : LastOf(q, m)' /\ rd = EndOf(m)'
    <3> SUFFICES ASSUME pc \in {"unlink", "free"}, q # NULL
                 PROVE  IF consume = 0 THEN q \in first'
                        ELSE /\ q \notin first'
                             /\ \E m \in q .. received' : LastOf(q, m)' /\ rd = EndOf(m)'
      BY <1>c
    <3>1. q \in 1 .. received
      BY <1>f DEF IInv, TypeOK, NULL
    <3>2. consume = 0 => q \in first'
      BY <1>r DEF IInv, UdpInv
    <3>3. ASSUME consume # 0
          PROVE  q \notin first' /\ \E m \in q .. received' : LastOf(q, m)' /\ rd = EndOf(m)'
      <4>1. q \notin first /\ \E m \in q .. received : LastOf(q, m) /\ rd = EndOf(m)
        BY <3>3 DEF IInv, UdpInv
      <4>2. PICK m \in q .. received : LastOf(q, m) /\ rd = EndOf(m)
        BY <4>1
      <4>3. \A i : i = q => LastOf(i, m)'
        BY <3>1, <4>2, <2>1
      <4>4. LastOf(q, m)'
        BY <4>3, <1>c DEF LastOf
      <4> QED BY <3>1, <4>1, <4>2, <4>4, <2>0, <2>1
    <3> QED BY <3>2, <3>3
  <2> QED BY <1>c, <2>5, <2>6, <2>7, <2>8, <2>9 DEF UdpInv, LastOf, EndOf
<1>9. HistoryInv'
  <2>1. Position' = Position /\ Position \in Nat
    BY <1>f, <1>m, <1>o, <1>r, <1>s, PbufFacts DEF Position, NULL
  <2>2. Proto = "TCP" => rcv_wnd' + rcv_nxt' = rcv_wnd + rcv_nxt /\ rcv_wnd' \in Nat
    <3>1. c[Len(c)] \in Nat /\ rcv_nxt' = rcv_nxt + c[Len(c)] /\ rcv_wnd \in Nat
      BY <1>a DEF IInv, TypeOK, Appended
    <3>2. Proto = "TCP" => rcv_wnd' = rcv_wnd - c[Len(c)] /\ c[Len(c)] <= rcv_wnd
      OBVIOUS
    <3>3. PICK n \in Nat : n = c[Len(c)]
      BY <3>1
    <3>4. Proto = "TCP" => rcv_wnd' = rcv_wnd - n /\ n <= rcv_wnd /\ rcv_nxt' = rcv_nxt + n
      BY <3>1, <3>2, <3>3
    <3>5. rcv_wnd \in Nat /\ rcv_nxt \in Nat /\ n \in Nat
      BY DEF IInv, TypeOK
    <3>6. Proto = "TCP" => rcv_wnd' \in Nat
      BY <3>4, <3>5
    <3>7. Proto = "TCP" => rcv_wnd' + rcv_nxt' = rcv_wnd + rcv_nxt
      BY <3>4, <3>5
    <3> QED BY <3>6, <3>7
  <2>3. raced' = {} => raced = {}
    BY <1>r
  <2>4. /\ rcv_wnd \in Nat /\ rcv_nxt \in Nat /\ rcv_nxt' \in Nat /\ rd \in Nat /\ copied \in Nat
        /\ pc' = pc /\ rd' = rd /\ copied' = copied
    BY <1>r, <1>c DEF IInv, TypeOK
  <2>5. pc \in {"idle", "copy"} => raced' = raced
    BY <1>r
  <2>6. HistoryInv /\ rcv_nxt <= rcv_nxt'
    BY <1>r DEF IInv
  <2>7. /\ pc \in {"idle", "copy"} => rd <= Position' /\ (raced' = {} => rd = Position')
        /\ Proto = "TCP" /\ pc \in {"idle", "copy"} =>
             /\ rcv_wnd' + rcv_nxt' <= TcpWnd + Position'
             /\ raced' = {} => rcv_wnd' + rcv_nxt' = TcpWnd + Position'
    BY <2>1, <2>2, <2>4, <2>5, <2>6 DEF HistoryInv
  <2>8. Proto = "TCP" /\ InCall =>
          /\ rcv_wnd' + copied + rcv_nxt' <= TcpWnd + rd
          /\ raced' = {} => rcv_wnd' + copied + rcv_nxt' = TcpWnd + rd
    <3>1. ASSUME rcv_wnd' \in Nat, rcv_wnd' + rcv_nxt' = rcv_wnd + rcv_nxt
          PROVE  rcv_wnd' + copied + rcv_nxt' = rcv_wnd + copied + rcv_nxt
      BY <3>1, <2>4
    <3> QED BY <3>1, <2>2, <2>3, <2>6 DEF HistoryInv
  <2> QED BY <2>4, <2>7, <2>8 DEF HistoryInv, InCall
<1>10. DataIsAnnounced'
  BY DEF DataIsAnnounced
<1> QED BY <1>1, <1>2, <1>3, <1>4, <1>5, <1>6, <1>7, <1>8, <1>9, <1>10 DEF IInv

-----------------------------------------------------------------------------
(* The steps of the application, one lemma each.                           *)

(* The callback changes no pbuf.                                           *)
LEMMA CallbackStep == IInv /\ callback => IInv'
<1> SUFFICES ASSUME IInv, callback PROVE IInv'
  OBVIOUS
<1>1. TypeOK'
  BY DEF callback, TypeOK, mem, arrivals, locals, results, history, IInv
<1>2. Ordered'
  BY DEF callback, Ordered, mem, arrivals, locals, history, EndOf, Front,
         Linked, IInv
<1>3. IdleInv'
  BY DEF callback, IdleInv, mem, arrivals, locals, history, Owned, Linked,
         Contiguous, EndOf, IInv
<1>4. CopyInv'
  BY DEF callback, CopyInv, mem, arrivals, locals, IInv
<1>5. ConsumeInv'
  BY DEF callback, ConsumeInv, mem, arrivals, locals, results, history, InCall, IInv
<1>6. LoopInv'
  BY DEF callback, LoopInv, mem, arrivals, locals, history, Owned, EndOf,
         Linked, Contiguous, IInv
<1>7. FreeInv'
  BY DEF callback, FreeInv, mem, arrivals, locals, history, EndOf, Linked,
         Contiguous, IInv
<1>8. UdpInv'
  BY DEF callback, UdpInv, mem, arrivals, locals, results, history, Front, Untouched,
         LastOf, EndOf, InCall, IInv
<1>9. HistoryInv'
  BY DEF callback, HistoryInv, mem, arrivals, locals, history, Position,
         InCall, Front, IInv
<1>10. DataIsAnnounced'
  BY DEF callback, DataIsAnnounced
<1> QED BY <1>1, <1>2, <1>3, <1>4, <1>5, <1>6, <1>7, <1>8, <1>9, <1>10 DEF IInv

(* Nor does a call that finds no queue.                                    *)
LEMMA WouldBlockStep == IInv /\ recv_would_block => IInv'
<1> SUFFICES ASSUME IInv, recv_would_block PROVE IInv'
  OBVIOUS
<1>1. TypeOK'
  BY DEF recv_would_block, IInv, TypeOK, mem, arrivals, locals, results, history
<1>2. Ordered'
  BY DEF recv_would_block, Ordered, mem, arrivals, history, EndOf, Front, IInv
<1>3. IdleInv'
  BY DEF recv_would_block, IdleInv, mem, history, IInv
<1>4. CopyInv'
  BY DEF recv_would_block, CopyInv
<1>5. ConsumeInv'
  BY DEF recv_would_block, ConsumeInv, InCall
<1>6. LoopInv'
  BY DEF recv_would_block, LoopInv
<1>7. FreeInv'
  BY DEF recv_would_block, FreeInv
<1>8. UdpInv'
  BY DEF recv_would_block, UdpInv, Front, InCall
<1>9. HistoryInv'
  BY DEF recv_would_block, HistoryInv, arrivals, history, Position, InCall,
         Front, IInv
<1>10. DataIsAnnounced'
  BY DEF recv_would_block, DataIsAnnounced
<1> QED BY <1>1, <1>2, <1>3, <1>4, <1>5, <1>6, <1>7, <1>8, <1>9, <1>10 DEF IInv

(* A call begins: p is the head of the queue.                              *)
LEMMA StartStep == IInv /\ recv_start => IInv'
<1> SUFFICES ASSUME IInv, recv_start PROVE IInv'
  OBVIOUS
<1>s. size' \in Nat /\ size' % U16 \in Nat /\ rx_chain \in 1 .. received
  <2>1. size' \in Nat
    BY SizesAssumption DEF recv_start
  <2>2. rx_chain \in 1 .. received
    BY DEF recv_start, IInv, TypeOK, NULL
  <2> QED BY <2>1, <2>2, ModNat, NumAssumption
<1>t. /\ left' \in Nat
      /\ Proto = "UDP" => left' <= tot_len[rx_chain]
      /\ Proto = "TCP" => left' = size' % U16
  BY <1>s, PbufFacts, ProtoAssumption DEF recv_start, Smaller
<1>1. TypeOK'
  <2>1. rx_chain \in 0 .. received /\ 0 \in Nat
    BY DEF IInv, TypeOK
  <2> QED BY <1>s, <1>t, <2>1 DEF recv_start, IInv, TypeOK, mem, arrivals, results,
                                history, NULL
<1>2. Ordered'
  BY DEF recv_start, Ordered, mem, arrivals, history, EndOf, Front, Linked,
         IInv
<1>3. IdleInv'
  BY DEF recv_start, IdleInv, mem, arrivals, history, Owned, Linked,
         Contiguous, EndOf, IInv
<1>4. CopyInv'
  <2>1. /\ copied' = 0 /\ p' = rx_chain /\ walk' = rx_chain
        /\ UNCHANGED <<payload, tot_len, rcv_nxt>>
    BY DEF recv_start, mem, arrivals
  <2> QED BY <1>s, <1>t, <2>1, PbufFacts DEF CopyInv, IInv, Ordered, EndOf, NULL
<1>5. ConsumeInv'
  BY DEF recv_start, ConsumeInv, InCall
<1>6. LoopInv'
  BY DEF recv_start, LoopInv
<1>7. FreeInv'
  BY DEF recv_start, FreeInv
<1>8. UdpInv'
  BY DEF recv_start, UdpInv, mem, arrivals, Front, Untouched, LastOf, EndOf,
         InCall, IInv
<1>9. HistoryInv'
  BY DEF recv_start, HistoryInv, mem, arrivals, history, Position, InCall,
         Front, IInv
<1>10. DataIsAnnounced'
  BY DEF recv_start, DataIsAnnounced
<1> QED BY <1>1, <1>2, <1>3, <1>4, <1>5, <1>6, <1>7, <1>8, <1>9, <1>10 DEF IInv

(* The copy walks the list without touching it.                            *)
LEMMA CopyStep == IInv /\ copy_partial => IInv'
<1> SUFFICES ASSUME IInv, copy_partial PROVE IInv'
  OBVIOUS
<1> DEFINE n == Smaller(len[walk], left)
<1>s. /\ walk \in p .. received /\ p \in 1 .. received /\ walk \in 1 .. received
      /\ left \in Nat /\ copied \in Nat /\ p = rx_chain /\ Owned(p)
  BY DEF copy_partial, IInv, TypeOK, IdleInv, CopyInv, NULL
<1>t. /\ n \in Nat /\ n <= left /\ n <= len[walk]
      /\ n = left \/ n = len[walk]
      /\ copied' = copied + n /\ left' = left - n /\ walk' = next[walk]
  BY <1>s, PbufFacts, SmallerFacts DEF copy_partial
<1>u. /\ payload[p] + copied = payload[walk]
      /\ next[walk] = IF walk = received THEN NULL ELSE walk + 1
      /\ EndOf(walk) = IF walk = received THEN rcv_nxt ELSE payload[walk + 1]
      /\ EndOf(walk) <= rcv_nxt
  BY <1>s, PbufFacts DEF copy_partial, IInv, CopyInv, Owned, Linked, Contiguous
<1> HIDE DEF n
<1>1. TypeOK'
  <2>1. walk' \in 0 .. received /\ left' \in Nat /\ copied' \in Nat
    BY <1>s, <1>t, <1>u, PbufFacts DEF IInv, TypeOK, NULL
  <2> QED BY <2>1, NumAssumption
             DEF copy_partial, IInv, TypeOK, mem, arrivals, tcpip, results, history,
                 Pbufs, NULL
<1>2. Ordered'
  BY DEF copy_partial, Ordered, mem, arrivals, history, EndOf, Front, Linked,
         IInv
<1>3. IdleInv'
  BY DEF copy_partial, IdleInv, mem, arrivals, history, Owned, Linked,
         Contiguous, EndOf, IInv
<1>4. CopyInv'
  <2>1. payload[p] + copied + n <= rcv_nxt
    BY <1>s, <1>t, <1>u, PbufFacts, payload[walk] + n <= EndOf(walk)
       DEF EndOf, IInv, TypeOK
  <2>2. left' # 0 => payload[p] + copied' = EndOf(walk)
    BY <1>s, <1>t, <1>u, PbufFacts DEF EndOf
  <2>3. Proto = "UDP" => copied' + left' <= tot_len[p]
    BY <1>s, <1>t, PbufFacts DEF copy_partial, IInv, CopyInv
  <2> QED
    BY <1>s, <1>t, <1>u, <2>1, <2>2, <2>3, PbufFacts
       DEF copy_partial, IInv, CopyInv, mem, arrivals, tcpip, NULL
<1>5. ConsumeInv'
  BY DEF copy_partial, ConsumeInv, InCall
<1>6. LoopInv'
  BY DEF copy_partial, LoopInv
<1>7. FreeInv'
  BY DEF copy_partial, FreeInv
<1>8. UdpInv'
  BY DEF copy_partial, UdpInv, mem, arrivals, Front, Untouched, LastOf, EndOf,
         InCall, IInv
<1>9. HistoryInv'
  BY DEF copy_partial, HistoryInv, mem, arrivals, history, Position, InCall,
         Front, IInv
<1>10. DataIsAnnounced'
  BY DEF copy_partial, DataIsAnnounced
<1> QED BY <1>1, <1>2, <1>3, <1>4, <1>5, <1>6, <1>7, <1>8, <1>9, <1>10 DEF IInv

(* The copy ends: rd is where pbuf_consume must get to.                    *)
LEMMA CopyDoneStep == IInv /\ copy_done => IInv'
<1> SUFFICES ASSUME IInv, copy_done PROVE IInv'
  OBVIOUS
<1>t. /\ p \in 1 .. received /\ p = rx_chain /\ Owned(p) /\ consume' \in Nat
      /\ payload[p] \in Nat /\ rd' = payload[p] + consume'
  BY PbufFacts DEF copy_done, consume_arg, IInv, IdleInv, TypeOK, NULL
<1>u. Proto = "UDP" => \E m \in p .. received : LastOf(p, m) /\ rd' = EndOf(m)
  BY <1>t, NumAssumption, SizesAssumption, ProtoAssumption
     DEF copy_done, consume_arg, IInv, UdpInv, Front, Untouched, NULL
<1>v. rd' <= rcv_nxt
  <2>1. CASE Proto = "TCP" BY <2>1, <1>t DEF copy_done, consume_arg, IInv, CopyInv
  <2>2. CASE Proto = "UDP" BY <2>2, <1>u, <1>t, PbufFacts
  <2> QED BY <2>1, <2>2, NumAssumption, SizesAssumption, ProtoAssumption
<1>1. TypeOK'
  BY <1>t, <1>u, <1>v, PbufFacts
     DEF copy_done, IInv, TypeOK, mem, arrivals, tcpip, history, NULL
<1>2. Ordered'
  BY DEF copy_done, Ordered, mem, arrivals, EndOf, Front, Linked, IInv
<1>3. IdleInv'
  BY DEF copy_done, IdleInv
<1>4. CopyInv'
  BY DEF copy_done, CopyInv
<1>5. ConsumeInv'
  <2>1. ~more' /\ ~clipped' => Proto = "TCP" /\ left # 0
    <3> SUFFICES ASSUME Proto = "TCP", ~more', ~clipped', left = 0 PROVE FALSE
      BY ProtoAssumption DEF copy_done
    <3>1. size \in Nat /\ copied \in Nat /\ copied + left = size % U16
      BY DEF copy_done, IInv, TypeOK, CopyInv
    <3>2. copied = size % U16
      BY <3>1
    <3>3. copied # size /\ ~(size >= U16)
      BY <3>2, ProtoAssumption DEF copy_done
    <3>4. size < U16
      BY <3>1, <3>3, NumAssumption
    <3> QED BY <3>1, <3>2, <3>3, <3>4, ModSmall, NumAssumption
  <2>2. ~more' /\ ~clipped' /\ ~signalled /\ tpc = "idle" => rd' = rcv_nxt
    BY <1>t, <2>1 DEF copy_done, consume_arg, IInv, CopyInv, NULL
  <2> QED BY <2>2, <1>t, <1>v
             DEF copy_done, ConsumeInv, InCall, mem, arrivals, tcpip, NULL
<1>6. LoopInv'
  BY DEF copy_done, LoopInv, TypeOK, IdleInv, mem, arrivals, Owned, EndOf,
         Linked, Contiguous, IInv
<1>7. FreeInv'
  BY DEF copy_done, FreeInv
<1>8. UdpInv'
  <2>1. Proto = "UDP" => copied <= consume'
    BY <1>t, PbufFacts DEF copy_done, consume_arg, IInv, TypeOK, CopyInv
  <2>2. Proto = "UDP" => more'
    BY DEF copy_done
  <2>3. Proto = "UDP" => \E m \in p .. received : LastOf(p, m)' /\ rd' = EndOf(m)'
    BY <1>u DEF copy_done, LastOf, EndOf, mem, arrivals
  <2>4. Proto = "UDP" => \A i \in first : i > p =>
           \E m \in i .. received : LastOf(i, m)' /\ payload[i] + tot_len[i] = EndOf(m)'
    <3> SUFFICES ASSUME Proto = "UDP", NEW i \in first, i > p
                 PROVE  \E m \in i .. received : LastOf(i, m)' /\ payload[i] + tot_len[i] = EndOf(m)'
      OBVIOUS
    <3>1. i \in 1 .. received
      BY DEF IInv, Ordered
    <3>2. PICK m \in i .. received : LastOf(i, m) /\ payload[i] + tot_len[i] = EndOf(m)
      BY <1>t, <3>1 DEF copy_done, IInv, UdpInv, Front, Untouched, NULL
    <3> QED BY <3>2 DEF copy_done, LastOf, EndOf, mem, arrivals
  <2> QED BY <1>t, <2>1, <2>2, <2>3, <2>4
             DEF copy_done, UdpInv, Front, InCall, Untouched, mem, arrivals,
                 tcpip, NULL
<1>9. HistoryInv'
  BY <1>t, <1>u, <1>v, NumAssumption, SizesAssumption, ProtoAssumption
     DEF copy_done, consume_arg, IInv, TypeOK, HistoryInv, InCall, Position,
         Front, mem, arrivals, tcpip, NULL
<1>10. DataIsAnnounced'
  BY DEF copy_done, DataIsAnnounced
<1> QED BY <1>1, <1>2, <1>3, <1>4, <1>5, <1>6, <1>7, <1>8, <1>9, <1>10 DEF IInv

(* pbuf_consume cuts one pbuf, or keeps it for the next call.              *)
LEMMA ConsumeStep == IInv /\ pbuf_consume => IInv'
<1> SUFFICES ASSUME IInv, pbuf_consume PROVE IInv'
  OBVIOUS
<1>s. /\ p \in 1 .. received /\ p \in Pbufs /\ Owned(p) /\ consume \in Nat
      /\ payload[p] \in Nat /\ len[p] \in Nat /\ received \in Nat
      /\ rd = payload[p] + consume /\ rd <= rcv_nxt /\ rd \in Nat /\ rcv_nxt \in Nat
      /\ EndOf(p) = payload[p] + len[p]
  BY PbufFacts, NumAssumption
     DEF pbuf_consume, IInv, LoopInv, ConsumeInv, InCall, TypeOK, NULL, EndOf
<1>q. /\ next[p] = IF p = received THEN NULL ELSE p + 1
      /\ EndOf(p) = IF p = received THEN rcv_nxt ELSE payload[p + 1]
  BY <1>s DEF Owned, Linked, Contiguous
<1>b. /\ Proto = "UDP" /\ consume <= len[p] => consume = len[p]
      /\ Proto = "UDP" /\ consume <= len[p] /\ p # received => p + 1 \in first
      /\ Proto = "UDP" /\ consume > len[p] =>
           /\ p + 1 \notin first
           /\ \E m \in p + 1 .. received : LastOf(p + 1, m) /\ rd = EndOf(m)
  <2> SUFFICES ASSUME Proto = "UDP"
               PROVE  /\ consume <= len[p] => consume = len[p] /\ (p # received => p + 1 \in first)
                      /\ consume > len[p] =>
                           /\ p + 1 \notin first
                           /\ \E m \in p + 1 .. received : LastOf(p + 1, m) /\ rd = EndOf(m)
    OBVIOUS
  <2>1. PICK m \in p .. received : LastOf(p, m) /\ rd = EndOf(m)
    BY DEF pbuf_consume, IInv, UdpInv
  <2>2. m \in 1 .. received /\ payload[m] \in Nat /\ len[m] \in Nat /\ EndOf(m) = payload[m] + len[m]
    BY <2>1, <1>s, PbufFacts DEF EndOf
  <2>3. m > p => EndOf(p) <= payload[m] /\ len[m] > 0
    BY <2>1, <2>2, <1>s DEF LastOf, IInv, Ordered
  <2>4. CASE m = p
    BY <2>1, <2>2, <2>4, <1>s DEF LastOf, EndOf
  <2>5. CASE m > p
    <3>1. consume > len[p]
      BY <2>1, <2>2, <2>3, <2>5, <1>s
    <3>2. m \in p + 1 .. received
      BY <2>5, <2>1, <1>s
    <3>3. LastOf(p + 1, m) /\ p + 1 \notin first
      BY <2>1, <2>2, <3>2, <1>s DEF LastOf
    <3>4. \E k \in p + 1 .. received : LastOf(p + 1, k) /\ rd = EndOf(k)
      BY <3>2, <3>3, <2>1
    <3>5. ~(consume <= len[p])
      BY <3>1, <1>s
    <3> QED BY <3>3, <3>4, <3>5
  <2> QED BY <2>1, <2>4, <2>5, <1>s
<1>c. \/ /\ consume <= len[p] /\ consume = len[p] /\ consume' = 0 /\ q' = next[p] /\ pc' = "unlink"
         /\ payload' = [payload EXCEPT ![p] = payload[p] + consume]
         /\ len' = [len EXCEPT ![p] = 0]
      \/ /\ consume <= len[p] /\ consume # len[p] /\ consume' = 0 /\ q' = q /\ pc' = "store"
         /\ Proto = "TCP"
         /\ payload' = [payload EXCEPT ![p] = payload[p] + consume]
         /\ len' = [len EXCEPT ![p] = len[p] - consume]
      \/ /\ consume > len[p] /\ consume' = consume - len[p] /\ q' = next[p] /\ pc' = "unlink"
         /\ payload' = payload /\ len' = len /\ p # received
  <2>1. CASE consume <= len[p]
    <3>1. /\ payload' = [payload EXCEPT ![p] = payload[p] + consume]
          /\ len' = [len EXCEPT ![p] = len[p] - consume]
      BY <2>1 DEF pbuf_consume
    <3>2. CASE consume = len[p]
      <4>1. len[p] - consume = 0
        BY <3>2, <1>s
      <4>2. consume' = 0 /\ q' = next[p] /\ pc' = "unlink"
        BY <4>1, <3>2, <2>1, <1>s DEF pbuf_consume, frees, remaining
      <4> QED BY <4>1, <4>2, <3>2, <3>1, <2>1
    <3>3. CASE consume # len[p]
      BY <3>3, <3>1, <2>1, <1>s, <1>b, NumAssumption, SizesAssumption,
         ProtoAssumption
         DEF pbuf_consume, frees, ends
    <3> QED BY <3>2, <3>3
  <2>2. CASE consume > len[p]
    <3>1. payload' = payload /\ len' = len
      BY <2>2, <1>s DEF pbuf_consume, IInv, TypeOK
    <3>2. p # received
      BY <2>2, <1>s, <1>q
    <3> QED BY <3>1, <3>2, <2>2, <1>s DEF pbuf_consume, frees, remaining
  <2> QED BY <2>1, <2>2, <1>s
<1>d. \A i \in Pbufs : EndOf(i)' = EndOf(i) /\ (i # p => payload'[i] = payload[i] /\ len'[i] = len[i])
  BY <1>s, <1>c DEF IInv, TypeOK, EndOf
<1>e. /\ payload' \in [Pbufs -> Nat] /\ len' \in [Pbufs -> Nat] /\ payload'[p] >= payload[p]
      /\ consume' \in Nat /\ q' \in 0 .. received
      /\ pc' = "unlink" => rd = EndOf(p) + consume'
      /\ pc' = "store" => rd = payload'[p] /\ consume' = 0 /\ len'[p] > 0 /\ Proto = "TCP"
  BY <1>s, <1>c, <1>q DEF IInv, TypeOK, NULL
<1>1. TypeOK'
  BY <1>s, <1>c, <1>e DEF pbuf_consume, IInv, TypeOK, arrivals, tcpip, results,
                              history, NULL
<1>2. Ordered'
  <2>1. \A i \in 1 .. received : i \in Pbufs
    BY PbufFacts
  <2>2. \A i \in 1 .. received : EndOf(i)' <= rcv_nxt
    BY <2>1, <1>d DEF IInv, Ordered
  <2>3. \A i, j \in 1 .. received : i < j => EndOf(i)' <= payload'[j]
    BY <2>1, <1>s, <1>d, <1>e, PbufFacts DEF IInv, Ordered, TypeOK
  <2>4. Proto = "TCP" => \A i \in 1 .. received : i > p => len'[i] > 0
    BY <2>1, <1>s, <1>d DEF pbuf_consume, IInv, Ordered, Front, NULL
  <2> QED BY <2>2, <2>3, <2>4, <1>c
             DEF pbuf_consume, IInv, Ordered, Linked, Front, arrivals, history,
                 NULL
<1>3. IdleInv'
  BY DEF pbuf_consume, IdleInv
<1>4. CopyInv'
  BY DEF pbuf_consume, CopyInv
<1>5. ConsumeInv'
  BY DEF pbuf_consume, ConsumeInv, arrivals, tcpip, results, history, InCall, IInv
<1>6. LoopInv'
  <2>1. Owned(p)'
    <3>1. \A i \in p .. received : i \in Pbufs /\ i + 1 # p
      BY <1>s, PbufFacts
    <3> QED BY <1>s, <1>d, <3>1, PbufFacts
               DEF pbuf_consume, Owned, Linked, Contiguous, arrivals
  <2>2. pc' = "unlink" /\ q' = NULL => consume' = 0 /\ p + 1 .. received \subseteq raced
    BY <1>s, <1>q, <1>c DEF NULL
  <2>3. pc' = "unlink" /\ q' # NULL => q' = p + 1
    BY <1>s, <1>q, <1>c DEF NULL
  <2> QED BY <2>1, <2>2, <2>3, <1>c, <1>d, <1>e, <1>s
             DEF pbuf_consume, IInv, LoopInv, arrivals, history, NULL
<1>7. FreeInv'
  BY DEF pbuf_consume, FreeInv
<1>8. UdpInv'
  <2> SUFFICES ASSUME Proto = "UDP" PROVE UdpInv'
    BY DEF UdpInv
  <2>0. pc' = "unlink" /\ p # NULL
    BY <1>c, <1>s, NumAssumption, SizesAssumption, ProtoAssumption DEF NULL
  <2>1. \A i, m \in 1 .. received : i >= p => (LastOf(i, m)' <=> LastOf(i, m))
    BY <1>d, <1>s, PbufFacts DEF pbuf_consume, LastOf, arrivals
  <2>2. \A i \in first : i > p =>
          \E m \in i .. received : LastOf(i, m)' /\ payload'[i] + tot_len[i] = EndOf(m)'
    <3> SUFFICES ASSUME NEW i \in first, i > p
                 PROVE  \E m \in i .. received : LastOf(i, m)' /\ payload'[i] + tot_len[i] = EndOf(m)'
      OBVIOUS
    <3>1. i \in 1 .. received
      BY DEF IInv, Ordered
    <3>2. PICK m \in i .. received : LastOf(i, m) /\ payload[i] + tot_len[i] = EndOf(m)
      BY <1>s DEF pbuf_consume, IInv, UdpInv, Front, Untouched, NULL
    <3> QED BY <3>1, <3>2, <2>1, <1>d, <1>s, PbufFacts
  <2>3. q' # NULL => q' = p + 1 /\ p # received /\ p + 1 \in 1 .. received
    BY <1>c, <1>q, <1>s DEF NULL
  <2>4. q' # NULL /\ consume' = 0 => q' \in first
    BY <1>b, <1>c, <2>3, <1>s
  <2>5. q' # NULL /\ consume' # 0 =>
          /\ q' \notin first
          /\ \E m \in q' .. received : LastOf(q, m)' /\ rd = EndOf(m)'
    <3> SUFFICES ASSUME q' # NULL, consume' # 0
                 PROVE  /\ q' \notin first
                        /\ \E m \in q' .. received : LastOf(q, m)' /\ rd = EndOf(m)'
      OBVIOUS
    <3>1. consume > len[p] /\ p' = p
      BY <1>c, <2>0 DEF pbuf_consume
    <3>2. PICK m \in p + 1 .. received : LastOf(p + 1, m) /\ rd = EndOf(m)
      BY <3>1, <1>b
    <3>3. m \in 1 .. received
      BY <1>s
    <3>4. LastOf(p + 1, m)' /\ EndOf(m)' = EndOf(m)
      <4>1. EndOf(m)' = EndOf(m) /\ len'[m] = len[m]
        BY <3>2, <3>3, <1>d, <1>s, PbufFacts DEF EndOf
      <4>2. received' = received /\ first' = first
        BY DEF pbuf_consume, arrivals
      <4> QED BY <3>1, <3>2, <4>1, <4>2 DEF LastOf
    <3>5. LastOf(q, m)'
      BY <3>1, <3>4, <2>3 DEF LastOf
    <3> QED BY <3>2, <3>4, <3>5, <3>1, <1>b, <2>3
  <2>6. p' = p /\ received' = received /\ first' = first /\ more' = more /\ rd' = rd /\ tot_len' = tot_len
    BY DEF pbuf_consume, arrivals, results, history
  <2>7. more
    BY DEF pbuf_consume, IInv, UdpInv, InCall
  <2> QED BY <2>0, <2>2, <2>4, <2>5, <2>6, <2>7
             DEF UdpInv, InCall, Front, Untouched, NULL
<1>9. HistoryInv'
  BY DEF pbuf_consume, HistoryInv, arrivals, history, InCall, IInv
<1>10. DataIsAnnounced'
  BY DEF pbuf_consume, DataIsAnnounced
<1> QED BY <1>1, <1>2, <1>3, <1>4, <1>5, <1>6, <1>7, <1>8, <1>9, <1>10 DEF IInv

(* pbuf_ref(q) protects the successor the consumer saw, if it saw one.     *)
LEMMA UnlinkStep == IInv /\ pbuf_unlink => IInv'
<1> SUFFICES ASSUME IInv, pbuf_unlink PROVE IInv'
  OBVIOUS
<1>s. /\ p \in 1 .. received /\ p \in Pbufs /\ Owned(p) /\ received \in Nat /\ consume \in Nat
      /\ q \in 0 .. received /\ q # NULL => q = p + 1
      /\ rd = EndOf(p) + consume
      /\ next[p] = IF p = received THEN NULL ELSE p + 1
      /\ EndOf(p) = IF p = received THEN rcv_nxt ELSE payload[p + 1]
  BY PbufFacts DEF pbuf_unlink, IInv, LoopInv, TypeOK, NULL, Owned, Linked, Contiguous
<1>t. /\ ref' \in [Pbufs -> Nat]
      /\ \A i \in p .. received : ref'[i] = IF i = p THEN 0 ELSE IF i = q THEN 2 ELSE 1
  BY <1>s, PbufFacts DEF pbuf_unlink, pbuf_ref, Owned, IInv, TypeOK, NULL
<1>1. TypeOK'
  BY <1>s, <1>t DEF pbuf_unlink, IInv, TypeOK, arrivals, tcpip, results,
                        history, NULL
<1>2. Ordered'
  BY DEF pbuf_unlink, Ordered, arrivals, history, EndOf, Front, Linked, IInv
<1>3. IdleInv'
  BY DEF pbuf_unlink, IdleInv
<1>4. CopyInv'
  BY DEF pbuf_unlink, CopyInv
<1>5. ConsumeInv'
  BY DEF pbuf_unlink, ConsumeInv, arrivals, tcpip, results, history, InCall, IInv
<1>6. LoopInv'
  BY DEF pbuf_unlink, LoopInv
<1>7. FreeInv'
  <2>1. q = NULL => /\ consume = 0 /\ p + 1 .. received \subseteq raced
                    /\ p = received => rd = rcv_nxt
                    /\ walk' # NULL => walk' = p + 1
                    /\ \A i \in p + 1 .. received : ref'[i] = 1
                    /\ heap \subseteq raced \cup {p}
    BY <1>s, <1>t, PbufFacts DEF pbuf_unlink, IInv, LoopInv, NULL, TypeOK
  <2>2. q # NULL => /\ q = p + 1 /\ walk' = q
                    /\ Linked(q) /\ Contiguous(q)
                    /\ EndOf(p) = payload[q]
                    /\ \A i \in p .. received : i \in heap
                    /\ \A i \in q .. received : ref'[i] = IF i = q THEN 2 ELSE 1
                    /\ heap \subseteq raced \cup p .. received
    BY <1>s, <1>t
       DEF pbuf_unlink, IInv, LoopInv, NULL, TypeOK, Owned, Linked, Contiguous
  <2>3. p # NULL /\ (p \in heap => p = rx_chain \/ rx_chain \notin heap)
    BY <1>s DEF pbuf_unlink, IInv, ConsumeInv, InCall, NULL
  <2> QED BY <1>s, <2>1, <2>2, <2>3
          DEF pbuf_unlink, FreeInv, Owned, Linked, Contiguous, EndOf, arrivals, history, NULL
<1>8. UdpInv'
  BY DEF pbuf_unlink, UdpInv, arrivals, results, history, Front, Untouched, LastOf,
         EndOf, InCall, IInv
<1>9. HistoryInv'
  BY DEF pbuf_unlink, HistoryInv, arrivals, history, InCall, IInv
<1>10. DataIsAnnounced'
  BY DEF pbuf_unlink, DataIsAnnounced
<1> QED BY <1>1, <1>2, <1>3, <1>4, <1>5, <1>6, <1>7, <1>8, <1>9, <1>10 DEF IInv

(* pbuf_free stops at that successor; without one it frees what raced.     *)
LEMMA FreeStep == IInv /\ pbuf_free => IInv'
<1> SUFFICES ASSUME IInv, pbuf_free PROVE IInv'
  OBVIOUS
<1>s. /\ p \in 1 .. received /\ received \in Nat /\ consume \in Nat
      /\ victim \in p .. received /\ walk \in 0 .. received /\ q \in 0 .. received
      /\ walk # NULL => walk = victim + 1 /\ (q = NULL => ref[walk] = 1) /\ (q # NULL => ref[walk] = 2)
      /\ ref \in [Pbufs -> Nat] /\ next \in [Pbufs -> Pbufs \cup {NULL}]
      /\ q # NULL => walk = q /\ q = p + 1 /\ victim = p
      /\ Linked(p)
  BY NumAssumption DEF pbuf_free, IInv, FreeInv, TypeOK, NULL
<1>t. /\ ref' \in [Pbufs -> Nat]
      /\ walk # NULL => ref'[walk] = IF q = NULL THEN 0 ELSE 1
      /\ \A i \in Pbufs : i # walk => ref'[i] = ref[i]
  <2>1. ref' = [i \in Pbufs |-> IF i = walk THEN ref[i] - 1 ELSE ref[i]]
    BY DEF pbuf_free
  <2>2. walk # NULL => walk \in Pbufs /\ ref[walk] \in {1, 2}
    BY <1>s, PbufFacts DEF NULL
  <2>3. \A i \in Pbufs : (IF i = walk THEN ref[i] - 1 ELSE ref[i]) \in Nat
    BY <1>s, <2>2 DEF NULL, Pbufs
  <2> QED BY <1>s, <2>1, <2>2, <2>3
<1>u. \/ /\ q = NULL /\ walk # NULL /\ victim' = walk /\ walk' = next[walk] /\ p' = p /\ pc' = "free"
      \/ /\ q = NULL /\ walk = NULL /\ victim' = victim /\ walk' = walk /\ p' = NULL
         /\ pc' = "store"
      \/ /\ q # NULL /\ victim' = victim /\ walk' = walk /\ p' = q
         /\ pc' = IF consume = 0 THEN "store" ELSE "consume"
  <2>1. q = NULL => consume = 0
    BY DEF pbuf_free, IInv, FreeInv
  <2> QED BY <1>s, <1>t, <2>1 DEF pbuf_free, ends, NULL
<1>v. walk # NULL => next[walk] = IF walk = received THEN NULL ELSE walk + 1
  BY <1>s DEF Linked, NULL
<1>1. TypeOK'
  <2>1. walk' \in 0 .. received /\ victim' \in 0 .. received /\ p' \in 0 .. received
    BY <1>s, <1>u, <1>v DEF NULL
  <2>2. pc' \in {"free", "store", "consume"} /\ (pc' = "consume" => p' # NULL) /\ (pc' = "free" => victim' # NULL)
    BY <1>s, <1>u DEF NULL
  <2>3. heap' \subseteq Pbufs
    BY DEF pbuf_free, IInv, TypeOK
  <2> QED BY <1>t, <2>1, <2>2, <2>3
             DEF pbuf_free, IInv, TypeOK, arrivals, tcpip, results, history
<1>2. Ordered'
  <2>1. heap' \subseteq 1 .. received
    BY DEF pbuf_free, IInv, Ordered
  <2>2. Proto = "TCP" /\ p' # NULL => \A i \in 1 .. received : i > p' => len[i] > 0
    BY <1>s, <1>u DEF pbuf_free, IInv, Ordered, Front, NULL
  <2>3. pc' # "idle"
    BY <1>u
  <2> QED BY <2>1, <2>2, <2>3
             DEF pbuf_free, IInv, Ordered, EndOf, Linked, Front, arrivals,
                 history
<1>3. IdleInv'
  BY DEF pbuf_free, IdleInv
<1>4. CopyInv'
  BY DEF pbuf_free, CopyInv
<1>5. ConsumeInv'
  <2>1. rx_chain # NULL /\ (p' # NULL => p' >= rx_chain) /\ rx_chain \in 1 .. received
    BY <1>s, <1>u DEF pbuf_free, IInv, ConsumeInv, InCall, TypeOK, NULL
  <2>2. p' # rx_chain => rx_chain \notin heap'
    BY <1>s, <1>u, <2>1 DEF pbuf_free, IInv, ConsumeInv, FreeInv, InCall, NULL
  <2> QED BY <2>1, <2>2
             DEF pbuf_free, IInv, ConsumeInv, InCall, arrivals, tcpip, results, history
<1>6. LoopInv'
  <2>1. CASE q # NULL
    <3>1. /\ p' = q /\ q \in 1 .. received /\ q = p + 1 /\ pc' \in {"store", "consume"}
          /\ (pc' = "store" => consume = 0)
      BY <2>1, <1>u, <1>s DEF NULL
    <3>2. Linked(q) /\ Contiguous(q) /\ EndOf(p) = payload[q] /\ rd = EndOf(p) + consume
      BY <2>1 DEF pbuf_free, IInv, FreeInv
    <3>3. \A i \in q .. received : i \in heap' /\ ref'[i] = 1
      BY <2>1, <3>1, <1>s, <1>t, PbufFacts DEF pbuf_free, IInv, FreeInv
    <3>4. Owned(p)'
      BY <3>1, <3>2, <3>3 DEF pbuf_free, Owned, Linked, Contiguous, EndOf, arrivals
    <3>5. heap' \subseteq raced \cup q .. received
      BY <2>1, <3>1, <1>s DEF pbuf_free, IInv, FreeInv
    <3>6. rd = payload[q] + consume /\ (pc' = "store" => rd = payload[q])
      BY <3>1, <3>2, PbufFacts
    <3>7. Proto = "TCP" => len[q] > 0
      BY <3>1, <1>s DEF pbuf_free, IInv, Ordered, Front, NULL
    <3> QED BY <3>1, <3>4, <3>5, <3>6, <3>7
               DEF pbuf_free, LoopInv, arrivals, history, NULL
  <2>2. CASE q = NULL
    <3>1. pc' = "store" => heap' \subseteq raced /\ (raced = {} => rd = rcv_nxt)
      BY <2>2, <1>s, <1>u DEF pbuf_free, IInv, FreeInv, NULL
    <3> QED BY <3>1, <2>2, <1>u DEF pbuf_free, LoopInv, arrivals, history, NULL
  <2> QED BY <2>1, <2>2
<1>7. FreeInv'
  <2> SUFFICES ASSUME pc' = "free" PROVE FreeInv'
    BY DEF FreeInv
  <2>1. /\ q = NULL /\ walk # NULL /\ victim' = walk /\ walk' = next[walk] /\ p' = p
        /\ walk = victim + 1 /\ walk \in 1 .. received
    BY <1>s, <1>u DEF NULL
  <2>2. p \notin heap' /\ victim' # p /\ victim' >= p /\ p # NULL
    BY <2>1, <1>s DEF pbuf_free, IInv, FreeInv, NULL
  <2>3. walk' # NULL => walk' = victim' + 1
    BY <2>1, <1>v
  <2>4. \A i \in victim' + 1 .. received : ref'[i] = 1
    BY <2>1, <1>s, <1>t, PbufFacts DEF pbuf_free, IInv, FreeInv
  <2>5. heap' \subseteq raced \cup {p}
    BY <2>1 DEF pbuf_free, IInv, FreeInv
  <2>6. /\ rd = EndOf(p) + consume /\ Linked(p) /\ consume = 0
        /\ p + 1 .. received \subseteq raced /\ (p = received => rd = rcv_nxt)
    BY <2>1 DEF pbuf_free, IInv, FreeInv
  <2> QED BY <2>1, <2>2, <2>3, <2>4, <2>5, <2>6
          DEF pbuf_free, FreeInv, Linked, EndOf, arrivals, history, NULL
<1>8. UdpInv'
  <2> SUFFICES ASSUME Proto = "UDP" PROVE UdpInv'
    BY DEF UdpInv
  <2>0. /\ received' = received /\ first' = first /\ more' = more /\ rd' = rd /\ tot_len' = tot_len
        /\ payload' = payload /\ len' = len /\ consume' = consume /\ q' = q /\ copied' = copied
    BY DEF pbuf_free, arrivals, results, history
  <2>1. \A i, m : (LastOf(i, m)' <=> LastOf(i, m)) /\ EndOf(m)' = EndOf(m)
    BY <2>0 DEF LastOf, EndOf
  <2>2. more
    BY DEF pbuf_free, IInv, UdpInv, InCall
  <2>3. \A i \in first : i > p =>
          \E m \in i .. received : LastOf(i, m) /\ payload[i] + tot_len[i] = EndOf(m)
    BY <1>s DEF pbuf_free, IInv, UdpInv, Front, Untouched, NULL
  <2>4. CASE q = NULL
    BY <2>0, <2>1, <2>2, <2>3, <2>4, <1>u DEF UdpInv, InCall, Front, Untouched, NULL
  <2>5. CASE q # NULL
    <3>1. p' = q /\ q > p /\ pc' = IF consume = 0 THEN "store" ELSE "consume"
      BY <2>5, <1>u, <1>s
    <3>2. IF consume = 0 THEN q \in first
          ELSE q \notin first /\ \E m \in q .. received : LastOf(q, m) /\ rd = EndOf(m)
      BY <2>5 DEF pbuf_free, IInv, UdpInv
    <3>3. \A i \in first : i >= q => i > p
      BY <3>1, <1>s DEF IInv, Ordered
    <3>4. \A i \in first : i >= q =>
            \E m \in i .. received : LastOf(i, m)' /\ payload[i] + tot_len[i] = EndOf(m)'
      BY <2>1, <2>3, <3>3
    <3>5. \A i \in first : i > q => i >= q
      BY <3>1, <1>s DEF IInv, Ordered
    <3>6. consume # 0 => \E m \in q .. received : LastOf(p, m)' /\ rd = EndOf(m)'
      BY <2>0, <3>1, <3>2 DEF LastOf, EndOf
    <3> QED BY <2>0, <2>2, <3>1, <3>2, <3>4, <3>5, <3>6
               DEF UdpInv, InCall, Front, Untouched
  <2> QED BY <2>4, <2>5
<1>9. HistoryInv'
  BY DEF pbuf_free, HistoryInv, arrivals, history, InCall, IInv
<1>10. DataIsAnnounced'
  BY DEF pbuf_free, DataIsAnnounced
<1> QED BY <1>1, <1>2, <1>3, <1>4, <1>5, <1>6, <1>7, <1>8, <1>9, <1>10 DEF IInv

(* The call ends and the queue starts where the consumer stopped.          *)
LEMMA ReturnStep == IInv /\ recv_return => IInv'
<1> SUFFICES ASSUME IInv, recv_return PROVE IInv'
  OBVIOUS
<1>1. TypeOK'
  <2>1. rcv_wnd' \in Nat
    BY DEF recv_return, recved, IInv, TypeOK
  <2> QED BY <2>1 DEF recv_return, IInv, TypeOK, mem, arrivals, tcpip, results, history, NULL
<1>2. Ordered'
  BY DEF recv_return, Ordered, LoopInv, mem, arrivals, history, EndOf, Front,
         Linked, Owned, IInv
<1>3. IdleInv'
  BY DEF recv_return, IdleInv, LoopInv, mem, arrivals, history, Owned, EndOf,
         Linked, Contiguous, IInv
<1>4. CopyInv'
  BY DEF recv_return, CopyInv
<1>5. ConsumeInv'
  BY DEF recv_return, ConsumeInv, InCall
<1>6. LoopInv'
  BY DEF recv_return, LoopInv
<1>7. FreeInv'
  BY DEF recv_return, FreeInv
<1>8. UdpInv'
  BY DEF recv_return, UdpInv, mem, arrivals, Front, Untouched, LastOf, EndOf,
         InCall, IInv
<1>9. HistoryInv'
  <2>1. rd <= Position' /\ (raced = {} => rd = Position')
    BY PbufFacts
       DEF recv_return, IInv, TypeOK, ConsumeInv, LoopInv, InCall, Position,
           Front, mem, arrivals, NULL
  <2>2. Proto = "TCP" => /\ rcv_wnd + copied + rcv_nxt <= TcpWnd + rd
                         /\ raced = {} => rcv_wnd + copied + rcv_nxt = TcpWnd + rd
    BY DEF recv_return, IInv, HistoryInv, InCall
  <2>3. Position' \in Nat
    BY PbufFacts DEF recv_return, IInv, TypeOK, Position, Front, mem, arrivals, NULL
  <2>4. Proto = "TCP" => rcv_wnd' = rcv_wnd + copied
    BY DEF recv_return, recved
  <2>5. /\ rd' = rd /\ raced' = raced /\ rcv_nxt' = rcv_nxt /\ pc' = "idle"
        /\ rd \in Nat /\ rcv_nxt \in Nat /\ rcv_wnd \in Nat /\ copied \in Nat
    BY DEF recv_return, IInv, TypeOK, arrivals, history
  <2> QED BY <2>1, <2>2, <2>3, <2>4, <2>5, NumAssumption DEF HistoryInv, InCall
<1>10. DataIsAnnounced'
  BY ProtoAssumption
    DEF recv_return, DataIsAnnounced, TypeOK, ConsumeInv, LoopInv, UdpInv,
        Ordered, tcpip, results, InCall, Owned, EndOf, IInv
<1> QED BY <1>1, <1>2, <1>3, <1>4, <1>5, <1>6, <1>7, <1>8, <1>9, <1>10 DEF IInv

-----------------------------------------------------------------------------
(* The invariant is inductive.                                             *)

(* The handler: it appends, or it meets a freed head and the model stops.  *)
LEMMA ArrivalStep == IInv /\ ~corrupt /\ recv_irq => IInv'
<1> SUFFICES ASSUME IInv, recv_irq PROVE IInv'
  OBVIOUS
<1>1. CASE rx_chain # NULL /\ rx_chain \notin heap
  <2>1. UNCHANGED <<mem, arrivals, rx_chain, rcv_wnd, tpc, raced, signalled, pc, locals, results, rd>>
        /\ corrupt' = TRUE
    BY <1>1 DEF recv_irq
  <2>2. TypeOK' /\ Ordered' /\ IdleInv' /\ CopyInv' /\ ConsumeInv'
    BY <2>1
       DEF IInv, TypeOK, Ordered, IdleInv, CopyInv, ConsumeInv, Front, EndOf,
           Linked,
                Contiguous, Owned, InCall, mem, arrivals, locals, results
  <2>3. LoopInv' /\ FreeInv'
    BY <2>1
       DEF IInv, LoopInv, FreeInv, EndOf, Linked, Contiguous, Owned, mem,
           arrivals, locals
  <2>4. UdpInv' /\ HistoryInv' /\ DataIsAnnounced'
    BY <2>1
       DEF IInv, UdpInv, HistoryInv, DataIsAnnounced, Front, EndOf, InCall,
           Untouched,
                LastOf, Position, mem, arrivals, locals, results
  <2> QED BY <2>2, <2>3, <2>4 DEF IInv
<1>2. CASE rx_chain = NULL \/ rx_chain \in heap
  <2>1. PICK c \in Packets :
          /\ received + Len(c) <= NumPbufs /\ Append1(c)
          /\ Proto = "TCP" => c[Len(c)] <= rcv_wnd
          /\ rcv_wnd' = IF Proto = "TCP" THEN rcv_wnd - c[Len(c)] ELSE rcv_wnd
          /\ tpc' = "notify" /\ UNCHANGED corrupt
    BY <1>2 DEF recv_irq, after_append
  <2> QED BY <1>2, <2>1, ArrivalInv DEF recv_irq
<1> QED BY <1>1, <1>2

(* The invariant holds initially,                                          *)
LEMMA InitIInv == Init => IInv
<1> SUFFICES ASSUME Init PROVE IInv
  OBVIOUS
<1>1. TypeOK
  <2>1. /\ next \in [Pbufs -> Pbufs \cup {NULL}] /\ ref \in [Pbufs -> Nat]
        /\ len \in [Pbufs -> Nat] /\ tot_len \in [Pbufs -> Nat]
        /\ payload \in [Pbufs -> Nat]
    BY DEF Init
  <2>2. /\ received \in 0 .. NumPbufs /\ rcv_nxt \in Nat /\ rcv_wnd \in Nat
        /\ rx_chain \in 0 .. received /\ p \in 0 .. received /\ q \in 0 .. received
        /\ walk \in 0 .. received /\ victim \in 0 .. received
        /\ size \in Nat /\ left \in Nat /\ copied \in Nat /\ consume \in Nat /\ rd \in Nat
    BY NumAssumption DEF Init, NULL
  <2> QED BY <2>1, <2>2 DEF Init, TypeOK
<1>2. Ordered /\ IdleInv /\ CopyInv /\ ConsumeInv /\ LoopInv /\ FreeInv
  BY DEF Init, Ordered, IdleInv, CopyInv, ConsumeInv, LoopInv, FreeInv, InCall, NULL
<1>3. UdpInv /\ HistoryInv /\ DataIsAnnounced
  BY NumAssumption
     DEF Init, UdpInv, HistoryInv, DataIsAnnounced, Front, InCall, Untouched, Position, NULL
<1> QED BY <1>1, <1>2, <1>3 DEF IInv

(* is kept by every step,                                                  *)
LEMMA StepIInv == IInv /\ [Next]_vars => IInv'
<1> SUFFICES ASSUME IInv, [Next]_vars PROVE IInv'
  OBVIOUS
<1>1. CASE Next
  BY <1>1, ArrivalStep, CallbackStep, WouldBlockStep, StartStep, CopyStep,
     CopyDoneStep,
     ConsumeStep, UnlinkStep, FreeStep, ReturnStep
     DEF Next, recv_call
<1>2. CASE UNCHANGED vars
  <2>1. UNCHANGED <<mem, arrivals, rx_chain, rcv_wnd, tcpip, pc, locals, results, history>>
    BY <1>2 DEF vars
  <2>2. TypeOK' /\ Ordered' /\ IdleInv' /\ CopyInv' /\ ConsumeInv'
    BY <2>1
       DEF IInv, TypeOK, Ordered, IdleInv, CopyInv, ConsumeInv, Front, EndOf,
           Linked,
                Contiguous, Owned, InCall, mem, arrivals, locals, tcpip, results, history
  <2>3. LoopInv' /\ FreeInv'
    BY <2>1
       DEF IInv, LoopInv, FreeInv, EndOf, Linked, Contiguous, Owned, mem,
           arrivals, locals, history
  <2>4. UdpInv' /\ HistoryInv' /\ DataIsAnnounced'
    BY <2>1
       DEF IInv, UdpInv, HistoryInv, DataIsAnnounced, Front, EndOf, InCall,
           Untouched,
                LastOf, Position, mem, arrivals, locals, tcpip, results, history
  <2> QED BY <2>2, <2>3, <2>4 DEF IInv
<1> QED BY <1>1, <1>2

(* and so always holds.                                                    *)
LEMMA Invariance == Spec => []IInv
<1> QED BY InitIInv, StepIInv, PTL DEF Spec

-----------------------------------------------------------------------------
(* The properties the runs check, for every value of the constants.        *)

(* The state of the queue keeps its types, and pbuf_consume and pbuf_free  *)
(* never follow a NULL pbuf.                                               *)
THEOREM TypeCorrect == Spec => []TypeOK
<1>1. IInv => TypeOK
  BY DEF IInv
<1> QED BY <1>1, Invariance, PTL

(* Between receive calls the queue starts at the byte after the last one   *)
(* disposed of, unless data raced with the consumer, and never before it.  *)
THEOREM NoGapNoRepeatHolds == Spec => []NoGapNoRepeat
<1>1. IInv => NoGapNoRepeat
  BY DEF IInv, HistoryInv, NoGapNoRepeat, Position, Front
<1> QED BY <1>1, Invariance, PTL

(* Between receive calls the allocated pbufs are those of the list, once   *)
(* referenced, and raced ones.                                             *)
THEOREM NoLeakNoDanglingHolds == Spec => []NoLeakNoDangling
<1>1. IInv => NoLeakNoDangling
  BY DEF IInv, IdleInv, NoLeakNoDangling, Owned, Linked
<1> QED BY <1>1, Invariance, PTL

(* The advertised window and the queued bytes make up TCP_WND, unless data *)
(* raced with the consumer, and never exceed it.                           *)
THEOREM WindowMatchesQueueHolds == Spec => []WindowMatchesQueue
<1>1. IInv => WindowMatchesQueue
  <2> SUFFICES ASSUME IInv, Proto = "TCP", pc = "idle"
               PROVE  LET queued == IF rx_chain = NULL THEN 0 ELSE rcv_nxt - payload[rx_chain]
                      IN /\ rcv_wnd + queued <= TcpWnd
                         /\ raced = {} => rcv_wnd + queued = TcpWnd
    BY DEF WindowMatchesQueue
  <2>1. /\ rcv_wnd + rcv_nxt <= TcpWnd + Position
        /\ raced = {} => rcv_wnd + rcv_nxt = TcpWnd + Position
    BY DEF IInv, HistoryInv
  <2>2. rcv_wnd \in Nat /\ rcv_nxt \in Nat
    BY DEF IInv, TypeOK
  <2>3. CASE rx_chain = NULL
    BY <2>1, <2>2, <2>3, NumAssumption DEF Position, Front
  <2>4. CASE rx_chain # NULL
    <3>1. payload[rx_chain] \in Nat
      BY <2>4, PbufFacts DEF IInv, TypeOK, NULL
    <3> QED BY <2>1, <2>2, <2>4, <3>1, NumAssumption DEF Position, Front
  <2> QED BY <2>3, <2>4
<1> QED BY <1>1, Invariance, PTL

(* Data in the queue is known to the application: the last call returned   *)
(* all it asked for, or the callback ran since, or is about to run, except *)
(* after a count that is what 16 bits leave of a larger size (socket_recv).*)
THEOREM DataIsAnnouncedHolds == Spec => []DataIsAnnounced
<1>1. IInv => DataIsAnnounced
  BY DEF IInv
<1> QED BY <1>1, Invariance, PTL

(* UDP: the queue starts with a datagram's first pbuf, and a call returns  *)
(* bytes of one datagram only.                                             *)
THEOREM DatagramBoundariesHold == Spec => []DatagramBoundaries
<1>1. IInv => DatagramBoundaries
  <2> SUFFICES ASSUME IInv, Proto = "UDP" PROVE DatagramBoundaries
    BY DEF DatagramBoundaries
  <2>1. pc = "idle" /\ rx_chain # NULL => rx_chain \in first
    BY DEF IInv, UdpInv, Untouched, Front
  <2>2. ASSUME pc = "consume", p \in first, NEW i \in first, i > p
        PROVE  payload[p] + copied <= payload[i]
    <3>1. PICK m \in p .. received : LastOf(p, m) /\ rd = EndOf(m)
      BY <2>2 DEF IInv, UdpInv
    <3>2. /\ p \in 1 .. received /\ i \in 1 .. received /\ m \in 1 .. received
          /\ copied \in Nat /\ consume \in Nat
      BY <2>2 DEF IInv, Ordered, TypeOK
    <3>3. m < i
      BY <2>2, <3>1, <3>2 DEF LastOf
    <3>4. EndOf(m) <= payload[i]
      BY <3>2, <3>3 DEF IInv, Ordered
    <3>5. payload[p] + consume = EndOf(m) /\ copied <= consume
      BY <2>2, <3>1 DEF IInv, UdpInv, LoopInv
    <3> QED BY <3>2, <3>4, <3>5, PbufFacts
  <2> QED BY <2>1, <2>2 DEF DatagramBoundaries
<1> QED BY <1>1, Invariance, PTL

(* The heap is corrupted only while the consumer frees, by a handler that  *)
(* follows a head that is already freed.                                   *)
THEOREM CorruptionOnlyInWindowHolds == Spec => CorruptionOnlyInWindow
<1>1. IInv /\ [Next]_vars =>
        [corrupt' # corrupt => pc \in {"consume", "unlink", "free", "store"}
                               /\ rx_chain \notin heap]_vars
  <2> SUFFICES ASSUME IInv, Next, corrupt' # corrupt
               PROVE  pc \in {"consume", "unlink", "free", "store"} /\ rx_chain \notin heap
    BY DEF vars, history
  <2>1. rx_chain # NULL /\ rx_chain \notin heap
    BY
       DEF Next, recv_irq, callback, recv_would_block, recv_start, recv_call,
           copy_partial,
           copy_done, pbuf_consume, pbuf_unlink, pbuf_free, recv_return, history
  <2>2. pc \notin {"idle", "copy"}
    BY <2>1 DEF IInv, IdleInv, Owned, TypeOK
  <2> QED BY <2>1, <2>2 DEF IInv, TypeOK
<1> QED BY <1>1, Invariance, PTL DEF Spec, CorruptionOnlyInWindow

-----------------------------------------------------------------------------
(* RxQueue implements ByteStream for every set of segments, buffer size,    *)
(* window and number of pbufs.  A step after which the promise has ended    *)
(* needs no argument; before, a call starts where the last one ended.       *)

(* A segment is an arrival of its bytes.                                    *)
LEMMA SegmentArrives ==
  ASSUME Proto = "TCP", IInv, recv_irq, ~broken', result' = result
  PROVE  Stream!Arrive
<1>1. PICK c \in Packets : Append1(c)
  BY DEF recv_irq, broken
<1>2. rcv_nxt' = rcv_nxt + c[Len(c)]
  BY <1>1 DEF Append1
<1>3. c[Len(c)] \in Nat /\ c[Len(c)] > 0
  <2>1. c \in Seq(Nat) /\ Len(c) > 0
    BY PacketsAssumption
  <2>2. Len(c) \in 1 .. Len(c) /\ 1 \in 1 .. Len(c)
    BY <2>1
  <2>3. c[1] > 0 /\ (1 < Len(c) => c[1] < c[Len(c)])
    BY <2>2, PacketsAssumption
  <2>4. c[Len(c)] \in Nat /\ c[1] \in Nat
    BY <2>1, <2>2
  <2> QED BY <2>1, <2>3, <2>4
<1>4. rcv_nxt \in Nat
  BY DEF IInv, TypeOK
<1>5. rd' = rd
  BY DEF recv_irq
<1> QED BY <1>2, <1>3, <1>4, <1>5 DEF Stream!Arrive

(* The end of the copy is the read: it starts at the byte after the last    *)
(* one read, and goes no further than what arrived.                        *)
LEMMA CopyReads ==
  ASSUME Proto = "TCP", IInv, ~broken, copy_done, result' = result_of_call
  PROVE  Stream!Read
<1>1. pc = "copy" /\ consume' = copied /\ rd' = payload[p] + copied /\ rcv_nxt' = rcv_nxt
  BY DEF copy_done, consume_arg, arrivals
<1>2. /\ p # NULL /\ rd \in Nat /\ copied \in Nat /\ rcv_nxt \in Nat
      /\ payload[p] + copied <= rcv_nxt
  BY <1>1 DEF IInv, TypeOK, CopyInv
<1>3. rd = payload[p]
  BY <1>1, <1>2 DEF IInv, HistoryInv, Position, Front, broken
<1>4. rd' \in rd .. rcv_nxt /\ rd' - rd = copied
  BY <1>1, <1>2, <1>3
<1> QED BY <1>1, <1>3, <1>4 DEF Stream!Read, result_of_call

(* The promise does not come back.                                          *)
LEMMA BrokenStays == ASSUME Next, ~broken' PROVE ~broken
<1>1. ~corrupt
  BY DEF Next
<1>2. raced \subseteq raced'
  BY DEF Next, recv_irq, Append1, callback, recv_would_block, recv_start, recv_call,
         copy_partial, copy_done, pbuf_consume, pbuf_unlink, pbuf_free, recv_return, history
<1> QED BY <1>1, <1>2 DEF broken

(* Every step of the queue is a step of ByteStream or leaves it alone.     *)
LEMMA QueueStepImplements ==
  ASSUME Proto = "TCP", IInv, [QueueNext]_qvars
  PROVE  [Stream!Next]_(Stream!vars)
<1>1. CASE UNCHANGED qvars
  BY <1>1 DEF qvars, vars, arrivals, history, broken, Stream!vars
<1>2. CASE broken'
  BY <1>2 DEF Stream!Next, Stream!Break
<1>3. CASE QueueNext /\ ~broken'
  <2>0. ~broken
    BY <1>3, BrokenStays DEF QueueNext
  <2>1. CASE recv_irq
    <3>1. result' = result
      BY <1>3, <2>1 DEF QueueNext, recv_irq
    <3> QED BY <1>3, <2>0, <2>1, <3>1, SegmentArrives DEF Stream!Next, Stream!Kept
  <2>2. CASE copy_done
    <3>1. result' = result_of_call
      BY <1>3, <2>2 DEF QueueNext, copy_done
    <3> QED BY <1>3, <2>0, <2>2, <3>1, CopyReads DEF Stream!Next, Stream!Kept
  <2>3. CASE \/ callback \/ recv_would_block \/ recv_start \/ copy_partial
             \/ pbuf_consume \/ pbuf_unlink \/ pbuf_free \/ recv_return
    <3>1. rd' = rd /\ rcv_nxt' = rcv_nxt /\ ~(pc = "copy" /\ pc' = "consume")
      BY <2>3 DEF callback, recv_would_block, recv_start, copy_partial, pbuf_consume,
                  pbuf_unlink, pbuf_free, recv_return, arrivals, history
    <3> QED BY <1>3, <2>0, <3>1 DEF QueueNext, broken, Stream!vars
  <2> QED BY <1>3, <2>1, <2>2, <2>3 DEF QueueNext, Next, recv_call
<1> QED BY <1>1, <1>2, <1>3

(* socket_recv and tcp_recv_irq implement a byte stream, until a handler    *)
(* runs while pbuf_consume gives the last pbuf back.                        *)
THEOREM StreamImplemented ==
  ASSUME Proto = "TCP" PROVE QueueSpec => ImplementsStream
<1>1. QueueInit => Stream!Init
  BY DEF QueueInit, Init, broken, Stream!Init
<1>2. QueueInit => IInv
  BY InitIInv DEF QueueInit
<1>3. IInv /\ [QueueNext]_qvars => IInv'
  BY StepIInv DEF QueueNext, qvars
<1>4. IInv /\ [QueueNext]_qvars => [Stream!Next]_(Stream!vars)
  BY QueueStepImplements
<1> QED BY <1>1, <1>2, <1>3, <1>4, PTL DEF QueueSpec, ImplementsStream, Stream!Spec

-----------------------------------------------------------------------------
(* The members of a finite set of numbers, from the least on.              *)

(* A larger member has more members up to it.                              *)
LEMMA RankGrows ==
  ASSUME NEW S \in SUBSET Nat, IsFiniteSet(S), NEW i \in S, NEW j \in S, i < j
  PROVE  Rank(S, i) < Rank(S, j)
<1> DEFINE A == {k \in S : k <= i}
           B == {k \in S : k <= j}
<1>1. IsFiniteSet(A) /\ IsFiniteSet(B)
  BY FS_Subset
<1>2. A \in SUBSET B /\ A # B
  <2>1. i \in Nat /\ j \in Nat /\ \A k \in S : k \in Nat
    OBVIOUS
  <2>2. \A k \in S : k <= i => k <= j
    BY <2>1
  <2>3. j \in B /\ j \notin A
    BY <2>1
  <2> QED BY <2>2, <2>3
<1>3. Cardinality(A) \in Nat /\ Cardinality(B) \in Nat
  BY <1>1, FS_CardinalityType
<1>4. Cardinality(A) <= Cardinality(B) /\ Cardinality(A) # Cardinality(B)
  BY <1>1, <1>2, FS_Subset
<1> HIDE DEF A, B
<1>5. Cardinality(A) < Cardinality(B)
  BY <1>3, <1>4
<1> QED BY <1>5 DEF A, B, Rank

(* A rank is at least one and at most the size of the set.                 *)
LEMMA RankInRange ==
  ASSUME NEW S \in SUBSET Nat, IsFiniteSet(S), NEW i \in S
  PROVE  Rank(S, i) \in 1 .. Cardinality(S)
<1> DEFINE A == {k \in S : k <= i}
<1>1. A \in SUBSET S /\ i \in A
  OBVIOUS
<1>2. IsFiniteSet(A) /\ Cardinality(A) <= Cardinality(S)
  BY <1>1, FS_Subset
<1>3. Cardinality(A) \in Nat /\ Cardinality(S) \in Nat
  BY <1>2, FS_CardinalityType
<1>4. Cardinality(A) # 0
  BY <1>1, <1>2, FS_EmptySet
<1> HIDE DEF A
<1>5. Cardinality(A) \in 1 .. Cardinality(S)
  BY <1>2, <1>3, <1>4
<1> QED BY <1>5 DEF A, Rank

(* The member of a member's rank is that member.                           *)
LEMMA NthOfRank ==
  ASSUME NEW S \in SUBSET Nat, IsFiniteSet(S), NEW i \in S
  PROVE  Nth(S, Rank(S, i)) = i
<1>1. \A j \in S : Rank(S, j) = Rank(S, i) => j = i
  <2> SUFFICES ASSUME NEW j \in S, Rank(S, j) = Rank(S, i), j # i PROVE FALSE
    OBVIOUS
  <2>1. Rank(S, j) \in Nat
    BY RankInRange, FS_CardinalityType
  <2>2. CASE i < j
    BY <2>1, <2>2, RankGrows
  <2>3. CASE j < i
    BY <2>1, <2>3, RankGrows
  <2> QED BY <2>2, <2>3
<1> QED BY <1>1 DEF Nth

(* Every number up to the size of the set is the rank of a member.         *)
LEMMA NthHasRank ==
  ASSUME NEW S \in SUBSET Nat, IsFiniteSet(S), NEW n \in 1 .. Cardinality(S)
  PROVE  Nth(S, n) \in S /\ Rank(S, Nth(S, n)) = n
<1> DEFINE N == 1 .. Cardinality(S)
           f == [i \in S |-> Rank(S, i)]
<1>1. Cardinality(S) \in Nat
  BY FS_CardinalityType
<1>2. IsFiniteSet(N) /\ Cardinality(N) = Cardinality(S)
  BY <1>1, FS_Interval
<1>3. f \in [S -> N]
  BY RankInRange
<1>4. \A i, j \in S : f[i] = f[j] => i = j
  BY NthOfRank
<1>5. f \in Injection(S, N)
  BY <1>3, <1>4 DEF Injection, IsInjective
<1>6. f \in Surjection(S, N)
  BY <1>2, <1>5, FS_Injection
<1>7. \E i \in S : Rank(S, i) = n
  BY <1>6 DEF Surjection
<1> QED BY <1>7 DEF Nth

(* A new greatest member comes last, and leaves the others where they are. *)
LEMMA NthOfLarger ==
  ASSUME NEW S \in SUBSET Nat, IsFiniteSet(S), NEW m \in Nat, \A i \in S : i < m
  PROVE  LET T == S \cup {m}
         IN  /\ Cardinality(T) = Cardinality(S) + 1
             /\ \A n \in 1 .. Cardinality(S) : Nth(T, n) = Nth(S, n)
             /\ Nth(T, Cardinality(S) + 1) = m
<1> DEFINE T == S \cup {m}
<1>1. T \in SUBSET Nat /\ m \in T /\ m \notin S
  OBVIOUS
<1>2. IsFiniteSet(T) /\ Cardinality(T) = Cardinality(S) + 1
  BY <1>1, FS_AddElement
<1>3. {j \in T : j <= m} = T
  <2>1. \A j \in T : j <= m
    OBVIOUS
  <2> QED BY <2>1
<1>4. Nth(T, Cardinality(S) + 1) = m
  BY <1>1, <1>2, <1>3, NthOfRank DEF Rank
<1>5. ASSUME NEW n \in 1 .. Cardinality(S) PROVE Nth(T, n) = Nth(S, n)
  <2>1. Nth(S, n) \in S /\ Rank(S, Nth(S, n)) = n
    BY NthHasRank
  <2>2. {j \in T : j <= Nth(S, n)} = {j \in S : j <= Nth(S, n)}
    <3>1. \A i \in S : ~(m <= i)
      OBVIOUS
    <3> QED BY <2>1, <3>1
  <2>3. Rank(T, Nth(S, n)) = n
    BY <2>1, <2>2 DEF Rank
  <2> QED BY <1>1, <1>2, <2>1, <2>3, NthOfRank
<1> QED BY <1>2, <1>4, <1>5

(* Without its least member the others move up by one.                     *)
LEMMA NthOfRest ==
  ASSUME NEW S \in SUBSET Nat, IsFiniteSet(S), NEW m \in S, \A i \in S : m <= i
  PROVE  LET T == S \ {m}
         IN  /\ Cardinality(S) = Cardinality(T) + 1 /\ Cardinality(T) \in Nat
             /\ Nth(S, 1) = m
             /\ \A n \in 1 .. Cardinality(T) : Nth(T, n) = Nth(S, n + 1)
<1> DEFINE T == S \ {m}
<1>1. T \in SUBSET Nat /\ m \notin T
  OBVIOUS
<1>2. IsFiniteSet(T) /\ Cardinality(T) = Cardinality(S) - 1
  BY FS_RemoveElement
<1>3. Cardinality(T) \in Nat /\ Cardinality(S) \in Nat
  BY <1>2, FS_CardinalityType
<1>4. Cardinality(S) = Cardinality(T) + 1
  BY <1>2, <1>3
<1>5. {j \in S : j <= m} = {m}
  <2>1. \A j \in S : j <= m <=> j = m
    OBVIOUS
  <2> QED BY <2>1
<1>6. Rank(S, m) = 1
  BY <1>5, FS_Singleton DEF Rank
<1>7. Nth(S, 1) = m
  BY <1>6, NthOfRank
<1>8. ASSUME NEW n \in 1 .. Cardinality(T) PROVE Nth(T, n) = Nth(S, n + 1)
  <2> DEFINE i == Nth(S, n + 1)
             A == {j \in S : j <= i}
  <2>1. n \in Nat /\ n + 1 \in 1 .. Cardinality(S) /\ n + 1 # 1
    BY <1>3, <1>4
  <2>2. i \in S /\ Rank(S, i) = n + 1
    BY <2>1, NthHasRank
  <2>3. i \in T
    BY <1>6, <2>1, <2>2
  <2>4. {j \in T : j <= i} = A \ {m} /\ m \in A
    BY <2>2
  <2>5. IsFiniteSet(A) /\ Cardinality(A) = n + 1
    BY <2>2, FS_Subset DEF Rank
  <2> HIDE DEF A
  <2>6. Cardinality(A \ {m}) = (n + 1) - 1
    BY <2>4, <2>5, FS_RemoveElement
  <2> USE DEF A
  <2>7. Rank(T, i) = n
    BY <2>1, <2>4, <2>6 DEF Rank
  <2> QED BY <1>1, <1>2, <2>3, <2>7, NthOfRank
<1> QED BY <1>3, <1>4, <1>7, <1>8

(* After returns the first member that follows.                            *)
LEMMA AfterIs ==
  ASSUME NEW S \in SUBSET Nat, NEW i \in Nat, NEW j \in S, j > i,
         \A k \in S : k > i => j <= k
  PROVE  After(S, i) = j
<1>1. \A x \in S : x > i /\ (\A k \in S : k > i => x <= k) => x = j
  <2> SUFFICES ASSUME NEW x \in S, x > i, \A k \in S : k > i => x <= k PROVE x = j
    OBVIOUS
  <2>1. x <= j /\ j <= x /\ x \in Nat /\ j \in Nat
    OBVIOUS
  <2> QED BY <2>1
<1> QED BY <1>1 DEF After

(* There is one if any member follows, and it is the first that does.      *)
LEMMA AfterExists ==
  ASSUME NEW S \in SUBSET Nat, IsFiniteSet(S), NEW i \in Nat, \E j \in S : j > i
  PROVE  /\ After(S, i) \in S /\ After(S, i) > i
         /\ \A k \in S : k > i => After(S, i) <= k
<1> DEFINE T == {j \in S : j > i}
           x == Nth(T, 1)
<1>1. T \in SUBSET Nat /\ T # {}
  OBVIOUS
<1>2. IsFiniteSet(T)
  BY FS_Subset
<1>3. 1 \in 1 .. Cardinality(T)
  BY <1>1, <1>2, FS_CardinalityType, FS_EmptySet
<1>4. x \in T /\ Rank(T, x) = 1
  BY <1>1, <1>2, <1>3, NthHasRank
<1>5. \A k \in T : x <= k
  <2> SUFFICES ASSUME NEW k \in T, k < x PROVE FALSE
    BY <1>1, <1>4
  <2>1. Rank(T, k) < Rank(T, x)
    BY <1>1, <1>2, <1>4, RankGrows
  <2>2. Rank(T, k) \in 1 .. Cardinality(T)
    BY <1>1, <1>2, RankInRange
  <2> QED BY <1>1, <1>2, <1>4, <2>1, <2>2, FS_CardinalityType
<1>6. x \in S /\ x > i /\ \A k \in S : k > i => x <= k
  BY <1>4, <1>5
<1> QED BY <1>6, AfterIs

-----------------------------------------------------------------------------
(* RxQueue implements DatagramQueue for every set of datagrams and buffer   *)
(* size.                                                                   *)

(* Up to its return a call has passed no datagram but its own.             *)
Passed ==
  Proto = "UDP" /\ ~broken =>
    /\ pc \in {"consume", "unlink", "free"} =>
         \A i \in first : i > rx_chain => i > p
    /\ pc = "store" =>
         \A i \in first : i > rx_chain <=> (p # NULL /\ i >= p)

(* What the invariant says of the datagrams and of the consumer.           *)
LEMMA DatagramFacts ==
  ASSUME IInv
  PROVE  /\ received \in Nat /\ rcv_nxt \in Nat /\ rx_chain \in 0 .. received
         /\ p \in 0 .. received
         /\ first \in SUBSET Nat /\ IsFiniteSet(first)
         /\ \A i \in first : i \in 1 .. received
         /\ Waiting \in SUBSET Nat /\ IsFiniteSet(Waiting)
         /\ \A i \in Waiting : i \in first
<1>1. received \in Nat /\ rcv_nxt \in Nat /\ rx_chain \in 0 .. received /\ p \in 0 .. received
  BY NumAssumption DEF IInv, TypeOK
<1>2. \A i \in first : i \in 1 .. received
  BY DEF IInv, Ordered
<1>3. first \in SUBSET Nat /\ first \in SUBSET (1 .. received)
  BY <1>1, <1>2
<1>4. IsFiniteSet(first)
  <2>1. IsFiniteSet(1 .. received)
    BY <1>1, FS_Interval
  <2> QED BY <1>3, <2>1, FS_Subset
<1>5. Waiting \in SUBSET first
  BY DEF Waiting
<1> QED BY <1>1, <1>2, <1>3, <1>4, <1>5, FS_Subset

(* The promise is kept by a step only if nothing raced with the consumer.  *)
LEMMA NotRaced ==
  ASSUME Next, ~broken'
  PROVE  raced = {} /\ raced' = {} /\ ~broken /\ ~corrupt'
<1>1. raced' = {} /\ ~corrupt'
  BY DEF broken
<1>2. ~broken
  BY BrokenStays
<1> QED BY <1>1, <1>2 DEF broken

(* What a handler does that keeps the promise: it has found rx_chain       *)
(* allocated, and its packet starts a datagram.                            *)
LEMMA DatagramArrives ==
  ASSUME IInv, recv_irq, ~broken'
  PROVE  \E c \in Packets :
           /\ Appended(c) /\ (rx_chain = NULL \/ rx_chain \in heap)
           /\ first' = first \cup {received + 1}
           /\ rx_chain' = IF rx_chain = NULL THEN received + 1 ELSE rx_chain
           /\ pc' = pc /\ p' = p
<1>1. PICK c \in Packets :
        /\ received + Len(c) <= NumPbufs /\ Append1(c)
        /\ rx_chain = NULL \/ rx_chain \in heap
  BY DEF recv_irq, broken
<1>2. Appended(c)
  BY <1>1, AppendFacts
<1>3. /\ first' = first \cup {received + 1}
      /\ rx_chain' = IF rx_chain = NULL THEN received + 1 ELSE rx_chain
  BY <1>1 DEF Append1
<1>4. pc' = pc /\ p' = p
  BY DEF recv_irq, locals
<1> QED BY <1>1, <1>2, <1>3, <1>4

(* Passed holds initially,                                                 *)
LEMMA PassedInit == Init => Passed
  BY DEF Init, Passed

(* and every step keeps it.                                                *)
LEMMA PassedStep ==
  ASSUME IInv, Passed, [Next]_vars
  PROVE  Passed'
<1> SUFFICES ASSUME Proto = "UDP", ~broken', Next PROVE Passed'
  BY DEF Passed, vars, broken, arrivals, locals, history
<1> USE DatagramFacts, NotRaced
<1>1. CASE recv_irq
  <2>1. PICK c \in Packets :
          /\ Appended(c)
          /\ rx_chain = NULL \/ rx_chain \in heap
          /\ first' = first \cup {received + 1}
          /\ rx_chain' = IF rx_chain = NULL THEN received + 1 ELSE rx_chain
          /\ pc' = pc /\ p' = p
    BY <1>1, DatagramArrives
  <2>2. pc # "idle" => rx_chain # NULL /\ p = rx_chain
    BY <2>1, FrontAtArrival
  <2> QED BY <2>1, <2>2 DEF Passed, NULL
<1>2. CASE callback
  BY <1>2 DEF callback, Passed, arrivals, locals, history
<1>3. CASE recv_would_block
  BY <1>3 DEF recv_would_block, Passed
<1>4. CASE recv_start
  BY <1>4 DEF recv_start, Passed
<1>5. CASE copy_partial
  BY <1>5 DEF copy_partial, Passed
<1>6. CASE copy_done
  <2>1. p' = rx_chain' /\ pc' = "consume"
    BY <1>6 DEF copy_done, IInv, IdleInv
  <2> QED BY <2>1 DEF Passed
<1>7. CASE pbuf_consume
  <2>1. /\ pc = "consume" /\ pc' \in {"unlink", "consume"}
        /\ UNCHANGED <<p, rx_chain, first>>
    BY <1>7 DEF pbuf_consume, frees, ends, arrivals
  <2> QED BY <2>1 DEF Passed
<1>8. CASE pbuf_unlink
  BY <1>8 DEF pbuf_unlink, Passed, arrivals, history
<1>9. CASE pbuf_free
  <2>1. /\ pc = "free" /\ UNCHANGED <<rx_chain, first>>
        /\ \/ UNCHANGED <<p, pc>>
           \/ p' = q /\ pc' = IF consume = 0 THEN "store" ELSE "consume"
    BY <1>9 DEF pbuf_free, ends, arrivals
  <2>2. /\ p # NULL /\ rx_chain <= p
        /\ q # NULL => q = p + 1 /\ (consume # 0 => q \notin first)
        /\ q = NULL => consume = 0 /\ p + 1 .. received = {}
    BY <2>1 DEF IInv, FreeInv, ConsumeInv, InCall, UdpInv
  <2>3. \A i \in first : i > rx_chain => i > p
    BY <2>1 DEF Passed
  <2>4. q = NULL => \A i \in first : ~(i > rx_chain)
    BY <2>2, <2>3
  <2>5. q # NULL => \A i \in first : i > rx_chain <=> i >= q
    BY <2>2, <2>3
  <2> HIDE DatagramFacts, NotRaced
  <2>6. CASE UNCHANGED <<p, pc>>
    BY <2>1, <2>3, <2>6 DEF Passed
  <2>7. CASE p' = q /\ pc' = "store"
    BY <2>1, <2>4, <2>5, <2>7 DEF Passed
  <2>8. CASE p' = q /\ pc' = "consume" /\ consume # 0
    <3>1. q # NULL /\ \A i \in first : i \in Nat /\ i # q
      BY <2>2, <2>8, DatagramFacts
    <3>2. \A i \in first : i > rx_chain => i > q
      BY <2>2, <2>5, <3>1, DatagramFacts
    <3> QED BY <2>1, <2>8, <3>2 DEF Passed
  <2> QED BY <2>1, <2>6, <2>7, <2>8
<1>10. CASE recv_return
  BY <1>10 DEF recv_return, Passed
<1> QED BY <1>1, <1>2, <1>3, <1>4, <1>5, <1>6, <1>7, <1>8, <1>9, <1>10 DEF Next, recv_call

(* A sequence is Append's, or Tail's, if its members are.                  *)
LEMMA AppendIs ==
  ASSUME NEW S, NEW s \in Seq(S), NEW e \in S, NEW t,
         t = [n \in 1 .. Len(s) + 1 |-> t[n]],
         \A n \in 1 .. Len(s) : t[n] = s[n], t[Len(s) + 1] = e
  PROVE  t = Append(s, e)
<1> DEFINE a == Append(s, e)
<1>0. a \in Seq(S) /\ Len(a) = Len(s) + 1
  OBVIOUS
<1>1. a = [n \in 1 .. Len(s) + 1 |-> a[n]]
  <2> HIDE DEF a
  <2> QED BY <1>0
<1>2. \A n \in 1 .. Len(s) + 1 : a[n] = IF n <= Len(s) THEN s[n] ELSE e
  OBVIOUS
<1>3. \A n \in 1 .. Len(s) + 1 : a[n] = t[n]
  BY <1>2
<1> HIDE DEF a
<1>4. t = a
  BY <1>1, <1>3
<1> QED BY <1>4 DEF a

LEMMA TailIs ==
  ASSUME NEW S, NEW s \in Seq(S), Len(s) > 0, NEW t,
         t = [n \in 1 .. Len(s) - 1 |-> t[n]],
         \A n \in 1 .. Len(s) - 1 : t[n] = s[n + 1]
  PROVE  t = Tail(s)
<1> DEFINE a == Tail(s)
<1>0. a \in Seq(S) /\ Len(a) = Len(s) - 1
  OBVIOUS
<1>1. a = [n \in 1 .. Len(s) - 1 |-> a[n]]
  <2> HIDE DEF a
  <2> QED BY <1>0
<1>2. \A n \in 1 .. Len(s) - 1 : a[n] = s[n + 1]
  OBVIOUS
<1>3. \A n \in 1 .. Len(s) - 1 : a[n] = t[n]
  BY <1>2
<1> HIDE DEF a
<1>4. t = a
  BY <1>1, <1>3
<1> QED BY <1>4 DEF a

(* The queue is the same if what waits is, datagram for datagram.          *)
LEMMA QueueSame ==
  ASSUME IInv, Waiting' = Waiting, \A i \in Waiting : datagram(i)' = datagram(i)
  PROVE  queue' = queue
<1>1. \A n \in 1 .. Cardinality(Waiting) : Nth(Waiting, n) \in Waiting
  BY DatagramFacts, NthHasRank
<1>2. \A n \in 1 .. Cardinality(Waiting) :
        datagram(Nth(Waiting, n))' = datagram(Nth(Waiting, n))
  <2> SUFFICES ASSUME NEW n \in 1 .. Cardinality(Waiting)
               PROVE  datagram(Nth(Waiting, n))' = datagram(Nth(Waiting, n))
    OBVIOUS
  <2>1. Nth(Waiting', n) = Nth(Waiting, n)
    OBVIOUS
  <2> QED BY <1>1, <2>1 DEF datagram, EndOfDatagram
<1> QED BY <1>2 DEF queue

(* The n-th datagram of the queue after a step.                            *)
LEMMA QueueAfter ==
  ASSUME NEW T, Waiting' = T, NEW n \in 1 .. Cardinality(T), NEW i, Nth(T, n) = i
  PROVE  queue'[n] = datagram(i)'
  BY DEF queue, datagram, EndOfDatagram

(* A step that receives nothing leaves a datagram as it is, unless it moves *)
(* the start of one.                                                       *)
LEMMA DatagramSame ==
  ASSUME IInv, first' = first, rcv_nxt' = rcv_nxt, NEW i \in first,
         payload'[i] = payload[i], \A j \in first : j > i => payload'[j] = payload[j]
  PROVE  datagram(i)' = datagram(i)
<1>1. CASE \E j \in first : j > i
  <2>1. After(first, i) \in first /\ After(first, i) > i
    BY <1>1, DatagramFacts, AfterExists
  <2>2. EndOfDatagram(i)' = EndOfDatagram(i)
    BY <1>1, <2>1 DEF EndOfDatagram
  <2> QED BY <2>2 DEF datagram
<1>2. CASE ~(\E j \in first : j > i)
  <2>1. EndOfDatagram(i)' = EndOfDatagram(i)
    BY <1>2 DEF EndOfDatagram
  <2> QED BY <2>1 DEF datagram
<1> QED BY <1>1, <1>2

(* A new packet is a datagram that ends with the bytes received, and ends  *)
(* the one before where that did.                                          *)
LEMMA ArrivalDatagrams ==
  ASSUME IInv, NEW c \in Packets, Appended(c),
         NEW m, m = received + 1, first' = first \cup {m}
  PROVE  /\ \A i \in first : datagram(i)' = datagram(i)
         /\ datagram(m)' = [from |-> rcv_nxt, count |-> rcv_nxt' - rcv_nxt]
<1>1. /\ received \in Nat /\ m \in Nat /\ received' >= m /\ rcv_nxt \in Nat
      /\ \A i \in 1 .. received : payload'[i] = payload[i]
      /\ payload'[m] = rcv_nxt
  <2>1. received \in Nat /\ received' >= m /\ rcv_nxt \in Nat
    BY DatagramFacts DEF Appended
  <2>2. m \in received + 1 .. received'
    BY <2>1 DEF Appended
  <2>3. payload'[m] = rcv_nxt + 0
    BY <2>2 DEF Appended
  <2> QED BY <2>1, <2>3 DEF Appended
<1>2. first' \in SUBSET Nat /\ \A i \in first : i \in Nat /\ i < m
  BY <1>1, DatagramFacts
<1>3. ASSUME NEW i \in first PROVE datagram(i)' = datagram(i)
  <2>0. payload'[i] = payload[i] /\ i \in Nat /\ i < m
    BY <1>1, <1>2, DatagramFacts
  <2>1. CASE \E j \in first : j > i
    <3>1. /\ After(first, i) \in first /\ After(first, i) > i
          /\ \A k \in first : k > i => After(first, i) <= k
      BY <2>1, DatagramFacts, AfterExists
    <3>2. After(first, i) < m
      BY <1>2, <3>1
    <3>3. After(first, i) \in first' /\ \A k \in first' : k > i => After(first, i) <= k
      BY <1>2, <3>1, <3>2
    <3>4. After(first', i) = After(first, i)
      BY <1>2, <2>0, <3>1, <3>3, AfterIs
    <3>5. payload'[After(first, i)] = payload[After(first, i)]
      BY <1>1, <3>1, DatagramFacts
    <3>6. \E j \in first' : j > i
      BY <2>1
    <3>7. EndOfDatagram(i)' = EndOfDatagram(i)
      BY <2>1, <3>4, <3>5, <3>6 DEF EndOfDatagram
    <3> QED BY <2>0, <3>7 DEF datagram
  <2>2. CASE ~(\E j \in first : j > i)
    <3>1. m \in first' /\ m > i
      BY <1>1, <2>0
    <3>2. \A k \in first' : k > i => m <= k
      BY <1>1, <2>2
    <3>3. After(first', i) = m
      BY <1>2, <2>0, <3>1, <3>2, AfterIs
    <3>4. EndOfDatagram(i)' = EndOfDatagram(i)
      BY <1>1, <2>2, <3>1, <3>3 DEF EndOfDatagram
    <3> QED BY <2>0, <3>4 DEF datagram
  <2> QED BY <2>1, <2>2
<1>4. datagram(m)' = [from |-> rcv_nxt, count |-> rcv_nxt' - rcv_nxt]
  <2>1. ~(\E j \in first' : j > m)
    BY <1>1, <1>2
  <2>2. EndOfDatagram(m)' = rcv_nxt'
    BY <2>1 DEF EndOfDatagram
  <2> QED BY <1>1, <2>2 DEF datagram
<1> QED BY <1>3, <1>4

(* A packet joins the queue at its end.                                    *)
LEMMA ArrivalQueues ==
  ASSUME Proto = "UDP", IInv, Passed, recv_irq, ~broken', raced = {}, result' = result
  PROVE  Datagrams!Arrive
<1>1. PICK c \in Packets :
        /\ Appended(c)
        /\ rx_chain = NULL \/ rx_chain \in heap
        /\ first' = first \cup {received + 1}
        /\ rx_chain' = IF rx_chain = NULL THEN received + 1 ELSE rx_chain
        /\ pc' = pc /\ p' = p
  BY DatagramArrives
<1>0. PICK m : m = received + 1
  OBVIOUS
<1> DEFINE W == Waiting
           new == [from |-> rcv_nxt, count |-> rcv_nxt' - rcv_nxt]
<1>2. /\ received \in Nat /\ rx_chain \in 0 .. received
      /\ \A i \in first : i \in 1 .. received
      /\ W \in SUBSET Nat /\ IsFiniteSet(W) /\ \A i \in W : i \in first
  BY DatagramFacts
<1>3. rx_chain = NULL => pc = "idle"
  BY <1>1, FrontAtArrival
<1>4. Waiting' = W \cup {m}
  <2>1. CASE rx_chain = NULL
    BY <1>0, <1>1, <1>2, <1>3, <2>1 DEF Waiting, NULL
  <2>2. CASE rx_chain # NULL
    BY <1>0, <1>1, <1>2, <2>2 DEF Waiting, NULL
  <2> QED BY <2>1, <2>2
<1>5. m \in Nat /\ \A i \in W : i < m
  BY <1>0, <1>2
<1>6. /\ Cardinality(W) \in Nat /\ Cardinality(W \cup {m}) = Cardinality(W) + 1
      /\ \A n \in 1 .. Cardinality(W) : Nth(W \cup {m}, n) = Nth(W, n)
      /\ Nth(W \cup {m}, Cardinality(W) + 1) = m
  BY <1>2, <1>5, NthOfLarger, FS_CardinalityType
<1>7. \A n \in 1 .. Cardinality(W) : Nth(W, n) \in W
  BY <1>2, NthHasRank
<1>8. /\ \A i \in first : datagram(i)' = datagram(i)
      /\ datagram(m)' = new
  BY <1>0, <1>1, ArrivalDatagrams
<1>9. queue' = Append(queue, new)
  <2> DEFINE Any == {queue[n] : n \in 1 .. Cardinality(W)} \cup {new}
  <2>1. queue' = [n \in 1 .. Cardinality(W) + 1 |-> queue'[n]]
    BY <1>4, <1>6 DEF queue
  <2>2. queue \in Seq(Any) /\ Len(queue) = Cardinality(W)
    BY <1>6 DEF queue
  <2>3. ASSUME NEW n \in 1 .. Cardinality(W) PROVE queue'[n] = queue[n]
    <3>1. n \in 1 .. Cardinality(W \cup {m}) /\ Nth(W \cup {m}, n) = Nth(W, n)
      BY <1>6
    <3>2. PICK i \in first : i = Nth(W, n)
      BY <1>2, <1>7
    <3>3. queue'[n] = datagram(i)'
      BY <1>4, <3>1, <3>2, QueueAfter
    <3> QED BY <1>8, <3>2, <3>3 DEF queue
  <2>4. PICK n : n = Cardinality(W) + 1
    OBVIOUS
  <2>5. n \in 1 .. Cardinality(W \cup {m}) /\ Nth(W \cup {m}, n) = m
    BY <1>6, <2>4
  <2>6. queue'[n] = new
    BY <1>4, <1>8, <2>5, QueueAfter
  <2>7. new \in Any
    OBVIOUS
  <2> HIDE DEF new, Any
  <2> QED BY <2>1, <2>2, <2>3, <2>4, <2>6, <2>7, AppendIs
<1>10. rcv_nxt' \in Nat /\ rcv_nxt' >= rcv_nxt
  <2>1. rcv_nxt' = rcv_nxt + c[Len(c)] /\ c[Len(c)] \in Nat
    BY <1>1 DEF Appended
  <2> QED BY <2>1, DatagramFacts
<1> QED BY <1>9, <1>10 DEF Datagrams!Arrive

(* The datagram at the front of the list ends where the next one starts,   *)
(* or with the bytes received.                                             *)
LEMMA FrontDatagram ==
  ASSUME Proto = "UDP", IInv, pc = "copy"
  PROVE  /\ p = rx_chain /\ p # NULL /\ p \in first
         /\ payload[p] \in Nat /\ tot_len[p] \in Nat
         /\ EndOfDatagram(p) = payload[p] + tot_len[p]
<1>1. p = rx_chain /\ p # NULL /\ Owned(p)
  BY DEF IInv, IdleInv, TypeOK
<1>2. p \in first
  BY <1>1 DEF IInv, UdpInv, Untouched, Front
<1>3. /\ received \in Nat /\ p \in 1 .. received /\ first \in SUBSET Nat /\ p \in Nat
      /\ \A i \in first : i \in 1 .. received
  BY <1>2, DatagramFacts
<1>4. payload[p] \in Nat /\ tot_len[p] \in Nat
  BY <1>3, PbufFacts
<1>5. PICK m \in p .. received : LastOf(p, m) /\ payload[p] + tot_len[p] = EndOf(m)
  <2>1. Front = p
    BY DEF Front
  <2> QED BY <1>1, <1>2, <1>3, <2>1 DEF IInv, UdpInv, Untouched
<1>6. EndOf(m) = IF m = received THEN rcv_nxt ELSE payload[m + 1]
  BY <1>1 DEF Owned, Contiguous
<1>7. CASE m = received
  <2>1. ~(\E j \in first : j > p)
    BY <1>3, <1>5, <1>7 DEF LastOf
  <2> QED BY <1>1, <1>2, <1>4, <1>5, <1>6, <1>7, <2>1 DEF EndOfDatagram
<1>8. CASE m # received
  <2>1. m + 1 \in first /\ m + 1 > p /\ \A k \in first : k > p => m + 1 <= k
    BY <1>3, <1>5, <1>8 DEF LastOf
  <2>2. After(first, p) = m + 1
    BY <1>3, <2>1, AfterIs
  <2> QED BY <1>1, <1>2, <1>4, <1>5, <1>6, <1>8, <2>1, <2>2 DEF EndOfDatagram
<1> QED BY <1>1, <1>2, <1>4, <1>7, <1>8

(* The end of the copy is the read of the first datagram that waits.       *)
LEMMA CopyTakesDatagram ==
  ASSUME Proto = "UDP", IInv, copy_done, result' = result_of_call
  PROVE  Datagrams!Read
<1>1. /\ pc = "copy" /\ pc' = "consume"
      /\ UNCHANGED <<payload, first, rcv_nxt, rx_chain>>
  BY DEF copy_done, mem, arrivals
<1>2. /\ p = rx_chain /\ p # NULL /\ p \in first
      /\ payload[p] \in Nat /\ tot_len[p] \in Nat
      /\ EndOfDatagram(p) = payload[p] + tot_len[p]
  BY <1>1, FrontDatagram
<1> DEFINE W == Waiting
           T == W \ {p}
           Any == {queue[n] : n \in 1 .. Cardinality(W)}
<1>3. W \in SUBSET Nat /\ IsFiniteSet(W) /\ \A i \in W : i \in first
  BY DatagramFacts
<1>4. p \in W /\ \A i \in W : p <= i
  BY <1>1, <1>2, DatagramFacts DEF Waiting
<1>5. Waiting' = T
  BY <1>1, <1>2, DatagramFacts DEF Waiting
<1>6. /\ Cardinality(W) = Cardinality(T) + 1 /\ Cardinality(T) \in Nat
      /\ Nth(W, 1) = p
      /\ \A n \in 1 .. Cardinality(T) : Nth(T, n) = Nth(W, n + 1)
  BY <1>3, <1>4, NthOfRest
<1>7. ASSUME NEW i \in first PROVE datagram(i)' = datagram(i)
  BY <1>1, DatagramSame
<1>8. queue \in Seq(Any) /\ Len(queue) = Cardinality(W) /\ queue[1] = datagram(p)
  <2>1. Cardinality(W) \in Nat /\ 1 \in 1 .. Cardinality(W)
    BY <1>6
  <2>2. \A n \in 1 .. Cardinality(W) : queue[n] \in Any
    OBVIOUS
  <2> HIDE DEF Any
  <2>3. queue \in Seq(Any) /\ Len(queue) = Cardinality(W)
    BY <2>1, <2>2 DEF queue
  <2> QED BY <1>6, <2>1, <2>3 DEF queue
<1>9. queue' = [n \in 1 .. Len(queue) - 1 |-> queue'[n]]
  <2>1. Len(queue) - 1 = Cardinality(Waiting')
    BY <1>5, <1>6, <1>8
  <2> QED BY <2>1 DEF queue
<1>10. ASSUME NEW n \in 1 .. Len(queue) - 1 PROVE queue'[n] = queue[n + 1]
  <2>1. n \in 1 .. Cardinality(T) /\ n + 1 \in 1 .. Cardinality(W)
    BY <1>6, <1>8
  <2>2. PICK i \in first : i = Nth(W, n + 1)
    BY <1>3, <2>1, NthHasRank
  <2>3. queue'[n] = datagram(i)'
    <3>1. Nth(T, n) = i
      BY <1>6, <2>1, <2>2
    <3> QED BY <1>5, <2>1, <3>1, QueueAfter, Zenon
  <2>4. queue[n + 1] = datagram(i)
    BY <2>1, <2>2 DEF queue
  <2> QED BY <1>7, <2>3, <2>4
<1>11. queue' = Tail(queue)
  <2>1. Len(queue) > 0
    BY <1>6, <1>8
  <2> HIDE DEF Any
  <2> QED BY <1>8, <1>9, <1>10, <2>1, TailIs
<1>12. queue # <<>> /\ Head(queue) = datagram(p)
  BY <1>6, <1>8
<1>13. result' = [from |-> payload[p], count |-> copied]
  BY DEF result_of_call
<1>14. copied \in 0 .. datagram(p).count
  <2>1. copied \in Nat /\ left \in Nat /\ copied + left <= tot_len[p]
    BY <1>1 DEF IInv, TypeOK, CopyInv
  <2>2. datagram(p).count = (payload[p] + tot_len[p]) - payload[p]
    BY <1>2 DEF datagram
  <2> QED BY <1>2, <2>1, <2>2
<1>15. Head(queue).from = payload[p]
  BY <1>12 DEF datagram
<1>16. /\ result' = [from |-> Head(queue).from, count |-> result'.count]
       /\ result'.count \in 0 .. Head(queue).count
  BY <1>12, <1>13, <1>14, <1>15
<1> QED BY <1>1, <1>11, <1>12, <1>16 DEF Datagrams!Read

(* The other steps leave the queue alone: the call's own datagram is out   *)
(* of it since the copy, and no other is passed.                           *)
LEMMA WaitingSame ==
  ASSUME Proto = "UDP", IInv, Passed, Next, ~recv_irq, ~copy_done, ~broken'
  PROVE  /\ UNCHANGED <<first, rcv_nxt>> /\ ~(pc = "copy" /\ pc' = "consume")
         /\ Waiting' = Waiting
         /\ \A i \in Waiting : datagram(i)' = datagram(i)
<1> USE DatagramFacts
<1>1. UNCHANGED <<first, rcv_nxt>>
  BY DEF Next, recv_call, callback, recv_would_block, recv_start, copy_partial, pbuf_consume,
         pbuf_unlink, pbuf_free, recv_return, arrivals
<1>2. CASE callback \/ recv_would_block \/ copy_partial
  BY <1>1, <1>2, DatagramSame
     DEF callback, recv_would_block, copy_partial, mem, Waiting
<1>3. CASE recv_start
  BY <1>1, <1>3, DatagramSame DEF recv_start, mem, Waiting
<1>4. CASE pbuf_consume
  <2>1. /\ pc = "consume" /\ pc' \in {"consume", "unlink", "store"} /\ rx_chain' = rx_chain
        /\ \A i \in Pbufs : i # p => payload'[i] = payload[i]
    BY <1>4 DEF pbuf_consume, IInv, TypeOK
  <2>2. Waiting' = Waiting
    BY <1>1, <2>1 DEF Waiting
  <2>3. \A i \in Waiting : i \in first /\ i > p
    BY <2>1, NotRaced DEF Passed, Waiting
  <2>4. \A i \in first : i > p => payload'[i] = payload[i]
    BY <2>1 DEF IInv, TypeOK
  <2>5. ASSUME NEW i \in Waiting PROVE datagram(i)' = datagram(i)
    <3>1. payload'[i] = payload[i] /\ \A j \in first : j > i => payload'[j] = payload[j]
      BY <2>3, <2>4
    <3> QED BY <1>1, <2>3, <3>1, DatagramSame
  <2> QED BY <1>1, <2>1, <2>2, <2>5
<1>5. CASE pbuf_unlink \/ pbuf_free
  <2>1. /\ pc \in {"unlink", "free"} /\ pc' \in {"free", "store", "consume"}
        /\ payload' = payload /\ rx_chain' = rx_chain
    BY <1>5 DEF pbuf_unlink, pbuf_free
  <2>2. Waiting' = Waiting
    BY <1>1, <2>1 DEF Waiting
  <2> QED BY <1>1, <2>1, <2>2, DatagramSame
<1>6. CASE recv_return
  <2>1. pc = "store" /\ pc' = "idle" /\ payload' = payload /\ rx_chain' = p /\ rx_chain # NULL
    BY <1>6 DEF recv_return, mem, IInv, ConsumeInv, InCall
  <2>2. \A i \in first : i > rx_chain <=> (p # NULL /\ i >= p)
    BY <2>1, NotRaced DEF Passed
  <2>3. Waiting' = Waiting
    BY <1>1, <2>1, <2>2 DEF Waiting
  <2> QED BY <1>1, <2>1, <2>3, DatagramSame
<1> QED BY <1>2, <1>3, <1>4, <1>5, <1>6 DEF Next, recv_call

(* Every step of the queue is a step of DatagramQueue or leaves it alone.  *)
LEMMA DatagramStepImplements ==
  ASSUME Proto = "UDP", IInv, Passed, [QueueNext]_qvars
  PROVE  [Datagrams!Next]_(Datagrams!vars)
<1>1. CASE UNCHANGED qvars
  BY <1>1 DEF qvars, vars, mem, arrivals, history, broken, Waiting, queue, datagram,
              EndOfDatagram, Datagrams!vars
<1>2. CASE broken'
  BY <1>2 DEF Datagrams!Next, Datagrams!Break
<1>3. CASE QueueNext /\ ~broken'
  <2>1. ~broken /\ raced = {} /\ Next
    BY <1>3, NotRaced DEF QueueNext
  <2>2. CASE recv_irq
    <3>1. result' = result
      BY <1>3, <2>2 DEF QueueNext, recv_irq
    <3> QED BY <1>3, <2>1, <2>2, <3>1, ArrivalQueues DEF Datagrams!Next, Datagrams!Kept
  <2>3. CASE copy_done
    <3>1. result' = result_of_call
      BY <1>3, <2>3 DEF QueueNext, copy_done
    <3> QED BY <1>3, <2>1, <2>3, <3>1, CopyTakesDatagram DEF Datagrams!Next, Datagrams!Kept
  <2>4. CASE ~recv_irq /\ ~copy_done
    <3>1. rcv_nxt' = rcv_nxt /\ result' = result /\ queue' = queue
      BY <1>3, <2>1, <2>4, WaitingSame, QueueSame DEF QueueNext
    <3> QED BY <1>3, <2>1, <3>1 DEF broken, Datagrams!vars
  <2> QED BY <2>2, <2>3, <2>4
<1> QED BY <1>1, <1>2, <1>3

(* socket_recvfrom hands out the datagrams of udp_recv_irq one by one, each *)
(* from its first byte on, until a handler runs while pbuf_consume gives    *)
(* the last pbuf back.                                                     *)
THEOREM DatagramsImplemented ==
  ASSUME Proto = "UDP" PROVE QueueSpec => ImplementsDatagrams
<1>1. QueueInit => Datagrams!Init
  <2> SUFFICES ASSUME QueueInit PROVE Datagrams!Init
    OBVIOUS
  <2>1. Waiting = {}
    BY DEF QueueInit, Init, Waiting
  <2>2. Cardinality(Waiting) = 0
    BY <2>1, FS_EmptySet
  <2>3. queue = <<>>
    BY <2>2 DEF queue
  <2> QED BY <2>3 DEF QueueInit, Init, broken, Datagrams!Init
<1>2. QueueInit => IInv /\ Passed
  BY InitIInv, PassedInit DEF QueueInit
<1>3. IInv /\ Passed /\ [QueueNext]_qvars => (IInv /\ Passed)'
  BY StepIInv, PassedStep DEF QueueNext, qvars
<1>4. IInv /\ Passed /\ [QueueNext]_qvars => [Datagrams!Next]_(Datagrams!vars)
  BY DatagramStepImplements
<1> QED BY <1>1, <1>2, <1>3, <1>4, PTL DEF QueueSpec, ImplementsDatagrams, Datagrams!Spec

-----------------------------------------------------------------------------
(* What RecvReturns rests on: how far a receive call is from its end.  In   *)
(* pbuf_consume each pbuf takes three steps, and pbuf_free may go on to     *)
(* pbufs that arrived after the consumer read p->next as NULL.             *)

Behind(i) == IF i = NULL THEN 0 ELSE NumPbufs + 1 - i

Distance ==
  CASE pc = "copy" -> 3 * NumPbufs + 2 + Behind(walk)
    [] pc = "consume" -> 3 * Behind(p) + 1
    [] pc = "unlink" -> 3 * Behind(p)
    [] pc = "free" -> IF q = NULL THEN 1 + Behind(victim) ELSE 3 * Behind(p) - 1
    [] pc = "store" -> 1
    [] OTHER -> 0

(* Every step of the call makes it smaller,                                *)
LEMMA CallStepNears ==
  ASSUME IInv, recv_call
  PROVE  Distance' < Distance
<1> DEFINE N == NumPbufs
<1>0. /\ N \in Nat /\ received \in 0 .. N
      /\ p \in 0 .. N /\ q \in 0 .. N /\ walk \in 0 .. N /\ victim \in 0 .. N
      /\ received \in Nat /\ p \in 0 .. received /\ walk \in 0 .. received
  BY NumAssumption DEF IInv, TypeOK
<1>1. /\ pc \in {"copy", "consume", "unlink"} => p # NULL
      /\ pc = "free" => victim # NULL
  BY DEF IInv, TypeOK
<1>2. CASE copy_partial
  <2>1. pc = "copy" /\ pc' = "copy" /\ walk # NULL /\ walk' = next[walk]
    BY <1>2 DEF copy_partial
  <2>2. Linked(p) /\ walk >= p
    BY <1>1, <2>1 DEF IInv, IdleInv, CopyInv, Owned
  <2>3. walk \in p .. received /\ walk' = IF walk = received THEN NULL ELSE walk + 1
    BY <1>0, <2>1, <2>2 DEF Linked
  <2>4. Behind(walk') < Behind(walk) /\ Behind(walk) \in Nat /\ Behind(walk') \in Nat
    BY <1>0, <2>1, <2>3 DEF Behind, NULL
  <2>5. Distance = 3 * N + 2 + Behind(walk) /\ Distance' = 3 * N + 2 + Behind(walk')
    BY <2>1 DEF Distance, Behind
  <2> QED BY <1>0, <2>4, <2>5
<1>3. CASE copy_done
  <2>1. pc = "copy" /\ pc' = "consume" /\ p' = p /\ p # NULL
    BY <1>1, <1>3 DEF copy_done
  <2>2. Behind(p) <= N /\ Behind(p) \in Nat /\ Behind(walk) \in Nat
    BY <1>0, <2>1 DEF Behind, NULL
  <2>3. Distance = 3 * N + 2 + Behind(walk) /\ Distance' = 3 * Behind(p) + 1
    BY <2>1 DEF Distance, Behind
  <2> QED BY <1>0, <2>2, <2>3
<1>4. CASE pbuf_consume
  <2>1. pc = "consume" /\ pc' \in {"unlink", "store"} /\ p' = p /\ p # NULL
    <3>1. consume \in Nat /\ len[p] \in Nat
      BY <1>0, <1>1, <1>4 DEF pbuf_consume, IInv, TypeOK, Pbufs, NULL
    <3>2. pc = "consume" /\ p' = p
      BY <1>4 DEF pbuf_consume
    <3>3. pc' \in {"unlink", "store"}
      <4>1. CASE consume <= len[p]
        BY <1>4, <4>1 DEF pbuf_consume, ends
      <4>2. CASE ~(consume <= len[p])
        <5>1. frees(len[p] - 0, consume)
          BY <3>1, <4>2 DEF frees
        <5> QED BY <1>4, <4>2, <5>1 DEF pbuf_consume
      <4> QED BY <4>1, <4>2
    <3> QED BY <1>1, <3>2, <3>3
  <2>2. Behind(p) > 0 /\ Behind(p) \in Nat
    BY <1>0, <2>1 DEF Behind, NULL
  <2>3. Distance = 3 * Behind(p) + 1 /\ Distance' \in {3 * Behind(p), 1}
    BY <2>1 DEF Distance, Behind
  <2> QED BY <2>2, <2>3
<1>5. CASE pbuf_unlink
  <2>1. pc = "unlink" /\ pc' = "free" /\ p' = p /\ q' = q /\ victim' = p /\ p # NULL
    BY <1>1, <1>5 DEF pbuf_unlink
  <2>2. Behind(p) > 0 /\ Behind(p) \in Nat
    BY <1>0, <2>1 DEF Behind, NULL
  <2>3. Distance = 3 * Behind(p) /\ Distance' \in {1 + Behind(p), 3 * Behind(p) - 1}
    BY <2>1 DEF Distance, Behind
  <2> QED BY <2>2, <2>3
<1>6. CASE pbuf_free
  <2>1. /\ pc = "free" /\ q' = q
        /\ \/ walk # NULL /\ ref'[walk] = 0 /\ victim' = walk /\ p' = p /\ pc' = pc
           \/ ~(walk # NULL /\ ref'[walk] = 0) /\ p' = q
              /\ pc' = IF consume = 0 THEN "store" ELSE "consume"
    BY <1>6 DEF pbuf_free, ends
  <2>2. p # NULL /\ victim # NULL
    BY <1>1, <2>1 DEF IInv, FreeInv
  <2>3. CASE q = NULL
    <3>1. consume = 0 /\ (walk # NULL => walk = victim + 1)
      BY <2>1, <2>3 DEF IInv, FreeInv
    <3>2. Behind(victim) > 0 /\ Behind(victim) \in Nat
      BY <1>0, <2>2 DEF Behind, NULL
    <3>3. Distance = 1 + Behind(victim)
      BY <2>1, <2>3 DEF Distance
    <3>4. CASE walk # NULL /\ victim' = walk /\ pc' = pc
      <4>1. Behind(walk) < Behind(victim) /\ Behind(walk) \in Nat
        BY <1>0, <2>2, <3>1, <3>4 DEF Behind, NULL
      <4>2. Distance' = 1 + Behind(walk)
        BY <2>1, <2>3, <3>4 DEF Distance, Behind
      <4> QED BY <3>2, <3>3, <4>1, <4>2
    <3>5. CASE pc' = "store"
      <4>1. Distance' = 1
        BY <3>5 DEF Distance
      <4> QED BY <3>2, <3>3, <4>1
    <3> QED BY <2>1, <3>1, <3>4, <3>5
  <2>4. CASE q # NULL
    <3>1. q = p + 1 /\ walk = q /\ ref[walk] = 2 /\ q \in Pbufs
      BY <1>0, <2>1, <2>4 DEF IInv, FreeInv, TypeOK, Pbufs, NULL
    <3>2. ref'[walk] = 1
      BY <1>6, <3>1 DEF pbuf_free
    <3>3. p' = q /\ pc' \in {"store", "consume"}
      BY <2>1, <3>2
    <3>4. Behind(p) = Behind(q) + 1 /\ Behind(q) > 0 /\ Behind(q) \in Nat
      BY <1>0, <2>2, <2>4, <3>1 DEF Behind, NULL
    <3>5. Distance = 3 * Behind(p) - 1 /\ Distance' \in {1, 3 * Behind(q) + 1}
      BY <2>1, <2>4, <3>3 DEF Distance, Behind
    <3> QED BY <3>4, <3>5
  <2> QED BY <2>3, <2>4
<1>7. CASE recv_return
  <2>1. pc = "store" /\ pc' = "idle"
    BY <1>7 DEF recv_return
  <2> QED BY <2>1 DEF Distance
<1> QED BY <1>2, <1>3, <1>4, <1>5, <1>6, <1>7 DEF recv_call

(* and it is a natural number.                                             *)
LEMMA DistanceType == IInv => Distance \in Nat
<1> SUFFICES ASSUME IInv PROVE Distance \in Nat
  OBVIOUS
<1>1. /\ NumPbufs \in Nat /\ received \in 0 .. NumPbufs
      /\ p \in 0 .. NumPbufs /\ walk \in 0 .. NumPbufs /\ victim \in 0 .. NumPbufs
  BY NumAssumption DEF IInv, TypeOK
<1>2. Behind(p) \in Nat /\ Behind(walk) \in Nat /\ Behind(victim) \in Nat
  BY <1>1 DEF Behind, NULL
<1>3. pc = "free" => p # NULL
  BY DEF IInv, FreeInv
<1>4. p # NULL => Behind(p) > 0
  BY <1>1 DEF Behind, NULL
<1> QED BY <1>1, <1>2, <1>3, <1>4 DEF Distance

(* A receive call ends after finitely many of its own steps: each brings    *)
(* the end nearer, and what the tcpip thread does meanwhile takes it no     *)
(* further away, whatever arrives and however it is interleaved.           *)
CallNearsItsEnd ==
  /\ [](Distance \in Nat)
  /\ [][/\ recv_call => Distance' < Distance
        /\ recv_irq \/ callback => Distance' = Distance]_vars

THEOREM CallsEnd == Spec => CallNearsItsEnd
<1>1. IInv /\ [Next]_vars =>
        [/\ recv_call => Distance' < Distance
         /\ recv_irq \/ callback => Distance' = Distance]_vars
  <2>1. recv_irq \/ callback => Distance' = Distance
    BY DEF recv_irq, callback, locals, Distance, Behind
  <2> QED BY <2>1, CallStepNears
<1> QED BY <1>1, DistanceType, Invariance, PTL DEF Spec, CallNearsItsEnd
=============================================================================
