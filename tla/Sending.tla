------------------------------- MODULE Sending -------------------------------
(***************************************************************************)
(* Sending through LWIPInterface: socket_send on a TCP socket, whose buffer *)
(* the peer's acknowledgements empty, and socket_sendto on a UDP socket.    *)
(* The application is one that waits for the socket's callback when a send  *)
(* was refused, as Socket.h has it, and then sends the same again.  Bytes   *)
(* are counted: TCP keeps their order.                                     *)
(***************************************************************************)
EXTENDS Naturals

CONSTANTS
  Sizes,     \* what the application sends at a time
  Room,      \* TCP_SND_BUF
  U16,       \* the values of a 16-bit integer
  Shared,    \* TRUE: other sockets may hold the memory tcp_write needs
  Pool,      \* pbufs that pbuf_alloc has
  MaxBytes   \* bound on the bytes sent

ASSUME SendingAssumption ==
  /\ Room \in Nat /\ U16 \in Nat \ {0} /\ Pool \in Nat /\ MaxBytes \in Nat
  /\ Sizes \subseteq Nat \ {0} /\ Shared \in BOOLEAN

VARIABLES
  \* the TCP connection
  snd_buf,    \* room in the buffer
  unsent, unacked, received,
  scarce,     \* memory is taken
  reporting,  \* an acknowledgement was taken in; tcp_sent_irq is to run
  \* the application
  claimed,    \* bytes that socket_send said were sent
  wants,      \* the size of a send that was refused, or 0
  event,      \* the callback ran
  starved,    \* history: the refusal was for want of memory
  cut,        \* history: bytes beyond the 16 bits of a size
  \* the UDP socket
  udp,        \* where socket_sendto is
  pbufs,      \* allocated
  nothings    \* history: sends of a NULL pointer

tcp == <<snd_buf, unsent, unacked, received>>
app == <<claimed, wants, starved, cut>>
datagrams == <<udp, pbufs, nothings>>
vars == <<tcp, scarce, reporting, app, event, datagrams>>

Init ==
  /\ snd_buf = Room /\ unsent = 0 /\ unacked = 0 /\ received = 0
  /\ scarce = FALSE /\ reporting = FALSE
  /\ claimed = 0 /\ wants = 0 /\ starved = FALSE /\ cut = 0 /\ event = FALSE
  /\ udp = "idle" /\ pbufs = 0 /\ nothings = 0

-----------------------------------------------------------------------------
(* TCP.                                                                    *)

(* tcp_write takes all of it or fails; its length has 16 bits.              *)
CanWrite(len) == len = 0 \/ (len <= snd_buf /\ ~scarce)

tcp_write(len) ==
  IF CanWrite(len)
  THEN snd_buf' = snd_buf - len /\ unsent' = unsent + len /\ UNCHANGED <<unacked, received>>
  ELSE UNCHANGED tcp

error_ignored(len) == FALSE
error(len) == ~CanWrite(len)

Send(size) ==
  LET len == size % U16 IN
  /\ tcp_write(len)
  /\ IF error(len)
     THEN wants' = size /\ UNCHANGED <<claimed, cut>>
     ELSE wants' = 0 /\ claimed' = claimed + size /\ cut' = cut + (size - len)
  /\ starved' = (error(len) /\ len <= snd_buf)
  /\ UNCHANGED <<scarce, reporting, datagrams>>

socket_send ==
  \E size \in Sizes : wants = 0 /\ claimed + size <= MaxBytes /\ Send(size) /\ UNCHANGED event

(* The application sends again after a callback, which may have come        *)
(* before the refusal.                                                     *)
send_again == wants > 0 /\ event /\ event' = FALSE /\ Send(wants)

(* tcp_output, and lwIP's timer when it failed.                             *)
tcp_output ==
  /\ unsent > 0 /\ unsent' = 0 /\ unacked' = unacked + unsent
  /\ UNCHANGED <<snd_buf, received, scarce, reporting, app, event, datagrams>>

acknowledged ==
  \E n \in 1 .. unacked :
    /\ ~reporting /\ reporting' = TRUE
    /\ received' = received + n /\ unacked' = unacked - n /\ snd_buf' = snd_buf + n
    /\ UNCHANGED <<unsent, scarce, app, event, datagrams>>

calls_back_never == FALSE
calls_back == TRUE

tcp_sent_irq ==
  /\ reporting /\ reporting' = FALSE
  /\ event' = (event \/ calls_back)
  /\ UNCHANGED <<tcp, scarce, app, datagrams>>

memory ==
  /\ Shared /\ scarce' = ~scarce
  /\ UNCHANGED <<tcp, reporting, app, event, datagrams>>

-----------------------------------------------------------------------------
(* UDP.                                                                    *)

(* pbuf_alloc may fail, and pbuf_take fails on a NULL pointer either way;   *)
(* its error returns at once.                                              *)
socket_sendto ==
  /\ udp = "idle"
  /\ \/ pbufs < Pool /\ pbufs' = pbufs + 1 /\ udp' = "taken" /\ UNCHANGED nothings
     \/ pbufs < Pool /\ pbufs' = pbufs + 1 /\ nothings' = nothings + 1 /\ UNCHANGED udp
     \/ pbufs = Pool /\ UNCHANGED datagrams
  /\ UNCHANGED <<tcp, scarce, reporting, app, event>>

freed_if_sent(err) == IF err THEN 0 ELSE 1
freed_twice(err) == 2
freed(err) == 1

(* udp_sendto with its error, pbuf_free, and the callback of this socket,   *)
(* for which nobody waits.                                                 *)
udp_sendto ==
  \E err \in BOOLEAN :
    /\ udp = "taken" /\ udp' = "idle"
    /\ pbufs' = pbufs - freed(err)
    /\ UNCHANGED <<tcp, scarce, reporting, app, event, nothings>>

-----------------------------------------------------------------------------
Next ==
  \/ socket_send \/ send_again \/ tcp_output \/ acknowledged \/ tcp_sent_irq \/ memory
  \/ socket_sendto \/ udp_sendto

(* Threads run, lwIP sends what it has, and the peer is alive.              *)
Fairness ==
  WF_vars(send_again) /\ WF_vars(tcp_output) /\ WF_vars(acknowledged) /\ WF_vars(tcp_sent_irq)

Spec == Init /\ [][Next]_vars /\ Fairness

-----------------------------------------------------------------------------
(* Properties.                                                             *)

TypeOK ==
  /\ {snd_buf, unsent, unacked} \subseteq 0 .. Room /\ received \in 0 .. MaxBytes
  /\ snd_buf + unsent + unacked = Room
  /\ scarce \in BOOLEAN /\ reporting \in BOOLEAN /\ event \in BOOLEAN /\ starved \in BOOLEAN
  /\ {claimed, cut} \subseteq 0 .. MaxBytes /\ wants \in Sizes \cup {0}
  /\ udp \in {"idle", "taken"} /\ pbufs \in 0 .. Pool /\ nothings \in 0 .. Pool

(* TCPSocket.h: send returns the number of bytes sent; so all bytes it      *)
(* counted are with the peer or in lwIP, through refusals and repeats, but  *)
(* for those beyond the 16 bits that tcp_write has for a length.            *)
NothingClaimedIsMissing == received + unsent + unacked + cut = claimed

(* An application that waits for the callback after a refusal gets its      *)
(* bytes sent, if it was the buffer that was full: tcp_sent_irq announces   *)
(* room that is there already, and no room goes unannounced.               *)
RefusedIsSentLater == wants > 0 ~> wants = 0 \/ starved

(* Between two calls no pbuf of socket_sendto is allocated, but for one     *)
(* from each send of a NULL pointer, which pbuf_take refuses.              *)
PbufsAreFreed == udp = "idle" => pbufs = nothings
=============================================================================
