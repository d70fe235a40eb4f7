---------------------------- MODULE SendingProofs ----------------------------
(* The safety properties of Sending, for any sizes, buffers and pools.      *)
EXTENDS Sending, TLAPS

-----------------------------------------------------------------------------
(* The inductive invariant.                                                *)

(* A refused send, which will be repeated, fits the bound as well.          *)
RefusalFits == wants > 0 => claimed + wants <= MaxBytes

(* The pbufs allocated are that of the call and those it left.              *)
PbufsAreCounted == pbufs = nothings + (IF udp = "taken" THEN 1 ELSE 0)

IInv == TypeOK /\ RefusalFits /\ NothingClaimedIsMissing /\ PbufsAreCounted

-----------------------------------------------------------------------------
(* What tcp_write is given of a size.                                      *)
LEMMA SizeFacts ==
  ASSUME NEW size \in Sizes
  PROVE  /\ size \in Nat \ {0} /\ size % U16 \in Nat /\ size % U16 <= size
         /\ size - (size % U16) \in Nat
<1>1. size \in Nat \ {0} /\ U16 \in Nat \ {0}
  BY SendingAssumption
<1>2. size % U16 \in 0 .. U16 - 1
  BY <1>1
<1>3. CASE size < U16
  <2>1. size % U16 = size
    BY <1>1, <1>3
  <2> QED
    BY <1>1, <2>1
<1>4. CASE size >= U16
  BY <1>1, <1>2, <1>4
<1> QED
  BY <1>1, <1>3, <1>4

(* The initial state satisfies the invariant.                              *)
LEMMA InitIInv == Init => IInv
<1> SUFFICES ASSUME Init PROVE IInv
  OBVIOUS
<1>1. scarce \in BOOLEAN /\ reporting \in BOOLEAN /\ event \in BOOLEAN /\ starved \in BOOLEAN
  BY DEF Init
<1>2. TypeOK
  BY <1>1, SendingAssumption DEF Init, TypeOK
<1>3. RefusalFits /\ NothingClaimedIsMissing /\ PbufsAreCounted
  BY DEF Init, RefusalFits, NothingClaimedIsMissing, PbufsAreCounted
<1> QED
  BY <1>2, <1>3 DEF IInv

(* One call of socket_send, the first or a repeated one.                    *)
LEMMA SendStep ==
  ASSUME IInv, NEW size \in Sizes, claimed + size <= MaxBytes, Send(size), event' \in BOOLEAN
  PROVE  IInv'
<1> DEFINE len == size % U16
<1> USE SendingAssumption DEF IInv, TypeOK, tcp, app, datagrams
<1>1. size \in Nat /\ len \in Nat /\ len <= size
  OBVIOUS
<1>2. CASE error(len)
  <2>1. /\ wants' = size
        /\ UNCHANGED <<claimed, cut, snd_buf, unsent, unacked, received, scarce, reporting, udp,
                       pbufs, nothings>>
    BY <1>2 DEF Send, error, tcp_write
  <2>2. starved' \in BOOLEAN
    BY DEF Send
  <2> QED
    BY <1>1, <2>1, <2>2 DEF RefusalFits, NothingClaimedIsMissing, PbufsAreCounted
<1>3. CASE ~error(len)
  <2>1. /\ wants' = 0 /\ claimed' = claimed + size /\ cut' = cut + (size - len)
        /\ snd_buf' = snd_buf - len /\ unsent' = unsent + len
        /\ UNCHANGED <<unacked, received, scarce, reporting, udp, pbufs, nothings>>
    BY <1>3 DEF Send, error, tcp_write
  <2>2. len <= snd_buf
    BY <1>1, <1>3 DEF error, CanWrite
  <2>3. starved' \in BOOLEAN
    BY DEF Send
  <2>4. NothingClaimedIsMissing'
    BY <1>1, <2>1 DEF NothingClaimedIsMissing
  <2>5. cut' <= claimed' /\ claimed' \in 0 .. MaxBytes
    BY <1>1, <2>1, <2>4, <2>2 DEF NothingClaimedIsMissing
  <2>6. TypeOK'
    BY <1>1, <2>1, <2>2, <2>3, <2>5
  <2> QED
    BY <2>1, <2>4, <2>6 DEF RefusalFits, PbufsAreCounted
<1> QED
  BY <1>2, <1>3

(* Every step preserves the invariant.                                     *)
LEMMA StepIInv == IInv /\ [Next]_vars => IInv'
<1> SUFFICES ASSUME IInv, [Next]_vars PROVE IInv'
  OBVIOUS
<1> USE SendingAssumption DEF IInv, TypeOK, tcp, app, datagrams
<1>1. CASE socket_send
  <2>1. PICK size \in Sizes : claimed + size <= MaxBytes /\ Send(size) /\ UNCHANGED event
    BY <1>1 DEF socket_send
  <2> QED
    BY <2>1, SendStep
<1>2. CASE send_again
  <2>1. wants > 0 /\ Send(wants)
    BY <1>2 DEF send_again
  <2>2. event' \in BOOLEAN
    BY <1>2 DEF send_again
  <2>3. wants \in Sizes /\ claimed + wants <= MaxBytes
    BY <2>1 DEF RefusalFits
  <2> QED
    BY <2>1, <2>2, <2>3, SendStep
<1>3. CASE tcp_output
  BY <1>3 DEF tcp_output, RefusalFits, NothingClaimedIsMissing, PbufsAreCounted
<1>4. CASE acknowledged
  BY <1>4 DEF acknowledged, RefusalFits, NothingClaimedIsMissing, PbufsAreCounted
<1>5. CASE tcp_sent_irq
  BY <1>5 DEF tcp_sent_irq, RefusalFits, NothingClaimedIsMissing, PbufsAreCounted
<1>6. CASE memory
  BY <1>6 DEF memory, RefusalFits, NothingClaimedIsMissing, PbufsAreCounted
<1>7. CASE socket_sendto
  BY <1>7 DEF socket_sendto, RefusalFits, NothingClaimedIsMissing, PbufsAreCounted
<1>8. CASE udp_sendto
  BY <1>8 DEF udp_sendto, freed, RefusalFits, NothingClaimedIsMissing, PbufsAreCounted
<1>9. CASE UNCHANGED vars
  BY <1>9 DEF vars, RefusalFits, NothingClaimedIsMissing, PbufsAreCounted
<1> QED
  BY <1>1, <1>2, <1>3, <1>4, <1>5, <1>6, <1>7, <1>8, <1>9 DEF Next

-----------------------------------------------------------------------------
(* The invariant holds in every reachable state.                            *)
LEMMA Invariance == Spec => []IInv
BY InitIInv, StepIInv, PTL DEF Spec

(* Room, what waits in lwIP and what the peer has not confirmed make up the *)
(* buffer, and every counter keeps its type (socket_send).                  *)
THEOREM TypeCorrect == Spec => []TypeOK
<1>1. IInv => TypeOK
  BY DEF IInv
<1> QED
  BY <1>1, Invariance, PTL

(* TCPSocket.h's number of bytes sent is true of every byte but those       *)
(* beyond 16 bits (socket_send).                                           *)
THEOREM NothingClaimedIsMissingHolds == Spec => []NothingClaimedIsMissing
<1>1. IInv => NothingClaimedIsMissing
  BY DEF IInv
<1> QED
  BY <1>1, Invariance, PTL

(* socket_sendto leaves a pbuf allocated only when pbuf_take failed.        *)
THEOREM PbufsAreFreedHolds == Spec => []PbufsAreFreed
<1>1. IInv => PbufsAreFreed
  BY DEF IInv, TypeOK, PbufsAreCounted, PbufsAreFreed
<1> QED
  BY <1>1, Invariance, PTL

-----------------------------------------------------------------------------
(* What RefusedIsSentLater rests on: how much still has to happen to what   *)
(* is in the buffer, up to the application's hearing of it.                 *)
Ahead ==
  4 * unsent + 3 * unacked + (IF reporting THEN 2 ELSE 0) + (IF event THEN 1 ELSE 0)

(* A send refused for want of room always has something ahead of it, and    *)
(* each step that fairness brings either ends the refusal or leaves less.   *)
RefusalNearsItsEnd ==
  /\ [](Ahead \in Nat)
  /\ [](wants > 0 /\ ~starved => Ahead > 0)
  /\ [][wants > 0 =>
          /\ send_again \/ tcp_output \/ acknowledged \/ tcp_sent_irq
               => wants' = 0 \/ Ahead' < Ahead
          /\ memory \/ socket_sendto \/ udp_sendto => Ahead' = Ahead]_vars

(* The part of it that has to be proved by induction.                       *)
Announced == wants > 0 /\ ~starved => Ahead > 0

(* A refused send that fits the buffer found bytes in it.                   *)
LEMMA RefusedFindsBytes ==
  ASSUME IInv, NEW size \in Sizes, size % U16 <= Room, Send(size), wants' # 0
  PROVE  UNCHANGED tcp /\ (starved' \/ unsent + unacked > 0)
<1> DEFINE len == size % U16
<1>1. len \in Nat
  BY SizeFacts
<1>2. error(len)
  BY DEF Send
<1>3. UNCHANGED tcp
  BY <1>2 DEF Send, error, tcp_write
<1>4. starved' \/ ~(len <= snd_buf)
  BY <1>2 DEF Send
<1>5. ASSUME ~(len <= snd_buf) PROVE unsent + unacked > 0
  <2> HIDE DEF len
  <2>1. len <= Room
    BY DEF len
  <2> QED
    BY <1>1, <1>5, <2>1, SendingAssumption DEF IInv, TypeOK
<1> QED
  BY <1>3, <1>4, <1>5

(* So a refusal by either kind of send has something ahead of it.           *)
LEMMA RefusalAnnounced ==
  ASSUME IInv, NEW size \in Sizes, size % U16 <= Room, Send(size)
  PROVE  Announced'
<1>1. CASE wants' = 0
  BY <1>1 DEF Announced
<1>2. CASE wants' # 0
  <2>1. UNCHANGED <<unsent, unacked, reporting>> /\ (starved' \/ unsent + unacked > 0)
    BY <1>2, RefusedFindsBytes DEF Send, tcp
  <2> QED
    BY <2>1, SendingAssumption DEF Announced, Ahead, IInv, TypeOK
<1> QED
  BY <1>1, <1>2

(* Bytes go from one stage to the next, and the last one ends a wait.       *)
LEMMA AheadStep ==
  ASSUME IInv, wants > 0, send_again \/ tcp_output \/ acknowledged \/ tcp_sent_irq,
         \A size \in Sizes : size % U16 <= Room
  PROVE  wants' = 0 \/ Ahead' < Ahead
<1> USE SendingAssumption DEF IInv, TypeOK
<1>1. CASE send_again
  <2>1. wants \in Sizes /\ Send(wants) /\ event /\ ~event'
    BY <1>1 DEF send_again
  <2>2. CASE wants' # 0
    <3>1. UNCHANGED <<unsent, unacked, reporting>>
      BY <2>1, <2>2, RefusedFindsBytes DEF Send, tcp
    <3> QED
      BY <2>1, <3>1 DEF Ahead
  <2> QED
    BY <2>2
<1>2. CASE tcp_output
  BY <1>2 DEF tcp_output, Ahead
<1>3. CASE acknowledged
  <2>1. PICK n \in 1 .. unacked :
          /\ ~reporting /\ reporting' = TRUE /\ unacked' = unacked - n
          /\ UNCHANGED <<unsent, event>>
    BY <1>3 DEF acknowledged
  <2> QED
    BY <2>1 DEF Ahead
<1>4. CASE tcp_sent_irq
  BY <1>4 DEF tcp_sent_irq, calls_back, Ahead, tcp
<1> QED
  BY <1>1, <1>2, <1>3, <1>4

(* No step takes away the last announcement and leaves the refusal.         *)
LEMMA AnnouncedStep ==
  ASSUME IInv, Announced, [Next]_vars, \A size \in Sizes : size % U16 <= Room
  PROVE  Announced'
<1> USE SendingAssumption DEF IInv, TypeOK
<1>1. CASE socket_send
  BY <1>1, RefusalAnnounced DEF socket_send
<1>2. CASE send_again
  <2>1. wants \in Sizes /\ Send(wants)
    BY <1>2 DEF send_again
  <2> QED
    BY <2>1, RefusalAnnounced
<1>3. CASE tcp_output
  BY <1>3 DEF tcp_output, Ahead, Announced, app
<1>4. CASE acknowledged
  <2>1. unsent' = unsent /\ unacked' \in Nat /\ reporting' = TRUE
    BY <1>4 DEF acknowledged
  <2>2. Ahead' > 0
    BY <2>1 DEF Ahead
  <2> QED
    BY <2>2 DEF Announced
<1>5. CASE tcp_sent_irq
  <2>1. unsent' = unsent /\ unacked' = unacked /\ reporting' = FALSE /\ event' = TRUE
    BY <1>5 DEF tcp_sent_irq, calls_back, tcp
  <2>2. Ahead' > 0
    BY <2>1 DEF Ahead
  <2> QED
    BY <2>2 DEF Announced
<1>6. CASE memory
  BY <1>6 DEF memory, Ahead, tcp, app, Announced
<1>7. CASE socket_sendto
  BY <1>7 DEF socket_sendto, Ahead, tcp, app, Announced
<1>8. CASE udp_sendto
  BY <1>8 DEF udp_sendto, Ahead, tcp, app, Announced
<1>9. CASE UNCHANGED vars
  BY <1>9 DEF vars, Ahead, tcp, app, Announced
<1> QED
  BY <1>1, <1>2, <1>3, <1>4, <1>5, <1>6, <1>7, <1>8, <1>9 DEF Next

(* For every size, buffer and peer, if what 16 bits leave of a size fits    *)
(* the buffer (socket_send): a larger one is refused for ever.             *)
THEOREM RefusalsEnd ==
  ASSUME \A size \in Sizes : size % U16 <= Room
  PROVE  Spec => RefusalNearsItsEnd
<1>1. Init => Announced
  BY DEF Init, Announced
<1>2. IInv /\ Announced /\ [Next]_vars => Announced'
  BY AnnouncedStep
<1>3. IInv => Ahead \in Nat
  BY SendingAssumption DEF IInv, TypeOK, Ahead
<1>4. memory \/ socket_sendto \/ udp_sendto => Ahead' = Ahead
  BY DEF memory, socket_sendto, udp_sendto, tcp, Ahead
<1>5. IInv /\ [Next]_vars =>
        [wants > 0 =>
          /\ send_again \/ tcp_output \/ acknowledged \/ tcp_sent_irq
               => wants' = 0 \/ Ahead' < Ahead
          /\ memory \/ socket_sendto \/ udp_sendto => Ahead' = Ahead]_vars
  BY <1>4, AheadStep
<1>6. Announced => (wants > 0 /\ ~starved => Ahead > 0)
  BY DEF Announced
<1> QED
  BY <1>1, <1>2, <1>3, <1>5, <1>6, Invariance, PTL DEF Spec, RefusalNearsItsEnd
=============================================================================
