---------------------------- MODULE DatagramQueue ----------------------------
(***************************************************************************)
(* What a UDP socket promises: datagrams come out in the order in which     *)
(* they came, each by one read, which returns its bytes from the first on   *)
(* as far as the buffer goes.  The promise may end, as that of ByteStream.  *)
(***************************************************************************)
EXTENDS Naturals, Sequences

VARIABLES
  arrived,  \* bytes that came
  queue,    \* the datagrams not yet read: [from, count]
  result,   \* what the last read returned
  broken    \* the promise has ended

vars == <<arrived, queue, result, broken>>

Init == arrived = 0 /\ queue = <<>> /\ result = [from |-> 0, count |-> 0] /\ ~broken

Arrive ==
  /\ arrived' \in Nat /\ arrived' >= arrived
  /\ queue' = Append(queue, [from |-> arrived, count |-> arrived' - arrived])
  /\ UNCHANGED result

Read ==
  /\ queue # <<>>
  /\ result' = [from |-> Head(queue).from, count |-> result'.count]
  /\ result'.count \in 0 .. Head(queue).count
  /\ queue' = Tail(queue)
  /\ UNCHANGED arrived

Kept == ~broken /\ ~broken'
Break == broken'

Next == Break \/ (Kept /\ (Arrive \/ Read))

Spec == Init /\ [][Next]_vars
=============================================================================
