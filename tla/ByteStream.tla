------------------------------ MODULE ByteStream ------------------------------
(***************************************************************************)
(* What a TCP socket promises its application: the bytes that arrive are    *)
(* read once, in order, with none left out.  A byte is its place in the     *)
(* stream, and a read returns the bytes [from, from + count).  The promise  *)
(* may end; from then on the socket is free to do anything.                 *)
(***************************************************************************)
EXTENDS Naturals

VARIABLES
  arrived,  \* bytes that came
  taken,    \* bytes that were read
  result,   \* what the last read returned: [from, count]
  broken    \* the promise has ended

vars == <<arrived, taken, result, broken>>

Init == arrived = 0 /\ taken = 0 /\ result = [from |-> 0, count |-> 0] /\ ~broken

Arrive == arrived' \in Nat /\ arrived' > arrived /\ UNCHANGED <<taken, result>>

Read ==
  /\ taken' \in taken .. arrived
  /\ result' = [from |-> taken, count |-> taken' - taken]
  /\ UNCHANGED arrived

Kept == ~broken /\ ~broken'
Break == broken'

Next == Break \/ (Kept /\ (Arrive \/ Read))

Spec == Init /\ [][Next]_vars
=============================================================================
