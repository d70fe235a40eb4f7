-------------------------- MODULE NonBlockingAppProofs --------------------------
(* The safety properties of NonBlockingApp, for any number of sockets, any  *)
(* segments and buffer.                                                    *)
EXTENDS NonBlockingApp, TLAPS

-----------------------------------------------------------------------------
(* The inductive invariant.                                                *)

(* The polls of a socket that are still to come.                            *)
Polls(s) ==
  network_sem + (IF irq = s THEN 1 ELSE 0) + (IF main = "recv" /\ turn <= s THEN 1 ELSE 0)

Covered(s) == main # "done" => queue[s] <= Late(s) + Buffer * Polls(s)

(* The sockets are attached one after the other, and before the first poll. *)
SettingUp ==
  /\ main \in {"connect", "attach"} => network_sem >= 1 /\ 1 .. turn - 1 \subseteq attached
  /\ main \in {"wait", "recv"} => attached = Sockets
  /\ main = "wait" => turn = 1

(* What a socket holds before attach came early, or is about to be late.    *)
EarlyOnly ==
  \A s \in Sockets \ attached :
    main # "done" => queue[s] = early[s] + (IF irq = s THEN pending ELSE 0)

(* A token and a callback that is due stand for a segment, but for one.     *)
Counted == network_sem + (IF irq # 0 THEN 1 ELSE 0) <= segments + 1

IInv ==
  /\ TypeOK /\ SettingUp /\ EarlyOnly /\ Counted
  /\ \A s \in Sockets : Covered(s)

-----------------------------------------------------------------------------
(* Buffer times a number of polls.                                         *)
LEMMA Times ==
  ASSUME NEW k \in Nat
  PROVE  Buffer * k \in Nat /\ Buffer * (k + 1) = Buffer * k + Buffer
BY AppAssumption

(* A recv leaves nothing, or takes a buffer's worth.                        *)
LEMMA BeyondFacts ==
  ASSUME NEW n \in Nat
  PROVE  Beyond(n) \in Nat /\ n <= Beyond(n) + Buffer /\ (Beyond(n) = 0 \/ Beyond(n) = n - Buffer)
BY AppAssumption DEF Beyond

(* The counts are numbers.                                                 *)
LEMMA LateFacts == ASSUME TypeOK, NEW s \in Sockets PROVE Late(s) \in Nat /\ Polls(s) \in Nat
<1>1. early[s] \in Nat /\ excess[s] \in Nat /\ pending \in Nat
  BY DEF TypeOK
<1>2. Late(s) \in Nat
  <2>1. Beyond(early[s]) \in Nat /\ Beyond(pending) \in Nat
    BY <1>1, BeyondFacts
  <2> QED
    BY <1>1, <2>1 DEF Late
<1>3. Polls(s) \in Nat
  BY DEF TypeOK, Polls
<1> QED
  BY <1>2, <1>3

(* The initial state satisfies the invariant.                              *)
LEMMA InitIInv == Init => IInv
<1> SUFFICES ASSUME Init PROVE IInv
  OBVIOUS
<1>1. TypeOK
  BY AppAssumption DEF Init, TypeOK, Sockets, network_sem_initial
<1>2. SettingUp /\ EarlyOnly /\ Counted
  BY DEF Init, SettingUp, EarlyOnly, Counted, network_sem_initial
<1>3. ASSUME NEW s \in Sockets PROVE Covered(s)
  <2>1. queue[s] = 0
    BY DEF Init
  <2>2. Late(s) \in Nat /\ Polls(s) \in Nat
    BY <1>1, LateFacts
  <2> QED
    BY <2>1, <2>2, Times DEF Covered
<1> QED
  BY <1>1, <1>2, <1>3 DEF IInv

(* When neither what a socket holds nor what is late changes, it stays      *)
(* covered if no poll is lost.                                             *)
LEMMA StillCovered ==
  ASSUME TypeOK, TypeOK', NEW s \in Sockets, Covered(s), main # "done",
         queue'[s] = queue[s], Late(s)' = Late(s), Polls(s)' >= Polls(s)
  PROVE  Covered(s)'
<1>1. Late(s) \in Nat /\ Polls(s) \in Nat /\ Polls(s)' \in Nat
  <2>1. Polls(s)' \in Nat
    <3>1. network_sem' \in Nat
      BY DEF TypeOK
    <3>2. /\ (IF irq' = s THEN 1 ELSE 0) \in Nat
          /\ (IF main' = "recv" /\ turn' <= s THEN 1 ELSE 0) \in Nat
      OBVIOUS
    <3>3. Polls(s)' = network_sem' + (IF irq' = s THEN 1 ELSE 0)
                        + (IF main' = "recv" /\ turn' <= s THEN 1 ELSE 0)
      BY DEF Polls
    <3>4. \A a, b, c \in Nat : a + b + c \in Nat
      OBVIOUS
    <3> QED
      BY <3>1, <3>2, <3>3, <3>4
  <2> QED
    BY LateFacts, <2>1
<1>2. queue[s] <= Late(s) + Buffer * Polls(s) /\ queue[s] \in Nat
  BY DEF Covered, TypeOK
<1>3. Buffer * Polls(s)' >= Buffer * Polls(s)
  BY <1>1, AppAssumption
<1>4. Buffer * Polls(s) \in Nat /\ Buffer * Polls(s)' \in Nat
  BY <1>1, Times
<1> QED
  BY <1>1, <1>2, <1>3, <1>4 DEF Covered

-----------------------------------------------------------------------------
(* connect may or may not bring the socket into play.                      *)
LEMMA ConnectStep == ASSUME IInv, connect PROVE IInv'
<1> USE AppAssumption DEF IInv, connect, tcpip
<1>1. TypeOK'
  BY DEF TypeOK
<1>2. (SettingUp /\ EarlyOnly /\ Counted)'
  BY DEF SettingUp, EarlyOnly, Counted
<1>3. ASSUME NEW s \in Sockets PROVE Covered(s)'
  <2>1. Polls(s)' = Polls(s) /\ Late(s)' = Late(s)
    BY DEF Polls, Late
  <2> QED
    BY <1>1, <2>1, StillCovered, LateFacts
<1> QED
  BY <1>1, <1>2, <1>3

(* A callback attached: from here on a segment has a token.                *)
LEMMA AttachStep == ASSUME IInv, attach PROVE IInv'
<1> USE AppAssumption DEF IInv, attach, tcpip
<1>1. TypeOK'
  <2>1. turn' \in Sockets /\ main' \in {"connect", "wait"}
    BY DEF TypeOK, Sockets
  <2> QED
    BY <2>1 DEF TypeOK
<1>2. SettingUp'
  <2>1. network_sem >= 1 /\ 1 .. turn - 1 \subseteq attached
    BY DEF SettingUp
  <2>2. turn \in 1 .. NumSockets /\ attached \subseteq 1 .. NumSockets
    BY DEF TypeOK, Sockets
  <2>3. CASE turn < NumSockets
    BY <2>1, <2>2, <2>3 DEF SettingUp
  <2>4. CASE ~(turn < NumSockets)
    <3>1. turn = NumSockets /\ attached' = attached \cup {turn}
      BY <2>2, <2>4
    <3>2. 1 .. NumSockets \subseteq attached'
      BY <2>1, <3>1
    <3>3. attached' = 1 .. NumSockets
      BY <2>2, <3>1, <3>2
    <3> QED
      BY <2>4, <3>3 DEF SettingUp, Sockets
  <2> QED
    BY <2>3, <2>4
<1>3. EarlyOnly' /\ Counted'
  BY DEF EarlyOnly, Counted
<1>4. ASSUME NEW s \in Sockets PROVE Covered(s)'
  <2>1. Polls(s)' = Polls(s) /\ Late(s)' = Late(s)
    BY DEF Polls, Late
  <2> QED
    BY <1>1, <2>1, StillCovered, LateFacts
<1> QED
  BY <1>1, <1>2, <1>3, <1>4

(* A token taken is a poll of every socket.                                *)
LEMMA WaitStep == ASSUME IInv, wait PROVE IInv'
<1> USE AppAssumption DEF IInv, wait, takes, sockets, tcpip
<1>1. TypeOK'
  BY DEF TypeOK
<1>2. (SettingUp /\ EarlyOnly /\ Counted)'
  BY DEF SettingUp, EarlyOnly, Counted, TypeOK
<1>3. ASSUME NEW s \in Sockets PROVE Covered(s)'
  <2>1. Polls(s)' = Polls(s) /\ Late(s)' = Late(s)
    BY DEF Polls, Late, SettingUp, TypeOK, Sockets
  <2> QED
    BY <1>1, <2>1, StillCovered, LateFacts
<1> QED
  BY <1>1, <1>2, <1>3

(* main stops without a token.                                             *)
LEMMA GiveUpStep == ASSUME IInv, give_up PROVE IInv'
BY DEF IInv, give_up, sockets, tcpip, TypeOK, SettingUp, EarlyOnly, Counted, Covered

(* A recv of one socket, which is its turn of the poll.                    *)
LEMMA RecvStep == ASSUME IInv, recv PROVE IInv'
<1> USE AppAssumption DEF IInv, recv, tcpip
<1>1. turn \in Sockets /\ queue[turn] \in Nat /\ Beyond(queue[turn]) \in Nat
  BY BeyondFacts DEF TypeOK
<1>2. TypeOK'
  <2>1. queue' \in [Sockets -> Nat]
    BY <1>1 DEF TypeOK
  <2>2. turn' \in Sockets
    <3>1. turn \in 1 .. NumSockets
      BY <1>1 DEF Sockets
    <3>2. (turn < NumSockets /\ turn' = turn + 1) \/ turn' = 1
      OBVIOUS
    <3> QED
      BY <3>1, <3>2 DEF Sockets
  <2>3. main' \in {"recv", "wait"}
    OBVIOUS
  <2> QED
    BY <2>1, <2>2, <2>3 DEF TypeOK
<1>3. (SettingUp /\ EarlyOnly /\ Counted)'
  BY DEF SettingUp, EarlyOnly, Counted
<1>4. ASSUME NEW s \in Sockets PROVE Covered(s)'
  <2>1. Late(s)' = Late(s)
    BY DEF Late
  <2>2. CASE s # turn
    <3>1. Polls(s)' = Polls(s) /\ queue'[s] = queue[s]
      BY <2>2 DEF Polls, TypeOK, Sockets
    <3> QED
      BY <1>2, <2>1, <3>1, StillCovered, LateFacts
  <2>3. CASE s = turn
    <3>1. Polls(s) = Polls(s)' + 1 /\ Polls(s)' \in Nat /\ queue'[s] = Beyond(queue[s])
      BY <2>3 DEF Polls, TypeOK, Sockets
    <3>2. Buffer * Polls(s) = Buffer * Polls(s)' + Buffer /\ Buffer * Polls(s)' \in Nat
      BY <3>1
    <3>3. queue[s] <= Late(s) + Buffer * Polls(s) /\ Late(s) \in Nat
      BY LateFacts DEF Covered
    <3>4. Beyond(queue[s]) = 0 \/ Beyond(queue[s]) = queue[s] - Buffer
      BY <1>1, <2>3, BeyondFacts
    <3>5. queue'[s] <= Late(s)' + Buffer * Polls(s)'
      BY <1>1, <2>1, <2>3, <3>1, <3>2, <3>3, <3>4
    <3> QED
      BY <3>5 DEF Covered
  <2> QED
    BY <2>2, <2>3
<1> QED
  BY <1>2, <1>3, <1>4

(* A segment is queued and its callback due.                               *)
LEMMA SegmentStep == ASSUME IInv, segment PROVE IInv'
<1> USE AppAssumption DEF IInv
<1>1. PICK t \in connected, n \in Segments :
        /\ irq = 0 /\ segments < MaxSegments
        /\ queue' = [queue EXCEPT ![t] = @ + n] /\ segments' = segments + 1
        /\ irq' = t /\ pending' = n
        /\ UNCHANGED <<main, turn, network_sem, connected, attached, early, excess>>
  BY DEF segment
<1>2. t \in Sockets /\ n \in Nat \ {0} /\ Beyond(n) \in Nat
  BY BeyondFacts DEF TypeOK
<1>3. TypeOK'
  <2>1. queue' \in [Sockets -> Nat]
    BY <1>1, <1>2 DEF TypeOK
  <2> QED
    BY <1>1, <1>2, <2>1 DEF TypeOK
<1>4. (SettingUp /\ EarlyOnly /\ Counted)'
  <2>1. SettingUp'
    BY <1>1 DEF SettingUp
  <2>2. EarlyOnly'
    <3> SUFFICES ASSUME NEW s \in Sockets \ attached, main # "done"
                 PROVE  queue'[s] = early[s] + (IF t = s THEN n ELSE 0)
      BY <1>1 DEF EarlyOnly
    <3>1. queue[s] = early[s] /\ early[s] \in Nat
      BY <1>1 DEF EarlyOnly, TypeOK, Sockets
    <3> QED
      BY <1>1, <1>2, <3>1 DEF TypeOK
  <2>3. Counted'
    BY <1>1, <1>2 DEF Counted, TypeOK, Sockets
  <2> QED
    BY <2>1, <2>2, <2>3
<1>5. ASSUME NEW s \in Sockets, main # "done" PROVE Covered(s)'
  <2>0. irq # s /\ early[s] \in Nat /\ excess[s] \in Nat /\ Beyond(early[s]) \in Nat
    <3>1. irq # s /\ early[s] \in Nat /\ excess[s] \in Nat
      BY <1>1 DEF TypeOK, Sockets
    <3> QED
      BY <3>1, BeyondFacts
  <2>1. CASE s # t
    <3>1. queue'[s] = queue[s] /\ Late(s)' = Late(s) /\ Polls(s)' = Polls(s)
      BY <1>1, <2>0, <2>1 DEF TypeOK, Late, Polls
    <3>2. Polls(s)' >= Polls(s)
      BY <3>1, LateFacts
    <3> QED
      BY <1>3, <1>5, <3>1, <3>2, StillCovered
  <2>2. CASE s = t
    <3>1. Polls(s)' = Polls(s) + 1
      BY <1>1, <2>0, <2>2 DEF Polls, TypeOK
    <3>2. Late(s)' = Late(s) + Beyond(n) /\ queue'[s] = queue[s] + n
      BY <1>1, <1>2, <2>0, <2>2 DEF Late, TypeOK
    <3>3. Late(s) \in Nat /\ Polls(s) \in Nat /\ queue[s] \in Nat
      BY LateFacts DEF TypeOK
    <3>4. Buffer * Polls(s)' = Buffer * Polls(s) + Buffer /\ Buffer * Polls(s) \in Nat
      BY <3>1, <3>3
    <3>5. queue[s] <= Late(s) + Buffer * Polls(s)
      BY <1>5 DEF Covered
    <3>6. n <= Beyond(n) + Buffer
      BY <1>2, BeyondFacts
    <3> QED
      BY <1>2, <3>2, <3>3, <3>4, <3>5, <3>6 DEF Covered
  <2> QED
    BY <2>1, <2>2
<1>6. ASSUME NEW s \in Sockets PROVE Covered(s)'
  BY <1>1, <1>5 DEF Covered
<1> QED
  BY <1>3, <1>4, <1>6

(* A callback that was due becomes a token.                                *)
LEMMA CallbackStep == ASSUME IInv, network_callback PROVE IInv'
<1> USE AppAssumption DEF IInv, network_callback, sockets
<1>0. irq \in Sockets /\ irq # 0 /\ Beyond(pending) \in Nat /\ excess[irq] \in Nat
  BY BeyondFacts DEF TypeOK, Sockets
<1>1. TypeOK'
  <2>1. excess' \in [Sockets -> Nat]
    BY <1>0 DEF TypeOK
  <2>2. network_sem' \in 0 .. segments' + 1
    BY <1>0 DEF TypeOK, Counted
  <2> QED
    BY <2>1, <2>2 DEF TypeOK
<1>2. (SettingUp /\ EarlyOnly /\ Counted)'
  <2>1. SettingUp' /\ Counted'
    BY <1>0 DEF SettingUp, Counted, TypeOK
  <2>2. EarlyOnly'
    BY <1>0 DEF EarlyOnly, TypeOK, Sockets
  <2> QED
    BY <2>1, <2>2
<1>3. ASSUME NEW s \in Sockets, main # "done" PROVE Covered(s)'
  <2>0. early[s] \in Nat /\ excess[s] \in Nat /\ Beyond(early[s]) \in Nat /\ s # 0
    <3>1. early[s] \in Nat /\ excess[s] \in Nat /\ s # 0
      BY DEF TypeOK, Sockets
    <3> QED
      BY <3>1, BeyondFacts
  <2>1. Late(s)' = Late(s)
    BY <1>0, <2>0 DEF Late, TypeOK
  <2>2. Polls(s)' >= Polls(s)
    BY <2>0 DEF Polls, TypeOK
  <2> QED
    BY <1>1, <1>3, <2>1, <2>2, StillCovered
<1>4. ASSUME NEW s \in Sockets PROVE Covered(s)'
  BY <1>3 DEF Covered
<1> QED
  BY <1>1, <1>2, <1>4

(* A segment that came before attach was early: the initial token is for it.*)
LEMMA NoCallbackStep == ASSUME IInv, no_callback PROVE IInv'
<1> USE AppAssumption DEF IInv, no_callback, sockets
<1>0. irq \in Sockets /\ pending \in Nat /\ early[irq] \in Nat
  BY DEF TypeOK
<1>1. TypeOK'
  <2>1. early' \in [Sockets -> Nat]
    BY <1>0 DEF TypeOK
  <2> QED
    BY <2>1 DEF TypeOK
<1>2. (SettingUp /\ EarlyOnly /\ Counted)'
  <2>1. SettingUp' /\ Counted'
    BY DEF SettingUp, Counted, TypeOK
  <2>2. EarlyOnly'
    <3> SUFFICES ASSUME NEW s \in Sockets \ attached, main # "done" PROVE queue[s] = early'[s]
      BY DEF EarlyOnly, TypeOK, Sockets
    <3>1. queue[s] = early[s] + (IF irq = s THEN pending ELSE 0) /\ early[s] \in Nat
      BY DEF EarlyOnly, TypeOK
    <3> QED
      BY <1>0, <3>1 DEF TypeOK
  <2> QED
    BY <2>1, <2>2
<1>3. ASSUME NEW s \in Sockets, main # "done" PROVE Covered(s)'
  <2>0. /\ early[s] \in Nat /\ excess[s] \in Nat /\ s # 0
        /\ early'[s] = IF s = irq THEN early[s] + pending ELSE early[s]
    BY <1>0 DEF TypeOK, Sockets
  <2>1. CASE s # irq
    <3>1. Late(s)' = Late(s) /\ Polls(s)' = Polls(s)
      BY <2>0, <2>1 DEF Late, Polls
    <3>2. Polls(s)' >= Polls(s)
      BY <3>1, LateFacts
    <3> QED
      BY <1>1, <1>3, <3>1, <3>2, StillCovered
  <2>2. CASE s = irq
    <3>1. queue[s] = early'[s] /\ early'[s] \in Nat
      BY <1>0, <1>3, <2>0, <2>2 DEF EarlyOnly
    <3>2. queue[s] <= Beyond(early'[s]) + Buffer /\ Beyond(early'[s]) \in Nat
      BY <3>1, BeyondFacts
    <3>3. Late(s)' = Beyond(early'[s]) + excess[s]
      BY <2>0, <3>2 DEF Late
    <3>4. Polls(s)' \in Nat /\ Polls(s)' >= 1
      <4>1. main \in {"connect", "attach"}
        BY <1>0, <1>3 DEF SettingUp, TypeOK
      <4> QED
        BY <2>0, <4>1 DEF Polls, SettingUp, TypeOK
    <3>5. Buffer * Polls(s)' >= Buffer /\ Buffer * Polls(s)' \in Nat
      BY <3>4
    <3>6. queue'[s] <= Late(s)' + Buffer * Polls(s)'
      BY <2>0, <3>1, <3>2, <3>3, <3>5
    <3> QED
      BY <3>6 DEF Covered
  <2> QED
    BY <2>1, <2>2
<1>4. ASSUME NEW s \in Sockets PROVE Covered(s)'
  BY <1>3 DEF Covered
<1> QED
  BY <1>1, <1>2, <1>4

(* Every step preserves the invariant.                                     *)
LEMMA StepIInv == IInv /\ [Next]_vars => IInv'
<1> SUFFICES ASSUME IInv, [Next]_vars PROVE IInv'
  OBVIOUS
<1>1. CASE UNCHANGED vars
  BY <1>1 DEF vars, sockets, tcpip, IInv, TypeOK, SettingUp, EarlyOnly, Counted, Covered, Late,
     Polls
<1> QED
  BY <1>1, ConnectStep, AttachStep, WaitStep, GiveUpStep, RecvStep, SegmentStep,
     CallbackStep, NoCallbackStep DEF Next, Main, thunk

-----------------------------------------------------------------------------
(* The invariant holds in every reachable state.                            *)
LEMMA Invariance == Spec => []IInv
BY InitIInv, StepIInv, PTL DEF Spec

(* The semaphore never holds more tokens than there were segments, and one. *)
THEOREM TypeCorrect == Spec => []TypeOK
<1>1. IInv => TypeOK
  BY DEF IInv
<1> QED
  BY <1>1, Invariance, PTL

(* What a socket holds is what the polls to come will take, or late         *)
(* (network_callback, and the initial token).                              *)
THEOREM TokensCoverDataHolds == Spec => []TokensCoverData
<1>1. IInv => TokensCoverData
  BY DEF IInv, TokensCoverData, Covered, Polls
<1> QED
  BY <1>1, Invariance, PTL

(* main gives up beside data only when its callback is due or it is late.   *)
THEOREM NothingLeftBehindHolds == Spec => NothingLeftBehind
<1>1. ASSUME IInv, give_up, NEW s \in Sockets PROVE queue[s] <= Late(s) \/ irq = s
  <2>1. irq # s => Polls(s) = 0
    BY <1>1 DEF give_up, times_out, Polls
  <2>2. Buffer * 0 = 0 /\ Late(s) \in Nat /\ queue[s] \in Nat
    BY <1>1, AppAssumption, LateFacts DEF IInv, TypeOK
  <2>3. queue[s] <= Late(s) + Buffer * Polls(s)
    BY <1>1 DEF give_up, IInv, Covered
  <2> QED
    BY <2>1, <2>2, <2>3
<1>2. IInv => [give_up => \A s \in Sockets : queue[s] <= Late(s) \/ irq = s]_vars
  BY <1>1
<1> QED
  BY <1>2, Invariance, PTL DEF NothingLeftBehind

-----------------------------------------------------------------------------
(* What DataIsRead rests on: the steps of main up to its next poll of s.    *)
Steps(s) ==
  CASE main = "connect" -> 2 * (NumSockets + 1 - turn) + 1 + s
    [] main = "attach" -> 2 * (NumSockets - turn) + 2 + s
    [] main = "wait" -> 1 + s
    [] main = "recv" -> IF turn <= s THEN s + 1 - turn ELSE (NumSockets + 1 - turn) + 1 + s
    [] OTHER -> 0

Polled(s) == main = "recv" /\ turn = s

(* Data on s that a token stands for is polled: every step of main brings   *)
(* the poll nearer or is it, no other step takes it further away, and main  *)
(* waits beside such data only with a token, or for a callback under way.   *)
PollComes(s) ==
  /\ [](Steps(s) \in Nat)
  /\ [][Main => IF Polled(s) THEN queue'[s] = Beyond(queue[s]) ELSE Steps(s)' < Steps(s)]_vars
  /\ [][segment \/ thunk => Steps(s)' = Steps(s)]_vars
  /\ [](queue[s] > Late(s) /\ main = "wait" => network_sem > 0 \/ irq = s)

THEOREM PollsCome == ASSUME NEW s \in Sockets PROVE Spec => PollComes(s)
<1> USE AppAssumption
<1>0. s \in 1 .. NumSockets
  BY DEF Sockets
<1>1. ASSUME IInv PROVE Steps(s) \in Nat
  <2>1. turn \in 1 .. NumSockets
    BY <1>1 DEF IInv, TypeOK, Sockets
  <2> QED
    BY <1>0, <2>1 DEF Steps
<1>2. ASSUME IInv, Main PROVE IF Polled(s) THEN queue'[s] = Beyond(queue[s]) ELSE Steps(s)' < Steps(s)
  <2>1. turn \in 1 .. NumSockets /\ (main = "wait" => turn = 1)
    BY <1>2 DEF IInv, TypeOK, SettingUp, Sockets
  <2>2. CASE connect
    BY <1>0, <2>1, <2>2 DEF connect, Steps, Polled
  <2>3. CASE attach
    BY <1>0, <2>1, <2>3 DEF attach, Steps, Polled
  <2>4. CASE wait
    BY <1>0, <2>1, <2>4 DEF wait, Steps, Polled
  <2>5. CASE recv /\ Polled(s)
    BY <1>2, <2>5 DEF recv, Polled, IInv, TypeOK
  <2>6. CASE recv /\ ~Polled(s)
    BY <1>0, <2>1, <2>6 DEF recv, Steps, Polled
  <2> QED
    BY <1>2, <2>2, <2>3, <2>4, <2>5, <2>6 DEF Main
<1>3. segment \/ thunk => Steps(s)' = Steps(s)
  BY DEF segment, thunk, network_callback, no_callback, Steps
<1>4. ASSUME IInv, queue[s] > Late(s), main = "wait" PROVE network_sem > 0 \/ irq = s
  <2>1. queue[s] <= Late(s) + Buffer * Polls(s)
    BY <1>4 DEF IInv, Covered
  <2>2. Buffer * 0 = 0 /\ Late(s) \in Nat /\ queue[s] \in Nat /\ Polls(s) \in Nat
    <3>1. TypeOK
      BY <1>4 DEF IInv
    <3> QED
      BY <3>1, LateFacts DEF TypeOK
  <2>3. Polls(s) # 0
    <3> SUFFICES ASSUME Polls(s) = 0 PROVE FALSE
      OBVIOUS
    <3>1. queue[s] <= Late(s) + Buffer * 0
      BY <2>1
    <3>2. queue[s] <= Late(s)
      BY <2>2, <3>1
    <3> QED
      BY <1>4, <2>2, <3>2
  <2> QED
    BY <1>4, <2>3 DEF Polls, IInv, TypeOK
<1>5. IInv /\ [Next]_vars =>
        /\ [Main => IF Polled(s) THEN queue'[s] = Beyond(queue[s]) ELSE Steps(s)' < Steps(s)]_vars
        /\ [segment \/ thunk => Steps(s)' = Steps(s)]_vars
  BY <1>2, <1>3
<1>6. IInv => (queue[s] > Late(s) /\ main = "wait" => network_sem > 0 \/ irq = s)
  BY <1>4
<1> QED
  BY <1>1, <1>5, <1>6, Invariance, PTL DEF Spec, PollComes
=============================================================================
