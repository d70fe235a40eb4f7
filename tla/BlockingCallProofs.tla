-------------------------- MODULE BlockingCallProofs --------------------------
(* The safety properties of BlockingCall, for every set of timeouts and    *)
(* every number of sockets and packets.                                    *)
EXTENDS BlockingCall, TLAPS

-----------------------------------------------------------------------------
(* The inductive invariant.                                                *)

(* The timeout in force is one the call has seen.                          *)
DuringInv ==
  pc # "idle" => timeout \in during

(* Past its first read of _timeout, the loop is bounded by it.             *)
TimerInv ==
  pc = "timer" /\ ~switched => timeout >= 0

(* The stack is asked in a turn that began with a socket.                  *)
TurnInv ==
  pc = "ask" => seen # NULL

(* With one thread, nothing happens to the object during a call: its       *)
(* Timeout is still to come unless it is due, and what comes after the     *)
(* stack was asked is remembered.                                          *)
BareInv ==
  ~rtos =>
    /\ frames = 0
    /\ pc # "idle" =>
         /\ closing = NULL
         /\ alarm = timeout \/ (alarm = OFF /\ elapsed >= timeout)
    /\ pc \in {"expired", "timer", "wfi", "asleep"} /\ ~missed => ready = 0
    /\ pc \in {"wfi", "asleep"} /\ ~missed => timeout = OFF \/ alarm = timeout

IInv ==
  /\ TypeOK /\ DuringInv /\ TimerInv /\ TurnInv /\ BareInv
  /\ WouldBlockIsLate /\ NonBlockingNeverSleeps /\ StaleHandleWindow


-----------------------------------------------------------------------------
(* A timeout is OFF or a number of milliseconds.                           *)
LEMMA TimeoutFacts ==
  OFF \in Timeouts /\ \A t \in Timeouts : t \in Int /\ (t = OFF \/ t >= 0)
BY TimeoutsAssumption DEF OFF

(* The initial state satisfies the invariant.                              *)
LEMMA InitIInv == Init => IInv
<1> SUFFICES ASSUME Init PROVE IInv
  OBVIOUS
<1>1. TypeOK
  <2>1. OFF \in Timeouts /\ 0 \in 0 .. Horizon
    BY TimeoutFacts, TimeoutsAssumption
  <2>2. 0 \in 0 .. NumSockets /\ 1 \in 1 .. NumSockets /\ 1 \in 0 .. NumSockets
    BY BoundsAssumption
  <2>3. {1} \subseteq 1 .. 1
    OBVIOUS
  <2> QED
    BY <2>1, <2>2, <2>3 DEF Init, TypeOK, NULL
<1> QED
  BY <1>1 DEF Init, IInv, DuringInv, TimerInv, TurnInv, BareInv, WouldBlockIsLate,
              NonBlockingNeverSleeps, StaleHandleWindow

(* The steps of the loop.                                                  *)
LEMMA CallStep == ASSUME IInv, ~fault, rtos' = rtos, call PROVE IInv'
<1> USE DEF IInv
<1>1. TypeOK'
  <2>1. 0 \in 0 .. Horizon
    BY TimeoutsAssumption
  <2> QED
    BY <2>1 DEF TypeOK, call, arm, object, stack
<1>2. BareInv'
  BY DEF BareInv, TypeOK, call, arm, object, stack
<1> QED
  BY <1>1, <1>2
     DEF call, object, stack, DuringInv, TimerInv, TurnInv, WouldBlockIsLate,
         NonBlockingNeverSleeps, StaleHandleWindow

LEMMA TestStep == ASSUME IInv, ~fault, rtos' = rtos, test PROVE IInv'
<1> USE DEF IInv
<1>1. TypeOK'
  BY TimeoutFacts DEF TypeOK, test, after_no_socket, object, stack
<1>2. BareInv'
  BY DEF BareInv, test, after_no_socket, object, stack
<1> QED
  BY <1>1, <1>2
     DEF test, after_no_socket, object, stack, DuringInv, TimerInv, TurnInv,
         WouldBlockIsLate, NonBlockingNeverSleeps, StaleHandleWindow

LEMMA AskStep == ASSUME IInv, ~fault, rtos' = rtos, ask PROVE IInv'
<1> USE DEF IInv
<1>1. TypeOK'
  <2>1. ready' \in Nat
    BY DEF TypeOK, ask, has_data
  <2>2. /\ alarm' \in Timeouts /\ fault' \in BOOLEAN
        /\ pc' \in {"ask", "expired", "idle"}
        /\ result' \in {result, "done", "error"}
    BY TimeoutFacts DEF TypeOK, ask, return
  <2> QED
    BY <2>1, <2>2 DEF TypeOK, ask, object
<1>2. BareInv'
  BY DEF BareInv, TypeOK, ask, has_data, return, object
<1> QED
  BY <1>1, <1>2
     DEF ask, return, object, DuringInv, TimerInv, TurnInv, WouldBlockIsLate,
         NonBlockingNeverSleeps, StaleHandleWindow

LEMMA ExpiredStep == ASSUME IInv, ~fault, rtos' = rtos, expired PROVE IInv'
<1> USE DEF IInv
<1>1. TypeOK'
  BY DEF TypeOK, expired, object, stack
<1>2. timeout \in during /\ (bounded \/ timeout = OFF)
  BY TimeoutFacts DEF TypeOK, DuringInv, expired, bounded
<1>3. BareInv'
  BY <1>2 DEF BareInv, expired, bounded, object, stack
<1>4. NonBlockingNeverSleeps'
  BY <1>2 DEF NonBlockingNeverSleeps, expired, OFF
<1> QED
  BY <1>1, <1>3, <1>4
     DEF expired, bounded, object, stack, DuringInv, TimerInv, TurnInv,
         WouldBlockIsLate, StaleHandleWindow

LEMMA TimerStep == ASSUME IInv, ~fault, rtos' = rtos, timer PROVE IInv'
<1> USE DEF IInv
<1>1. TypeOK'
  BY TimeoutFacts DEF TypeOK, timer, return, object, stack
<1>2. timeout \in during /\ timeout \in Int /\ elapsed \in Int
  BY TimeoutFacts DEF TypeOK, DuringInv, timer
<1>3. BareInv'
  BY <1>2 DEF BareInv, timer, too_late, return, object, stack
<1>4. NonBlockingNeverSleeps'
  BY <1>2, TimeoutFacts DEF NonBlockingNeverSleeps, TypeOK, timer, too_late, return
<1>5. WouldBlockIsLate'
  BY <1>2 DEF WouldBlockIsLate, TimerInv, timer, too_late, return
<1> QED
  BY <1>1, <1>3, <1>4, <1>5
     DEF timer, return, object, stack, DuringInv, TimerInv, TurnInv,
         StaleHandleWindow

LEMMA WfiStep == ASSUME IInv, ~fault, rtos' = rtos, wfi PROVE IInv'
BY DEF IInv, TypeOK, DuringInv, TimerInv, TurnInv, BareInv, WouldBlockIsLate,
       NonBlockingNeverSleeps, StaleHandleWindow, wfi, object, stack

(* The interrupts.                                                         *)
LEMMA TickStep == ASSUME IInv, ~fault, rtos' = rtos, tick PROVE IInv'
<1> USE DEF IInv
<1>1. TypeOK'
  <2>1. elapsed' \in 0 .. Horizon
    BY TimeoutsAssumption DEF TypeOK, tick
  <2> QED
    BY <2>1 DEF TypeOK, tick, wake, after_wake, object, stack
<1>2. BareInv'
  <2> SUFFICES ASSUME ~rtos PROVE BareInv'
    BY DEF BareInv
  <2>1. elapsed' >= elapsed /\ elapsed \in Int /\ elapsed' \in Int /\ timeout \in Int
    BY TimeoutFacts, TimeoutsAssumption DEF TypeOK, tick
  <2> QED
    BY <2>1 DEF BareInv, tick, object, stack
<1> QED
  BY <1>1, <1>2
     DEF tick, wake, after_wake, object, stack, DuringInv, TimerInv, TurnInv,
         WouldBlockIsLate, NonBlockingNeverSleeps, StaleHandleWindow

LEMMA WakeupStep == ASSUME IInv, ~fault, rtos' = rtos, wakeup PROVE IInv'
<1> USE DEF IInv
<1>1. TypeOK'
  BY TimeoutFacts DEF TypeOK, wakeup, wake, after_wake, object, stack
<1>2. BareInv'
  BY DEF BareInv, TypeOK, wakeup, wake, after_wake, object, stack
<1> QED
  BY <1>1, <1>2
     DEF wakeup, wake, after_wake, object, stack, DuringInv, TimerInv, TurnInv,
         WouldBlockIsLate, NonBlockingNeverSleeps, StaleHandleWindow

LEMMA RxIrqStep == ASSUME IInv, ~fault, rtos' = rtos, rx_irq PROVE IInv'
<1> USE DEF IInv
<1>1. TypeOK'
  BY DEF TypeOK, rx_irq, wake, after_wake, object
<1>2. BareInv'
  BY DEF BareInv, TypeOK, rx_irq, wake, after_wake, object
<1> QED
  BY <1>1, <1>2
     DEF rx_irq, wake, after_wake, object, DuringInv, TimerInv, TurnInv,
         WouldBlockIsLate, NonBlockingNeverSleeps, StaleHandleWindow

LEMMA TcpipStep == ASSUME IInv, ~fault, rtos' = rtos, tcpip_thread PROVE IInv'
<1> USE DEF IInv
<1>1. TypeOK'
  BY DEF TypeOK, tcpip_thread, object, call_vars
<1> QED
  BY <1>1
     DEF tcpip_thread, object, call_vars, DuringInv, TimerInv, TurnInv, BareInv,
         WouldBlockIsLate, NonBlockingNeverSleeps, StaleHandleWindow

(* The calls on the object.                                                *)
LEMMA AssignStep ==
  ASSUME IInv, ~fault, rtos' = rtos, NEW t \in Timeouts, Assign(t)
  PROVE  IInv'
<1> USE DEF IInv
<1>1. TypeOK'
  BY DEF TypeOK, Assign, stack
<1>2. BareInv'
  BY DEF BareInv, Assign, may_call, stack
<1>3. during \subseteq during' /\ (pc # "idle" => during # {})
  BY DEF Assign, DuringInv
<1>4. NonBlockingNeverSleeps'
  BY <1>3 DEF NonBlockingNeverSleeps, Assign
<1>5. WouldBlockIsLate'
  BY <1>3 DEF WouldBlockIsLate, Assign
<1> QED
  BY <1>1, <1>2, <1>4, <1>5
     DEF Assign, stack, DuringInv, TimerInv, TurnInv, StaleHandleWindow

LEMMA SetTimeoutStep == ASSUME IInv, ~fault, rtos' = rtos, set_timeout PROVE IInv'
BY AssignStep DEF set_timeout

LEMMA SetBlockingStep == ASSUME IInv, ~fault, rtos' = rtos, set_blocking PROVE IInv'
<1>1. PICK blocking \in BOOLEAN :
        /\ (IF blocking THEN OFF ELSE 0) \in Timeouts
        /\ Assign(IF blocking THEN OFF ELSE 0)
  BY DEF set_blocking
<1> QED
  BY <1>1, AssignStep

LEMMA CloseStep == ASSUME IInv, ~fault, rtos' = rtos, close PROVE IInv'
<1> USE DEF IInv
<1>1. TypeOK'
  BY BoundsAssumption DEF TypeOK, close, stack, call_vars, NULL
<1>2. BareInv'
  BY DEF BareInv, close, may_call, stack, call_vars
<1> QED
  BY <1>1, <1>2
     DEF close, stack, call_vars, DuringInv, TimerInv, TurnInv, WouldBlockIsLate,
         NonBlockingNeverSleeps, StaleHandleWindow

LEMMA SocketCloseStep == ASSUME IInv, ~fault, rtos' = rtos, socket_close PROVE IInv'
<1> USE DEF IInv
<1>1. TypeOK'
  BY BoundsAssumption DEF TypeOK, socket_close, object, call_vars, NULL
<1>2. BareInv'
  BY DEF BareInv, socket_close, object, call_vars
<1> QED
  BY <1>1, <1>2
     DEF socket_close, object, call_vars, DuringInv, TimerInv, TurnInv,
         WouldBlockIsLate, NonBlockingNeverSleeps, StaleHandleWindow

LEMMA OpenStep == ASSUME IInv, ~fault, rtos' = rtos, open PROVE IInv'
<1> USE DEF IInv
<1>1. TypeOK'
  <2>1. /\ opened' \in 1 .. NumSockets /\ opened' \in 0 .. NumSockets
        /\ opened' > opened /\ opened \in Int
    BY BoundsAssumption DEF TypeOK, open
  <2>2. live' \subseteq 1 .. opened'
    BY <2>1 DEF TypeOK, open
  <2> QED
    BY <2>1, <2>2 DEF TypeOK, open, call_vars
<1>2. BareInv'
  BY DEF BareInv, open, call_vars
<1> QED
  BY <1>1, <1>2
     DEF open, call_vars, DuringInv, TimerInv, TurnInv, WouldBlockIsLate,
         NonBlockingNeverSleeps, StaleHandleWindow

(* Every step preserves the invariant, so it always holds.                 *)
LEMMA StepIInv == IInv /\ [Next]_vars => IInv'
<1> SUFFICES ASSUME IInv, [Next]_vars PROVE IInv'
  OBVIOUS
<1>1. CASE Next
  <2>1. ~fault /\ rtos' = rtos
    BY <1>1 DEF Next
  <2> QED
    BY <1>1, <2>1, CallStep, TestStep, AskStep, ExpiredStep, TimerStep, WfiStep,
       TickStep, WakeupStep, RxIrqStep, TcpipStep, SetTimeoutStep, SetBlockingStep,
       CloseStep, SocketCloseStep, OpenStep
       DEF Next, loop
<1>2. CASE UNCHANGED vars
  BY <1>2
     DEF vars, object, stack, call_vars, IInv, TypeOK, DuringInv, TimerInv, TurnInv,
         BareInv, WouldBlockIsLate, NonBlockingNeverSleeps, StaleHandleWindow
<1> QED
  BY <1>1, <1>2

LEMMA Invariance == Spec => []IInv
BY InitIInv, StepIInv, PTL DEF Spec

-----------------------------------------------------------------------------
(* The object, the stack and the call keep their types.                    *)
THEOREM TypeCorrect == Spec => []TypeOK
<1>1. IInv => TypeOK
  BY DEF IInv
<1> QED BY <1>1, Invariance, PTL

(* WOULD_BLOCK is returned late, never early, whatever the timeouts and    *)
(* whenever another thread changes them outside the two reads.             *)
THEOREM WouldBlockIsLateHolds == Spec => []WouldBlockIsLate
<1>1. IInv => WouldBlockIsLate
  BY DEF IInv
<1> QED BY <1>1, Invariance, PTL

(* A call on a non-blocking socket never sleeps.                           *)
THEOREM NonBlockingNeverSleepsHolds == Spec => []NonBlockingNeverSleeps
<1>1. IInv => NonBlockingNeverSleeps
  BY DEF IInv
<1> QED BY <1>1, Invariance, PTL

(* A close that comes while the thread sleeps is noticed before the stack  *)
(* is called again.                                                        *)
THEOREM StaleHandleWindowHolds == Spec => []StaleHandleWindow
<1>1. IInv => StaleHandleWindow
  BY DEF IInv
<1> QED BY <1>1, Invariance, PTL

(* Without a tick, only an interrupt between the call of the stack and     *)
(* __WFI is lost.                                                          *)
THEOREM WakeupLostOnlyInWindowHolds == Spec => []WakeupLostOnlyInWindow
<1>1. IInv => WakeupLostOnlyInWindow
  BY DEF IInv, BareInv, WakeupLostOnlyInWindow
<1> QED BY <1>1, Invariance, PTL
=============================================================================
