----------------------------- MODULE BlockingCall -----------------------------
(***************************************************************************)
(* The blocking calls of TCPSocket and UDPSocket: send, recv, sendto and   *)
(* recvfrom are one loop, which asks the stack, tests the timer and sleeps *)
(* in __WFI until an interrupt.  One thread runs the loop.  Meanwhile      *)
(* interrupts arrive, and other threads may close the socket, open it      *)
(* again or change its timeout: the loop tests _socket on every turn.      *)
(***************************************************************************)
EXTENDS Integers

CONSTANTS
  Timeouts,    \* arguments of set_timeout in ms; -1 stands for no timeout
  Horizon,     \* the timer is followed up to here, past every timeout
  NumSockets,  \* bound on the sockets opened in one behaviour
  MaxPackets   \* bound on the packets waiting for the application

NULL == 0
OFF == -1      \* no timeout, no alarm

ASSUME TimeoutsAssumption ==
  /\ Horizon \in Nat
  /\ Timeouts \subseteq {OFF} \cup 0 .. Horizon - 1
  /\ OFF \in Timeouts
ASSUME BoundsAssumption == NumSockets \in Nat \ {0} /\ MaxPackets \in Nat

VARIABLES
  rtos,       \* how the program is built; TRUE: a tick interrupts every ms,
              \*   packets reach the socket through the tcpip thread, and
              \*   there are other threads.  FALSE: one thread; packets are
              \*   delivered by their interrupt
  \* the Socket object
  socket,     \* _socket: the handle, or NULL
  timeout,    \* _timeout
  \* the stack
  opened,     \* number of handles given out
  live,       \* handles that are open in the stack
  frames,     \* packets that have interrupted but are not in the socket yet
  ready,      \* packets socket_recv would find
  \* the call
  pc, handle, result,
  elapsed,    \* what the Timer reads
  alarm,      \* when the Timeout will interrupt
  during,     \* history: values _timeout had during the call
  switched,   \* history: _timeout changed between its two reads
  seen,       \* history: _socket when this turn began
  missed,     \* history: an interrupt came after the stack was asked
  fault,      \* the stack was called with a handle that is not open
  \* the thread that closes the socket
  closing     \* the handle close() has taken from _socket

object == <<socket, timeout>>
stack == <<opened, live, frames, ready>>
call_vars == <<pc, handle, result, elapsed, alarm, during, switched, seen,
               missed, fault>>
vars == <<rtos, object, stack, call_vars, closing>>

Init ==
  /\ rtos \in BOOLEAN
  /\ socket = 1 /\ opened = 1 /\ live = {1}
  /\ timeout = OFF
  /\ frames = 0 /\ ready = 0
  /\ pc = "idle" /\ handle = NULL /\ result = "none"
  /\ elapsed = 0 /\ alarm = OFF /\ during = {OFF} /\ switched = FALSE
  /\ seen = NULL /\ missed = FALSE /\ fault = FALSE /\ closing = NULL

-----------------------------------------------------------------------------
(* The loop.                                                               *)

arm_none(t) == OFF
arm(t) == t

(* The entry: the Timer starts, and the Timeout if there is one.           *)
call ==
  /\ pc = "idle" /\ (rtos \/ closing = NULL)
  /\ pc' = "test" /\ elapsed' = 0 /\ alarm' = arm(timeout)
  /\ during' = {timeout} /\ switched' = FALSE /\ seen' = socket
  /\ UNCHANGED <<object, stack, handle, result, missed, fault, closing>>

(* Leaving the call destroys its Timeout.                                  *)
return(r) == pc' = "idle" /\ result' = r /\ alarm' = OFF

after_no_socket_wait == "wfi"
after_no_socket == "idle"

(* if (!_socket) return NSAPI_ERROR_NO_SOCKET                              *)
test ==
  /\ pc = "test"
  /\ IF socket = NULL
     THEN /\ pc' = after_no_socket /\ result' = "no_socket" /\ alarm' = OFF
          /\ UNCHANGED handle
     ELSE pc' = "ask" /\ handle' = socket /\ UNCHANGED <<result, alarm>>
  /\ seen' = socket
  /\ UNCHANGED <<object, stack, elapsed, during, switched, missed, fault, closing>>

has_data_always == TRUE
has_data == ready > 0

(* The stack's answer.  The handle is _socket, which the compiler may read *)
(* again or keep from the test above; one that is not open ends the model. *)
ask ==
  /\ pc = "ask"
  /\ \E h \in {handle, socket} :
       IF h \notin live
       THEN fault' = TRUE /\ UNCHANGED <<ready, pc, result, alarm>>
       ELSE /\ \/ has_data /\ ready' = ready - 1 /\ return("done")
               \/ ~has_data /\ pc' = "expired" /\ UNCHANGED <<ready, result, alarm>>
               \/ return("error") /\ UNCHANGED ready
            /\ UNCHANGED fault
  /\ missed' = FALSE
  /\ UNCHANGED <<object, opened, live, frames, handle, elapsed, during, switched,
                 seen, closing>>

bounded_always == TRUE
bounded == timeout >= 0

(* _timeout >= 0: the first read.                                          *)
expired ==
  /\ pc = "expired"
  /\ pc' = IF bounded THEN "timer" ELSE "wfi"
  /\ switched' = FALSE
  /\ UNCHANGED <<object, stack, handle, result, elapsed, alarm, during, seen,
                 missed, fault, closing>>

too_late_only == elapsed > timeout
too_late == elapsed >= timeout

(* timer.read_ms() >= _timeout: the second.                                *)
timer ==
  /\ pc = "timer"
  /\ IF too_late THEN return("would_block")
     ELSE pc' = "wfi" /\ UNCHANGED <<result, alarm>>
  /\ UNCHANGED <<object, stack, handle, elapsed, during, switched, seen, missed,
                 fault, closing>>

wfi ==
  /\ pc = "wfi"
  /\ pc' = "asleep"
  /\ UNCHANGED <<object, stack, handle, result, elapsed, alarm, during, switched,
                 seen, missed, fault, closing>>

-----------------------------------------------------------------------------
(* Interrupts.  Any of them ends __WFI; one that comes before __WFI does   *)
(* not.                                                                    *)

after_wake_ask == "ask"
after_wake == "test"

wake ==
  /\ pc' = IF pc = "asleep" THEN after_wake ELSE pc
  /\ seen' = IF pc = "asleep" THEN socket ELSE seen
  /\ missed' = (missed \/ pc \in {"expired", "timer", "wfi"})

(* A millisecond passes.                                                   *)
tick ==
  /\ pc # "idle"
  /\ elapsed' = IF elapsed < Horizon THEN elapsed + 1 ELSE elapsed
  /\ IF rtos THEN wake ELSE UNCHANGED <<pc, seen, missed>>
  /\ UNCHANGED <<object, stack, handle, result, alarm, during, switched, fault,
                 closing>>

(* The Timeout interrupts once and runs Socket::wakeup, which is empty.    *)
wakeup ==
  /\ alarm # OFF /\ elapsed >= alarm
  /\ alarm' = OFF
  /\ wake
  /\ UNCHANGED <<object, stack, handle, result, elapsed, during, switched, fault,
                 closing>>

(* The interrupt of a packet for the socket.                               *)
rx_irq ==
  /\ live # {} /\ frames + ready < MaxPackets
  /\ IF rtos THEN frames' = frames + 1 /\ UNCHANGED ready
             ELSE ready' = ready + 1 /\ UNCHANGED frames
  /\ wake
  /\ UNCHANGED <<object, opened, live, handle, result, elapsed, alarm, during,
                 switched, fault, closing>>

(* The tcpip thread hands the packet to the socket.                        *)
tcpip_thread ==
  /\ frames > 0
  /\ frames' = frames - 1 /\ ready' = ready + 1
  /\ UNCHANGED <<object, opened, live, call_vars, closing>>

-----------------------------------------------------------------------------
(* Other calls on the object: between blocking calls, or by other threads. *)

may_call == rtos \/ (pc = "idle" /\ closing = NULL)

Assign(t) ==
  /\ may_call
  /\ timeout' = t
  /\ during' = IF pc = "idle" THEN during ELSE during \cup {t}
  /\ switched' = (switched \/ pc = "timer")
  /\ UNCHANGED <<socket, stack, pc, handle, result, elapsed, alarm, seen, missed,
                 fault, closing>>

set_timeout == \E t \in Timeouts : Assign(t)

set_blocking ==
  \E blocking \in BOOLEAN :
    /\ (IF blocking THEN OFF ELSE 0) \in Timeouts
    /\ Assign(IF blocking THEN OFF ELSE 0)

(* Socket::close takes the handle from _socket, *)
close ==
  /\ may_call /\ closing = NULL /\ socket # NULL
  /\ closing' = socket /\ socket' = NULL
  /\ UNCHANGED <<timeout, stack, call_vars>>

(* and has the stack close it.                                             *)
socket_close ==
  /\ closing # NULL
  /\ live' = live \ {closing} /\ frames' = 0 /\ ready' = 0
  /\ closing' = NULL
  /\ UNCHANGED <<object, opened, call_vars>>

(* Socket::open on a closed object.                                        *)
open ==
  /\ may_call /\ closing = NULL /\ socket = NULL /\ opened < NumSockets
  /\ opened' = opened + 1 /\ live' = live \cup {opened'} /\ socket' = opened'
  /\ UNCHANGED <<timeout, frames, ready, call_vars, closing>>

-----------------------------------------------------------------------------
loop == test \/ ask \/ expired \/ timer \/ wfi

Next == /\ ~fault /\ UNCHANGED rtos
        /\ \/ call \/ loop
           \/ tick \/ wakeup \/ rx_irq \/ tcpip_thread
           \/ set_timeout \/ set_blocking \/ close \/ socket_close \/ open

Spec == Init /\ [][Next]_vars
(* Threads are scheduled, time passes and a due Timeout interrupts.        *)
Running == ~fault /\ UNCHANGED rtos
FairSpec == /\ Spec
            /\ WF_vars(Running /\ loop) /\ WF_vars(Running /\ tick)
            /\ WF_vars(Running /\ wakeup) /\ WF_vars(Running /\ tcpip_thread)

-----------------------------------------------------------------------------
TypeOK ==
  /\ rtos \in BOOLEAN
  /\ socket \in 0 .. NumSockets /\ handle \in 0 .. NumSockets
  /\ seen \in 0 .. NumSockets /\ closing \in 0 .. NumSockets
  /\ opened \in 1 .. NumSockets /\ live \subseteq 1 .. opened
  /\ timeout \in Timeouts /\ during \subseteq Timeouts /\ alarm \in Timeouts
  /\ frames \in Nat /\ ready \in Nat /\ elapsed \in 0 .. Horizon
  /\ pc \in {"idle", "test", "ask", "expired", "timer", "wfi", "asleep"}
  /\ result \in {"none", "done", "error", "no_socket", "would_block"}
  /\ switched \in BOOLEAN /\ missed \in BOOLEAN /\ fault \in BOOLEAN

(* WOULD_BLOCK is returned only after a timeout that was in force during   *)
(* the call ran out; a call without a timeout never returns it.  The one   *)
(* exception is a timeout that another thread changed between the loop's   *)
(* two reads of it.                                                        *)
WouldBlockIsLate ==
  pc = "idle" /\ result = "would_block" =>
    switched \/ \E t \in during : 0 <= t /\ t <= elapsed

(* A call on a non-blocking socket never sleeps.                           *)
NonBlockingNeverSleeps == pc \in {"wfi", "asleep"} => during # {0}

(* The stack is called with a handle that is not open only if the socket   *)
(* was closed during that turn of the loop: a close that came while the    *)
(* thread slept is always noticed first.                                   *)
StaleHandleWindow == fault => seen # NULL

(* Without a tick, a thread sleeps beside a packet or past its timeout     *)
(* only if the interrupt that should have woken it fell between the call   *)
(* of the stack and __WFI.                                                 *)
WakeupLostOnlyInWindow ==
  ~rtos /\ pc = "asleep" =>
    missed \/ (ready = 0 /\ (timeout = OFF \/ alarm = timeout))

(* With a tick, a call returns once its timeout has run out, a packet is   *)
(* there or the socket is closed, whenever in the loop that happens,       *)
(* unless the reason goes away again.                                      *)
CallReturns ==
  []<>(\/ ~rtos \/ pc = "idle" \/ fault
       \/ timeout = OFF /\ frames + ready = 0 /\ socket # NULL)
=============================================================================
