# A formal model of NetworkSocketAPI and LWIPInterface

The repository holds mbed's NetworkSocketAPI (the classes an application uses:
`TCPSocket`, `UDPSocket`, `TCPServer`, `SocketAddress`, and the abstract
`NetworkStack`), `LWIPInterface`, which implements the stack's side over lwIP,
and samples. This directory holds TLA+ modules that model it, TLC
configurations that check the modules on small instances, and proofs checked by
TLAPS for every value of the constants.

`NetworkSocketAPI/` stands below for `src/libs/NetworkSocketAPI/`, and a bare
line number for `src/libs/LWIPInterface.cpp`.

## Inventory

| Component | State | Operations | Hard behaviour | Model |
|---|---|---|---|---|
| Receive queue (284-311, 336-392, 419-484) | the pbuf list at `rx_chain`, the pcb's receive window | `udp_recv_irq`, `tcp_recv_irq`, `socket_recv`, `socket_recvfrom` | the handlers append while the application consumes; only the handlers disable interrupts | `RxChain`, `RxQueue`; abstract: `ByteStream`, `DatagramQueue` |
| Blocking calls (`NetworkSocketAPI/TCPSocket.cpp`, `UDPSocket.cpp`) | `_socket`, `_timeout`, a `Timer` and a `Timeout` per call | `send`, `recv`, `sendto`, `recvfrom`; `close`, `open`, `set_timeout`, `set_blocking` from elsewhere | a wakeup between the answer and `__WFI`; a close under a blocked call | `BlockingCall` |
| Sockets and pcbs (135-282, 336-353) | `struct lwip_socket`, lwIP's pools, handler arguments | `socket_open`, `socket_bind`, `socket_connect`, `socket_close`, `tcp_connect_irq`, the FIN in `tcp_recv_irq` | handlers that outlive their socket, late handshakes, resets, memory used again | `LwipSockets` |
| Sending (313-334, 394-417) | lwIP's send buffer and pbufs | `socket_send`, `socket_sendto`, `tcp_sent_irq` | a full buffer, failing allocations, 16-bit sizes | `Sending` |
| Network interface (38-133) | `netif`, three semaphores, `ip_addr` | `connect`, `disconnect`, `get_ip_address`, the status handler | DHCP that answers late, connecting again | `Netif` |
| Socket objects (`Socket.cpp`, `TCPServer.cpp`) | `_iface`, `_socket`, `_callback` | constructors, destructor, `open`, `close`, `attach`, `thunk`, `accept` | callbacks against close and attach; opening twice | `SocketObjects` |
| `SocketAddress`, and `gethostbyname` of `NetworkStack` | the address as bytes and text, the port | parsing, printing, constructors, `set_*`, `get_*` | abbreviated IPv6, the cached text, failing lookups, memory that was used before | `SocketAddress` |
| `HW_Non_Blocking` (sample) | a semaphore, a buffer, two sockets | `main`, `network_callback` | early callbacks, data larger than the buffer, a wait that runs out | `NonBlockingApp` |
| `NetworkStack` options, interface headers, unsupported calls | none | | none | not modelled |
| `ESP8266Interface` (sample), `NSAPITests`, `HelloLWIPInterface`, `EchoServer.py`, docs | | | | not modelled |

An application thread calls a `Socket` object; the object calls the stack with
its handle, a pointer to a `struct lwip_socket`; the stack calls lwIP. In the
other direction lwIP's tcpip thread runs the handlers with that pointer as
their argument; they fill the queue or release a semaphore, then call
`Socket::thunk` and with it the application's callback.

What makes each part correct:

* receive queue: bytes come out once, in order, and datagrams whole; no pbuf
  leaks or is used after it is freed; the window returned is what was consumed;
  data in the queue is announced;
* blocking calls: no call gives up early, sleeps on a non-blocking socket,
  misses a close, or sleeps on when it has a reason to return;
* sockets and pcbs: a socket has a pcb of its own, receives only its own
  packets, and leaves nothing behind;
* sending: what is reported as sent was handed over, and who was refused hears
  when to try again;
* network interface: the address reported is the interface's, and `connect`
  returns, with an address when it has one to report;
* socket objects: a handler finds its object alive and its callback whole, a
  handle has one object, an object hears of its handle's events;
* addresses: a text, the bytes and the cached text say the same, and a failed
  lookup never reaches the stack;
* the sample: data that is queued is read while there is a reason to poll.

## How the modules fit together

Each part meets the next through a small interface, and a module models its
neighbour by what that interface shows. `RxChain` is one open socket's queue,
`LwipSockets` the birth and death of sockets around it. `BlockingCall` asks a
stack that has packets or not and wakes on interrupts. `SocketObjects` has
handles that are open or closed and handlers that run while they are.
`NonBlockingApp` stands on two results: data is queued before its callback
runs (`DataIsAnnounced` of `RxChain`), and a call on a non-blocking socket does
not sleep (`NonBlockingNeverSleeps` of `BlockingCall`). `RxQueue` extends
`RxChain` and instantiates the abstract specifications. Every `MC` module
extends the module it checks and gives the constants that a `.cfg` cannot write
down. A `Proofs` module extends the module it is about.

Where a definition `X` of a module is preceded by one named for a slip (such as
`detached_kept` before `detached`), the first is the same line of code with a
plausible bug in it. It is not used by the model; each property was seen to
fail with one of them in place.

Variables that are marked as history are not in the code. They remember what a
property needs: which steps overlapped, what was promised, what was lost.

## RxChain

One open socket of one protocol. Variables carry the names of the C fields and
locals (`next`, `len`, `tot_len`, `ref`, `payload`, `rx_chain`, `rcv_wnd`, `p`,
`q`, `copied`, `consume`). Pbufs are numbered in the order of arrival and a
number stands for one allocation, so that memory used again is a new number. A
payload pointer is a position in the stream of all bytes received.

* `recv_irq` is either handler up to `__enable_irq`. It is one step because it
  runs with interrupts disabled. `callback` is the rest.
* `recv_start`, `copy_partial`, `copy_done`, `pbuf_consume`, `pbuf_unlink`,
  `pbuf_free` and `recv_return` are the steps of `socket_recv` and
  `socket_recvfrom`, split wherever they read or write what the handlers share.
  `recv_would_block` is the early return.
* lwIP's `pbuf_copy_partial`, `pbuf_cat`, `pbuf_ref` and `pbuf_free` are
  modelled by what they do to the list.

Two handlers never run together: there is one tcpip thread. A handler that
follows `rx_chain` into freed memory sets `corrupt` and the memory's contents
mean nothing from there on; `raced` names the pbufs appended after the consumer
had read `p->next` as NULL. `more` and `clipped` compare the last result with the
`size` the application passed: all it asked for, or what 16 bits leave of a
larger size (386), which may be 0 while data is queued. `DataIsAnnounced` says
that a short count leaves nothing unannounced, and excepts `clipped`.

`RxQueue` says what all this is for. `ByteStream` is the promise of a TCP
socket: arrivals lengthen a stream, a read takes its next bytes. `DatagramQueue`
is that of a UDP socket: a read takes the first datagram, from its first byte
on. `ImplementsStream` and `ImplementsDatagrams` state that the queue of pbufs
refines them, with the read placed where `socket_recv` has copied and the bytes
are settled. The promise may end (`broken`), and does when a packet races with
`pbuf_consume`. So the refinement says that nothing else ends it.

Left out: the reading of the source address (459-476), which moves the payload
pointer of the first pbuf back and forth, and the end of a connection.

| Run | Question | Answer |
|---|---|---|
| `rx_chain_tcp` | does a byte stream survive any interleaving of arrivals and reads, and does a read end? | yes, but for the pbufs in `raced` |
| `rx_chain_udp` | do datagrams keep their boundaries, whatever their pbufs and the buffer's size? | yes, but for the pbufs in `raced` |

Bounds: four or five pbufs, segments of one or two pbufs, buffers smaller than,
equal to and larger than a packet; `U16 = 5` makes a buffer size wrap to zero.
That is enough for a read to end inside a pbuf, between two pbufs of a packet
and between packets, and for an arrival at each of those points. The number of
pbufs bounds the arrivals, so the system may stop and deadlock is not checked.

Fairness: a thread inside a receive call goes on, because both threads are
scheduled; nothing makes packets arrive or the application call.
`RecvReturns` is then that `pbuf_consume`'s loop ends.

## BlockingCall

`send`, `recv`, `sendto` and `recvfrom` are one loop, and one module. Its
actions are the lines of the loop: `call`, `test` (`!_socket`), `ask` (the
stack), `expired` and `timer` (the two reads of `_timeout`), `wfi`. The stack
answers with data, with an error or that it would block. `tick` lets a
millisecond pass, `wakeup` is the `Timeout`, `rx_irq` and `tcpip_thread` bring
a packet. `wake` says what `__WFI` does: an interrupt ends it, and one that
came before it does not.

`rtos` separates the two kinds of program the library is built into; it is
chosen once. With an rtos a tick interrupts every millisecond, packets pass
through the tcpip thread, and other threads call `close`, `open`, `set_timeout`
and `set_blocking` at any step. Without, as in
`src/samples/ESP8266InterfaceTests/main.cpp`, there is one thread, and packets
and the `Timeout` are the only interrupts. `close` is two steps, since it clears
`_socket` before the stack closes the handle.

The handle given to the stack is the `_socket` of the test or that of the call:
the compiler may read it again. A handle that is closed sets `fault`, which ends
the model. The two reads of `_timeout` at the entry of a call are one step.

| Run | Question | Answer |
|---|---|---|
| `blocking_call` | is a call neither early, asleep without need, blind to a close, nor endless; and without a tick, which interrupts are lost? | it is none of these; only interrupts between the answer and `__WFI` are lost |

Bounds: timeouts of none, 0 and 2 ms, time up to 3 ms, past each of them; two
handles, so that a socket is reopened under a call; two packets. Time stops
counting at `Horizon`, where every timeout has run out.

Fairness: threads are scheduled, time passes, a due `Timeout` interrupts, and
the tcpip thread hands on what arrived. The loop's fairness is one condition on
all its steps. Packets, closes and timeout changes are never assumed, so
`CallReturns` excuses a call only while it has no timeout, no packet and an open
socket, and speaks of the build with a tick only. Deadlock is not checked
because a dead handle ends the model and, without an rtos, a thread may sleep
for ever.

## LwipSockets

A cell is a block of memory that `new` and `delete` pass around; a pcb is an
entry of lwIP's pools. `pcb[c]` is the union of `s->tcp` and `s->udp`, `arg[p]`
the argument of the pcb's handlers. `rx[c]` records whose packets are in the
queue instead of the packets, and `sem[c]` what has become of the semaphore on
`socket_connect`'s stack. lwIP's part, `tcp_close` with its three outcomes, the
peer's FIN, the end of a closed connection, resets and the reuse of a pcb in
TIME_WAIT, is external.

`socket_close` is two steps, since handlers run between `tcp_close` and
`delete`. `handles` are the sockets the application holds, `closing` those
between the two steps. A socket is used by one thread at a time.

History: `lost` names the sockets whose pcb went away under them, `stray` those
that a handler of another, deleted socket wrote to, `told` and `late` what
`socket_connect` returned and why. A release of a semaphore that is gone ends
the model, and so may a write to memory that is free. A call on a pcb that is
gone is not made: what lwIP does then is not modelled.

| Run | Question | Answer |
|---|---|---|
| `lwip_sockets` | does a socket that was neither lost nor strayed into have its pcb and its data to itself? | yes |
| `lwip_connect_timeout` | does 0 from `socket_connect` mean connected? | no: see Findings |
| `lwip_close_udp` | does closing deallocate? | not the pcb of a UDP socket: see Findings |

Bounds: two cells, two TCP pcbs, one UDP pcb. Two sockets are enough for one to
take the memory or the pcb another left; the behaviours are not bounded, since
cells and pcbs go round. `NoConnectionIsForeign` says that the code's answer to
a closed connection (374-377) is given only to a socket that another
connection's end zeroed: the socket concerned is always deleted first.
Deadlock is not checked: a program whose cells have all leaked stops.

## Sending

`socket_send` hands its bytes to `tcp_write`, which takes all of them or none;
`tcp_output` moves them on, `acknowledged` is the peer and the room it gives
back, `tcp_sent_irq` the callback that follows. `memory` takes and returns what
other sockets may hold. The application is the one `NetworkSocketAPI/Socket.h`
has in mind: refused, it waits for the callback (`event`) and sends again
(`send_again`). Bytes are counted, since TCP keeps their order. `socket_sendto`
is split at the handover to `udp_sendto`, and its three outcomes are a pbuf, a
pbuf with an error of `pbuf_take`, and no pbuf.

| Run | Question | Answer |
|---|---|---|
| `sending` | is every byte that was reported sent in lwIP or at the peer, does a refused send go out in the end, are pbufs freed? | yes, but for what 16 bits cut off a size, a refusal for want of memory, and a NULL pointer to `socket_sendto` |

Bounds: a buffer of 3 bytes and sends of 1, 2, 3 and 9, so that a send meets
every amount of room; 16 bits are `U16 = 8`, so that 9 is cut to 1; two pbufs.
`MaxBytes` bounds the total and stops the system, so deadlock is not checked.

Fairness: the application's thread runs, lwIP sends what it holds, the peer is
alive and acknowledges, the handler runs. Memory need never come back, and
`RefusedIsSentLater` excuses a refusal for want of it (`starved`).

## Netif

The application's thread goes through `connect` in the steps that the tcpip
thread can fall between: `connect` up to `tcpip_inited.wait()`, `init_netif`,
`init_netif_callbacks`, `dhcp_start`, `connect_return`. The tcpip thread runs
`tcpip_init_irq` and `netif_status_irq`, which is the test, the copy of the
address and the release of the token. Semaphores are counts. The DHCP client is
external: `dhcp_bind` gives a lease, `dhcp_lost` takes one away. `disconnect`
is one step.

`leftover` remembers that `connect` found a token, a report under way or a
client that had not been stopped, and `mine` the addresses leased since it
began.

| Run | Question | Answer |
|---|---|---|
| `netif` | is the address reported the interface's, does a `connect` that takes a token have an address, does it return? | yes, the second for a `connect` that finds nothing left over |

Bounds: two addresses, three connects, three leases: a lease before, during and
after each of two connects, and a third to take what is left over. The bounds
stop the system, so deadlock is not checked.

Fairness: both threads run and time passes, so that `wait(1500)` ends. No server
has to give a lease.

## SocketObjects

`Sockets` and `Servers` are memory in which objects are built and destroyed,
`Handles` the stack's sockets, with `state`, `s->callback` and `s->data`. A
`FunctionPointer` is two words, and `attach` copies one at a time. `close`
is `socket_attach(_socket, 0, 0)`, two stores, and the rest; the destructor and
`accept` go through the same steps, with what follows in `app.then`. The
handler's steps are its reads: `handler` (`s->callback`), `handler_data`
(`s->data`), `thunk` (the test of `_callback`), `call`. `overlap` remembers that
the application closed, attached or destroyed meanwhile, `leaked` the handles
that a second `open` dropped, `accepted` those that `accept` made. A handler
that stumbles ends the model.

| Run | Question | Answer |
|---|---|---|
| `socket_objects` | do handlers find what they look for, does every handle have one object, does every object get its events? | yes, but for a handler that overlapped, a handle that a second `open` dropped, and the events of accepted connections |

Bounds: two sockets, a server, three handles, one callback. Two sockets let
one's memory or handle serve another, a third handle lets a second `open`
succeed beside them. The behaviours are not bounded. Deadlock is not checked: a
handler that stumbles ends the model.

## SocketAddress

An object is its fields; the parsers and printers are operators on texts, which
are sequences of digits, dots and colons. What a text means does not come from
them: `Literals` are addresses as they are written, the numerals before and
after the `::`, from which `Text` joins the text and `Means` counts the bytes.
`asked` remembers what the last call asked for. A constructor runs on `Junk`,
memory that holds an earlier object. The actions are the constructors, the
setters, the reads that fill the cached text, and the calls that take a host
name (`connect_host`), with the answer of `dnsQuery` external.

| Run | Question | Answer |
|---|---|---|
| `socket_address` | does a text give its address, is the cached text never that of another address, does a looked-up name reach the stack and a failed lookup not? | yes, but for IPv6 texts with more groups after the `::` than before it, and objects made from a literal in place of a name |
| `socket_address_shift` | does the suffix move to the end, as the comment says? | no: see Findings |

Bounds: one object, so a copy takes the place of its original; 15 places and
lengths of `::`, the text without one, dotted texts with one and three digits;
one name, one raw address, one port, one content of memory. The groups have one
to four digits, zero among them. The behaviours are not bounded; deadlock is
checked.

## NonBlockingApp

The sample's `main` connects and attaches its sockets one after the other, then
waits on `network_sem` and polls each socket once for a token; `wait` and
`give_up` are the two ends of `wait(2500)`. `segment` is the handler up to
`Socket::thunk`, which then finds `network_callback` attached or nothing
(`no_callback`); `main` may attach it in between. The results of `connect`
are not looked at, as in the sample, so a socket may stay unconnected.

| Run | Question | Answer |
|---|---|---|
| `non_blocking_app` | do the polls to come cover what is queued, does `main` leave nothing behind, is data read? | yes, but for data that came before `attach` and is more than a buffer, segments larger than the buffer, and a segment whose callback comes as the wait runs out |

Bounds: two sockets, a buffer of 2 bytes, segments of 1 and 3 (smaller and
larger than it), four segments. `main` ends, so deadlock is not checked.

Fairness: both threads run. Segments need not come and the wait need not run out.

## Findings

Three statements of the repository that a run refutes:

* 272 takes the timeout of `wait`, 0, for a success: `lwip_connect_timeout`.
* 197 does not remove the pcb of a UDP socket: `lwip_close_udp`.
* `NetworkSocketAPI/SocketAddress.cpp:117`: `memmove` copies the suffix of an
  IPv6 text and leaves it at the front as well, so `::8` becomes
  `8:0:0:0:0:0:0:8`: `socket_address_shift`.

Other divergences met while modelling. The models contain these behaviours
unless said otherwise, and the properties are stated around them, each with the
exception in its comment:

* 302 says freeing in `pbuf_consume` is interrupt safe. A packet that arrives
  while the last pbuf is freed is lost, or linked through freed memory (`raced`,
  `corrupt`).
* `NetworkSocketAPI/Socket.h:98` promises WOULD_BLOCK after the timeout. Without
  a tick the one-shot `Timeout` may fire between the timer's test and `__WFI`
  (`NetworkSocketAPI/TCPSocket.cpp:97`), and the call sleeps on (`missed`).
* `NetworkSocketAPI/Socket.h:89` swaps blocking and non-blocking.
* 182 and 342: a reset leaves `s->tcp` dangling (`lost`).
* 201: a `tcp_close` that fails leaves a connection with a deleted argument
  (`unclosed`).
* 108: `connect` returns 0 without a lease, and a late lease leaves a token for
  the next `connect` (`leftover`). 127: the last address stays after
  `disconnect`.
* 327: a full send buffer is DEVICE_ERROR, so a blocking `send` fails instead of
  waiting. A refusal for want of memory has no callback (`starved`). Sizes are
  cut to 16 bits while the whole size is returned (`cut`), and a size that is
  larger than the buffer after that is refused each time, callback or not.
  400-404: an error of `pbuf_take` leaves the pbuf (`nothings`).
* 386: the size of a `recv` is cut to 16 bits too, so a buffer of a multiple of
  65536 bytes receives 0 bytes while data is queued (`clipped`).
* `NetworkSocketAPI/Socket.cpp:43`: opening an open object drops its handle
  (`leaked`). `TCPServer.cpp:65`: an accepted connection has no thunk
  (`accepted`). `Socket.cpp:126`: a callback may be called half copied (`overlap`).
* `NetworkSocketAPI/SocketAddress.cpp:153`: an IPv6 literal given as a host is
  parsed as IPv4, a literal's port is lost (148), and a failed lookup zeroes four
  bytes only (160). The constructors from raw bytes keep whatever version the
  memory held (205).

## Proofs

Every theorem is of the form `Spec => []Property` (or an action or refinement
property) and rests on an inductive invariant `IInv` of its module: the initial
states satisfy it, one lemma per action (or per few that are alike) preserves
it, and the property follows. The assumptions are the named `ASSUME`s of the
modelled modules: that bounds and sizes are numbers, that pools are disjoint and
`NULL` is in none, that only UDP packets may be empty and none ends in an empty
pbuf, that literals are written as addresses are and memory holds bytes. TLC evaluates them in every run.

* `RxChainProofs`: every safety property of `RxChain`, for all sets of packets,
  buffer sizes, windows and numbers of pbufs, and both protocols. Between two
  calls the properties speak of the whole queue, while in the middle of one part
  of it is freed and a handler may be appending, so they are not inductive as
  they stand. `IInv` says, for every place of the consumer, which pbufs it still
  owns (`Owned`: linked in order, contiguous in the stream, allocated, one
  reference each), that everything allocated is owned or raced, and where the
  bytes disposed of end (`rd`). The key lemma is `FrontAtArrival`: a handler
  that finds the head allocated runs before the consumer freed anything, so the
  list it appends to is the consumer's.
  `StreamImplemented` is that the TCP queue refines `ByteStream`: a segment is
  an arrival, the end of a copy a read that starts where the last one ended, any
  other step changes nothing the stream sees. `DatagramsImplemented` is that the
  UDP queue refines `DatagramQueue`. The mapping numbers the waiting datagrams
  by their rank, a cardinality; `NthOfLarger` and `NthOfRest` say what a new
  last one and the loss of the first one do to the numbers. The strengthening
  (`Passed`) is that until it returns a call has passed no datagram but its own,
  and `FrontDatagram` that the packet at the head ends where the next begins.
* `BlockingCallProofs`: the safety properties of `BlockingCall` for all timeouts
  and numbers of sockets and packets. The strengthening says that the timeout in
  force is one the call has seen (`DuringInv`), what the loop knows after its
  first read of it (`TimerInv`), that a turn starts with a socket (`TurnInv`),
  and, with one thread, that the alarm is set or due and that the stack's answer
  still holds unless an interrupt came since (`BareInv`).
* `LwipSocketsProofs`: all safety properties of `LwipSockets` for heaps and
  pools of any size. A socket that was not lost holds a live pcb that finds it,
  or was zeroed (`Held`); conversely a live TCP pcb belongs to an open socket
  (`Owned`), and no two find the same one (`Unique`). `Handshakes` says who may
  be waiting for a handshake, which is what `DeadSemaphoreIsLate` needs.
* `SocketObjectsProofs`: all properties of `SocketObjects` for any objects,
  handles and callbacks. Handles and objects match one to one but for dropped
  handles (`Owned`), the stack calls the owner or nobody (`Attached`), a
  callback is whole except where `attach` is at work (`Whole`). `Serving`
  carries that through a handler that nothing overlaps.
* `NetifProofs`: the safety properties of `Netif`. Tokens are backed by leases
  (`Counts`), exactly one token or callback of `tcpip_inited` is there for a
  `connect` that waits and none otherwise (`InitsOnce`), no client runs without the callback (`Callbacks`), the text is the
  lease's once copied (`Copied`), and a `connect` that found nothing left over
  sees only its own leases (`Fresh`).
* `SendingProofs`: the counts of `Sending`, for all sizes, buffers and pools.
  The arithmetic of a cut size is in `SizeFacts`; `RefusalFits` keeps a repeated
  send within the bound.
* `NonBlockingAppProofs`: the safety properties of `NonBlockingApp`, for any
  number of sockets, segments and buffer size. `Polls` counts the polls that are
  sure to come for a socket, `SettingUp` that the initial token is still there
  when the last socket is attached, `EarlyOnly` that what a socket holds before
  came early or has its callback still due.
* `SocketAddressProofs`: the properties of `SocketAddress` for all objects,
  literals, names and contents of memory. First what the code computes on any
  text: `sscanf`'s numbers, where the loops find them, and what they leave in the
  bytes. From that, for all values, the printers are inverted by the parsers
  (`IPv4Printed`, `IPv6Printed`) and a literal gives its address (`LiteralSet`),
  the abbreviated ones by following the suffix through its `memmove`. The
  invariant of the objects (`ObjectsInvariant`) is then their type, that a cached
  text is the printed address, and that the address is the one asked for. The
  last two leave out what the code does not keep: an object from a literal host,
  the cached text after a failed lookup, and the address of a literal whose
  suffix overlaps its new place. Induction
  over digits and parts goes by sets of numbers (`Least`, `Induct`): the parsers
  are recursive functions on an interval, which `Iteration` shows to exist.

The temporal operators of the liveness properties are out of the prover's reach,
since they rest on fairness and with it on `ENABLED`. What four of them rest on
is a theorem all the same: a measure that is a natural number, that every step
which fairness brings makes smaller and that no other step makes larger while
the wait goes on; and, where another thread ends the wait, that this is on its
way.

| Liveness property | Theorem | Measure |
|---|---|---|
| `RecvReturns` | `CallsEnd` | `Distance`: three steps for each pbuf left in `pbuf_consume`, pbufs that arrive meanwhile included |
| `RefusedIsSentLater` | `RefusalsEnd` | `Ahead`: bytes not sent, bytes not acknowledged, the acknowledgement, the callback |
| `ConnectReturns` | `ConnectsEnd` | `Left`: the steps of `connect`; `tcpip_inited` has its one token or its callback is to run |
| `DataIsRead` | `PollsCome` | `Steps`: the steps of `main` up to the next poll of a socket; it waits beside data that came after `attach` only with a token or a callback under way |

`RefusalsEnd` assumes that every size, as cut to 16 bits, fits the send buffer: a
larger one is refused for ever.

Only model-checked: the five liveness properties themselves. `CallReturns` has no
such theorem, because a reason to return may come and go with other threads, and
the property excuses exactly that. The violated properties are counterexamples
and need no proof.

## Not modelled

* `ESP8266Interface` (sample): its base class `SocketInterface`, its types and
  its driver `ESP8266` are of an earlier API and not in the repository. What is
  its own is the first free of five ids.
* `NSAPITests`, `HelloLWIPInterface`, `EchoServer.py`: sequential clients. They
  were read for the calls an application makes.
* `socket_listen` and `socket_accept` of `LWIPInterface`, and the option calls of
  `NetworkStack`: they return NSAPI_ERROR_UNSUPPORTED and change nothing.
  `SocketObjects` models `accept` over a stack that supports it.
* `EthernetInterface.h` and its siblings: abstract classes without code.
* lwIP itself is external. The races between the application's calls of raw lwIP
  functions and the tcpip thread inside lwIP (390, 327, 406) are not visible.
* The reading of the source address in `socket_recvfrom`, the text of the MAC
  address, `netif_link_irq`, whose semaphore nobody waits for, formatting,
  logging.
* The width of the timer: `_timeout * 1000` overflows from 2147484 ms on
  (`NetworkSocketAPI/TCPSocket.cpp:82`); time in `BlockingCall` has no width.

## Plan

The parts are modelled; what is left is to join and deepen them:

1. a blocking `send` over `Sending`, where a refusal ends the call;
2. `accept`'s waiting loop over `SocketObjects`, with its reassignment of the
   connection between two turns;
3. the end of a connection in `RxChain`, with data still queued.
