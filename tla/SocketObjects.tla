---------------------------- MODULE SocketObjects ----------------------------
(***************************************************************************)
(* Socket, TCPSocket, UDPSocket and TCPServer objects over a stack that     *)
(* hands out handles.  An application thread opens, closes, attaches,       *)
(* accepts and destroys; the stack's thread runs handlers, which call       *)
(* Socket::thunk and the application's callback.  The two interleave        *)
(* wherever one reads what the other writes.                                *)
(***************************************************************************)
CONSTANTS
  Sockets,    \* memory for TCPSocket and UDPSocket objects
  Servers,    \* memory for TCPServer objects
  Handles,    \* the sockets of the stack
  Callbacks,  \* the application's functions
  NULL

Objects == Sockets \cup Servers

ASSUME ObjectsAssumption ==
  /\ NULL \notin Objects \cup Handles \cup Callbacks \cup {"thunk"}
  /\ \A f \in Callbacks : NULL \notin {<<"object", f>>, <<"method", f>>}

VARIABLES
  \* the objects
  alive,      \* those constructed
  socket,     \* _socket
  callback,   \* _callback: the two words of a FunctionPointer
  \* the stack's sockets
  state,      \* "closed", "open", or "active" when events may come
  s_callback, \* s->callback
  s_data,     \* s->data
  \* the threads
  app,        \* where the application is: [at, obj, then]
  irq,        \* where the handler is: [at, handle, self]
  \* history
  accepted,   \* handles that came from accept
  leaked,     \* handles that open put another in place of
  overlap,    \* the application detached or attached during the handler
  fault       \* what the handler stumbled over; it ends the model

objects == <<alive, socket, callback>>
handles == <<state, s_callback, s_data>>
history == <<accepted, leaked>>
vars == <<objects, handles, app, irq, history, overlap, fault>>

NoWords == <<NULL, NULL>>
Idle == [at |-> "idle", obj |-> NULL, then |-> "idle"]
NoHandler == [at |-> "idle", handle |-> NULL, self |-> NULL]

Init ==
  /\ alive = {} /\ socket = [o \in Objects |-> NULL]
  /\ callback = [o \in Objects |-> NoWords]
  /\ state = [h \in Handles |-> "closed"] /\ s_callback = [h \in Handles |-> NULL]
  /\ s_data = [h \in Handles |-> NULL]
  /\ app = Idle /\ irq = NoHandler
  /\ accepted = {} /\ leaked = {} /\ overlap = FALSE /\ fault = "none"

-----------------------------------------------------------------------------
(* The application.                                                        *)

InHandler == irq.at # "idle"

construct ==
  \E o \in Objects \ alive :
    /\ app = Idle
    /\ alive' = alive \cup {o}
    /\ socket' = [socket EXCEPT ![o] = NULL] /\ callback' = [callback EXCEPT ![o] = NoWords]
    /\ UNCHANGED <<handles, app, irq, history, overlap, fault>>

(* A new handle: the stack clears its fields.                              *)
NewHandle(h, s, cb, data) ==
  /\ state' = [state EXCEPT ![h] = s]
  /\ s_callback' = [s_callback EXCEPT ![h] = cb] /\ s_data' = [s_data EXCEPT ![h] = data]

(* What open passes to socket_attach(_socket, &Socket::thunk, this); both   *)
(* _socket and this would do for the void * that thunk gets.               *)
open_attach_none(h, o) == <<NULL, NULL>>
open_attach_handle(h, o) == <<"thunk", h>>
open_attach(h, o) == <<"thunk", o>>

(* One step: no handler runs on a handle before it is bound or connected.   *)
(* A stack without a free handle fails, which changes nothing.              *)
open ==
  \E o \in alive, h \in Handles :
    /\ app = Idle /\ state[h] = "closed"
    /\ socket' = [socket EXCEPT ![o] = h]
    /\ NewHandle(h, "open", open_attach(h, o)[1], open_attach(h, o)[2])
    /\ leaked' = (leaked \ {h}) \cup ({socket[o]} \ {NULL})
    /\ accepted' = accepted \ {h}
    /\ UNCHANGED <<alive, callback, app, irq, overlap, fault>>

(* bind, connect and listen, which return NO_SOCKET without a handle.       *)
bind_connect_listen ==
  \E o \in alive :
    /\ app = Idle /\ socket[o] # NULL
    /\ state' = [state EXCEPT ![socket[o]] = "active"]
    /\ UNCHANGED <<objects, s_callback, s_data, app, irq, history, overlap, fault>>

(* close is socket_attach(_socket, 0, 0), two stores, and then the rest.    *)
(* The destructor and accept call it for an object that is open.            *)
detached_kept(cb) == cb
detached(cb) == NULL

StartClose(o, then) ==
  /\ app' = [at |-> "detached", obj |-> o, then |-> then]
  /\ s_callback' = [s_callback EXCEPT ![socket[o]] = detached(@)]
  /\ overlap' = (overlap \/ InHandler)
  /\ UNCHANGED <<objects, state, s_data, irq, history, fault>>

close ==
  \E o \in alive : app = Idle /\ socket[o] # NULL /\ StartClose(o, "idle")

close_data ==
  /\ app.at = "detached"
  /\ app' = [app EXCEPT !.at = "closing"]
  /\ s_data' = [s_data EXCEPT ![socket[app.obj]] = NULL]
  /\ UNCHANGED <<objects, state, s_callback, irq, history, overlap, fault>>

close_handle ==
  /\ app.at = "closing"
  /\ socket' = [socket EXCEPT ![app.obj] = NULL]
  /\ state' = [state EXCEPT ![socket[app.obj]] = "closed"]
  /\ leaked' = leaked \ {socket[app.obj]} /\ accepted' = accepted \ {socket[app.obj]}
  /\ app' = IF app.then = "idle" THEN Idle
            ELSE [at |-> app.then, obj |-> app.obj, then |-> "idle"]
  /\ UNCHANGED <<alive, callback, s_callback, s_data, irq, overlap, fault>>

must_close_never(o) == FALSE
must_close(o) == socket[o] # NULL

(* The destructor; then the object's memory is free.                       *)
destroy ==
  \E o \in alive : app = Idle /\ must_close(o) /\ StartClose(o, "destroyed")

destroyed ==
  /\ \/ app.at = "destroyed" /\ alive' = alive \ {app.obj}
     \/ app = Idle /\ \E o \in alive : ~must_close(o) /\ alive' = alive \ {o}
  /\ app' = Idle
  /\ overlap' = (overlap \/ InHandler)
  /\ UNCHANGED <<socket, callback, handles, irq, history, fault>>

(* _callback = callback copies a FunctionPointer word by word; without a    *)
(* function both words are NULL.                                           *)
Words(f) == IF f = NULL THEN NoWords ELSE <<<<"object", f>>, <<"method", f>>>>

attach ==
  \E o \in alive, f \in Callbacks \cup {NULL} :
    /\ app = Idle
    /\ callback' = [callback EXCEPT ![o] = <<Words(f)[1], @[2]>>]
    /\ app' = [at |-> "attaching", obj |-> o, then |-> f]
    /\ overlap' = (overlap \/ InHandler)
    /\ UNCHANGED <<alive, socket, handles, irq, history, fault>>

attach_rest ==
  /\ app.at = "attaching"
  /\ callback' = [callback EXCEPT ![app.obj] = <<@[1], Words(app.then)[2]>>]
  /\ app' = Idle
  /\ UNCHANGED <<alive, socket, handles, irq, history, overlap, fault>>

(* accept closes the connection's handle, if it has one, then asks the      *)
(* stack until it has a new one, fails or has waited long enough.           *)
AcceptOn(o) == [at |-> "accepting", obj |-> o, then |-> "idle"]
Listening == \E v \in Servers \cap alive : socket[v] # NULL /\ state[socket[v]] = "active"

must_close_connection_never(o) == FALSE
must_close_connection(o) == socket[o] # NULL

accept ==
  \E o \in Sockets \cap alive :
    /\ app = Idle /\ Listening
    /\ IF must_close_connection(o) THEN StartClose(o, "accepting")
       ELSE /\ app' = AcceptOn(o)
            /\ UNCHANGED <<objects, handles, irq, history, overlap, fault>>

accept_ask ==
  /\ app.at = "accepting"
  /\ \/ \E h \in Handles :
          /\ state[h] = "closed"
          /\ socket' = [socket EXCEPT ![app.obj] = h]
          /\ NewHandle(h, "active", NULL, NULL)
          /\ accepted' = accepted \cup {h} /\ leaked' = leaked \ {h}
     \/ UNCHANGED <<socket, handles, history>>
  /\ app' = Idle
  /\ UNCHANGED <<alive, callback, irq, overlap, fault>>

-----------------------------------------------------------------------------
(* A handler of the stack on an event of an active handle, and the thunk.   *)

(* It tests s->callback and keeps it.                                      *)
handler ==
  \E h \in Handles :
    /\ ~InHandler /\ state[h] = "active" /\ s_callback[h] = "thunk"
    /\ irq' = [at |-> "tested", handle |-> h, self |-> NULL]
    /\ overlap' = (app.at \in {"attaching", "destroyed"})
    /\ UNCHANGED <<objects, handles, app, history, fault>>

Stumbles(what) == fault' = what /\ UNCHANGED irq

(* It loads s->data, which is freed memory once the handle is closed.       *)
handler_data ==
  /\ irq.at = "tested"
  /\ IF state[irq.handle] = "closed" THEN Stumbles("deleted_handle")
     ELSE IF s_data[irq.handle] \notin alive THEN Stumbles("no_object")
     ELSE /\ irq' = [at |-> "thunk", handle |-> irq.handle, self |-> s_data[irq.handle]]
          /\ UNCHANGED fault
  /\ UNCHANGED <<objects, handles, app, history, overlap>>

has_callback_always(o) == TRUE
has_callback(o) == NULL \notin {callback[o][1], callback[o][2]}

(* thunk tests _callback and calls it.                                     *)
thunk ==
  /\ irq.at = "thunk"
  /\ IF irq.self \notin alive THEN Stumbles("no_object")
     ELSE /\ irq' = IF has_callback(irq.self) THEN [irq EXCEPT !.at = "call"] ELSE NoHandler
          /\ UNCHANGED fault
  /\ UNCHANGED <<objects, handles, app, history, overlap>>

call ==
  /\ irq.at = "call"
  /\ IF irq.self \notin alive THEN Stumbles("no_object")
     ELSE IF \E f \in Callbacks : callback[irq.self] = Words(f)
     THEN irq' = NoHandler /\ UNCHANGED fault
     ELSE Stumbles("torn_callback")
  /\ UNCHANGED <<objects, handles, app, history, overlap>>

Running == fault = "none"

Next ==
  /\ Running
  /\ \/ construct \/ open \/ bind_connect_listen \/ close \/ close_data \/ close_handle
     \/ destroy \/ destroyed \/ attach \/ attach_rest \/ accept \/ accept_ask
     \/ handler \/ handler_data \/ thunk \/ call

Spec == Init /\ [][Next]_vars

-----------------------------------------------------------------------------
(* Properties.                                                             *)

TypeOK ==
  /\ alive \subseteq Objects /\ socket \in [Objects -> Handles \cup {NULL}]
  /\ callback \in [Objects -> {<<Words(f)[1], Words(g)[2]>> : f, g \in Callbacks \cup {NULL}}]
  /\ state \in [Handles -> {"closed", "open", "active"}]
  /\ s_callback \in [Handles -> {NULL, "thunk"}] /\ s_data \in [Handles -> Objects \cup {NULL}]
  /\ app \in [at : {"idle", "detached", "closing", "destroyed", "attaching", "accepting"},
              obj : Objects \cup {NULL},
              then : {"idle", "destroyed", "accepting", NULL} \cup Callbacks]
  /\ irq \in [at : {"idle", "tested", "thunk", "call"}, handle : Handles \cup {NULL},
              self : Objects \cup {NULL}]
  /\ accepted \cup leaked \subseteq Handles /\ overlap \in BOOLEAN
  /\ fault \in {"none", "deleted_handle", "no_object", "torn_callback"}

(* A handler that no close, attach or destructor overlapped finds its       *)
(* object alive and its callback whole, whatever was destroyed, accepted    *)
(* and constructed again in the same memory before (~Socket, close, thunk); *)
(* only a handle that a second open dropped is a danger on its own.         *)
SoundWithoutRaces == fault # "none" => overlap \/ irq.handle \in leaked

(* Such a handler serves the object that its handle belongs to: closing and *)
(* accepting leave no handle that calls an object for another (lwIP's       *)
(* handlers, Socket::close, TCPServer::accept).                             *)
HandlerServesItsOwner ==
  LET self == IF irq.at = "tested" THEN s_data[irq.handle] ELSE irq.self
  IN  (InHandler /\ ~overlap /\ irq.handle \notin leaked) =>
        self # NULL /\ socket[self] = irq.handle

Owners(h) == {o \in alive : socket[o] = h}

(* Every handle of the stack that is not closed belongs to one object, and  *)
(* can be closed, through accept, destructors and failing opens; again but  *)
(* for a second open (Socket::open, TCPServer::accept, ~Socket).            *)
HandlesHaveOneOwner ==
  \A h \in Handles : (state[h] # "closed" /\ h \notin leaked) => \E o \in alive : Owners(h) = {o}

(* While an object has a handle, the stack's events on it reach the object, *)
(* but for the handles that accept made and during a close (Socket::open).  *)
EventsReachTheObject ==
  \A o \in alive :
    (socket[o] \notin accepted \cup {NULL} /\ ~(app.obj = o /\ app.at \in {"detached", "closing"}))
      => s_callback[socket[o]] = "thunk" /\ s_data[socket[o]] = o
=============================================================================
