-------------------------- MODULE SocketObjectsProofs --------------------------
(* The safety properties of SocketObjects, for any number of objects,       *)
(* handles and callbacks.                                                  *)
EXTENDS SocketObjects, TLAPS

-----------------------------------------------------------------------------
(* The inductive invariant.                                                *)

(* The object that the application is at is alive; while it is closed it    *)
(* has a handle, and none after that.                                      *)
Places ==
  /\ app.at # "idle" => app.obj \in alive
  /\ app.at \in {"detached", "closing"} =>
       socket[app.obj] # NULL /\ app.then \in {"idle", "destroyed", "accepting"}
  /\ app.at \in {"destroyed", "accepting"} => socket[app.obj] = NULL

(* A handle of the stack that is not closed is that of one object, or was   *)
(* dropped by a second open.                                               *)
Owned ==
  /\ \A o \in Objects : socket[o] # NULL =>
       o \in alive /\ state[socket[o]] # "closed" /\ socket[o] \notin leaked
  /\ \A o, p \in Objects : socket[o] # NULL /\ socket[o] = socket[p] => o = p
  /\ \A h \in Handles \ leaked : state[h] # "closed" => \E o \in Objects : socket[o] = h
  /\ \A h \in leaked : state[h] # "closed"

Closing(o) == app.obj = o /\ app.at \in {"detached", "closing"}

(* The stack calls the owner of a handle, or nobody.                        *)
Attached ==
  \A o \in Objects : socket[o] # NULL =>
    IF socket[o] \in accepted \/ Closing(o) THEN s_callback[socket[o]] = NULL
    ELSE s_callback[socket[o]] = "thunk" /\ s_data[socket[o]] = o

(* The object a handler serves, or is about to load.                        *)
Self == IF irq.at = "tested" THEN s_data[irq.handle] ELSE irq.self

(* Its handle was dropped, or the application interfered.                   *)
Raced == overlap \/ irq.handle \in leaked

(* A handler that nothing overlapped serves the owner of its handle, which  *)
(* nobody closes or attaches to.                                           *)
Serving ==
  InHandler =>
    /\ irq.handle \in Handles
    /\ ~Raced =>
         /\ Self \in Objects /\ socket[Self] = irq.handle
         /\ app.at # "attaching" /\ ~Closing(Self)
         /\ irq.at = "call" => has_callback(Self)

(* A callback is whole but for the object that is attached to.              *)
Whole ==
  /\ \A o \in Objects : ~(app.at = "attaching" /\ app.obj = o) =>
       \E f \in Callbacks \cup {NULL} : callback[o] = Words(f)
  /\ app.at = "attaching" =>
       app.then \in Callbacks \cup {NULL} /\ callback[app.obj][1] = Words(app.then)[1]

IInv ==
  /\ TypeOK /\ Places /\ Owned /\ Attached /\ Serving /\ Whole /\ SoundWithoutRaces

-----------------------------------------------------------------------------
(* The initial state satisfies the invariant.                              *)
LEMMA InitIInv == Init => IInv
<1> SUFFICES ASSUME Init PROVE IInv
  OBVIOUS
<1> USE DEF Init
<1>1. NoWords = Words(NULL) /\ NoWords = <<Words(NULL)[1], Words(NULL)[2]>>
  BY DEF Words, NoWords
<1>2. TypeOK
  <2>1. callback \in [Objects -> {<<Words(f)[1], Words(g)[2]>> : f, g \in Callbacks \cup {NULL}}]
    BY <1>1
  <2>2. app \in [at : {"idle", "detached", "closing", "destroyed", "attaching", "accepting"},
                 obj : Objects \cup {NULL},
                 then : {"idle", "destroyed", "accepting", NULL} \cup Callbacks]
    BY DEF Idle
  <2>3. irq \in [at : {"idle", "tested", "thunk", "call"}, handle : Handles \cup {NULL},
                 self : Objects \cup {NULL}]
    BY DEF NoHandler
  <2>4. overlap \in BOOLEAN
    OBVIOUS
  <2>5. /\ alive \subseteq Objects /\ socket \in [Objects -> Handles \cup {NULL}]
        /\ state \in [Handles -> {"closed", "open", "active"}]
        /\ s_callback \in [Handles -> {NULL, "thunk"}]
        /\ s_data \in [Handles -> Objects \cup {NULL}]
    OBVIOUS
  <2>6. /\ accepted \cup leaked \subseteq Handles
        /\ fault \in {"none", "deleted_handle", "no_object", "torn_callback"}
    OBVIOUS
  <2> QED
    BY <2>1, <2>2, <2>3, <2>4, <2>5, <2>6 DEF TypeOK
<1>3. Places /\ Owned
  BY DEF Places, Owned, Idle
<1>4. Attached /\ Serving
  BY DEF Attached, Serving, InHandler, NoHandler
<1>5. Whole
  BY <1>1 DEF Whole, Idle
<1>6. SoundWithoutRaces
  BY DEF SoundWithoutRaces
<1> QED
  BY <1>2, <1>3, <1>4, <1>5, <1>6 DEF IInv

(* A new object has neither a handle nor a callback.                       *)
LEMMA ConstructStep == ASSUME IInv, fault = "none", construct PROVE IInv'
<1> USE DEF IInv, construct, objects, handles, history
<1>1. TypeOK'
  BY ObjectsAssumption DEF TypeOK, NoWords, Words
<1>2. Places'
  BY DEF Places
<1>3. Owned'
  BY DEF Owned
<1>4. Attached'
  BY DEF Attached, Closing
<1>5. Serving'
  BY ObjectsAssumption DEF Serving, Owned, Closing, Self, InHandler, has_callback, Raced
<1>6. Whole'
  <2>1. Words(NULL) = NoWords
    BY DEF Words
  <2>2. PICK o \in Objects \ alive :
          callback' = [callback EXCEPT ![o] = NoWords] /\ app = Idle /\ app' = app
    OBVIOUS
  <2>3. ASSUME NEW p \in Objects PROVE \E f \in Callbacks \cup {NULL} : callback'[p] = Words(f)
    BY <2>1, <2>2 DEF Whole, Idle
  <2> QED
    BY <2>2, <2>3 DEF Whole, Idle
<1>7. SoundWithoutRaces'
  BY DEF SoundWithoutRaces
<1> QED
  BY <1>1, <1>2, <1>3, <1>4, <1>5, <1>6, <1>7

(* A new handle is attached to its object; the old one is dropped.         *)
LEMMA OpenStep == ASSUME IInv, fault = "none", open PROVE IInv'
<1> USE DEF IInv, open, objects, handles, history
<1>1. TypeOK'
  BY DEF TypeOK, NewHandle, open_attach
<1>2. Places'
  BY DEF Places, Idle
<1>3. Owned'
  BY ObjectsAssumption DEF Owned, TypeOK, NewHandle
<1>4. Attached'
  BY DEF Attached, TypeOK, Owned, Closing, Idle, NewHandle, open_attach
<1>5. Serving'
  BY ObjectsAssumption DEF Serving, Owned, Closing, Self, InHandler, has_callback,
     Raced, NewHandle
<1>6. Whole'
  BY DEF Whole
<1>7. SoundWithoutRaces'
  BY DEF SoundWithoutRaces
<1> QED
  BY <1>1, <1>2, <1>3, <1>4, <1>5, <1>6, <1>7

(* From here on events may come.                                           *)
LEMMA BindStep == ASSUME IInv, fault = "none", bind_connect_listen PROVE IInv'
<1> USE DEF IInv, bind_connect_listen, objects, handles, history
<1>1. TypeOK'
  BY DEF TypeOK
<1>2. Places'
  BY DEF Places
<1>3. Owned'
  BY DEF Owned, TypeOK
<1>4. Attached'
  BY DEF Attached, Closing
<1>5. Serving'
  BY DEF Serving, Closing, Self, InHandler, has_callback, Raced
<1>6. Whole'
  BY DEF Whole
<1>7. SoundWithoutRaces'
  BY DEF SoundWithoutRaces
<1> QED
  BY <1>1, <1>2, <1>3, <1>4, <1>5, <1>6, <1>7

(* A close begins by taking the handle's callback away.                    *)
LEMMA StartCloseStep ==
  ASSUME IInv, fault = "none", app = Idle, NEW o \in alive, socket[o] # NULL,
         NEW then \in {"idle", "destroyed", "accepting"}, StartClose(o, then)
  PROVE  IInv'
<1> USE ObjectsAssumption DEF IInv, StartClose, objects, handles, history
<1>1. TypeOK'
  <2>1. overlap' \in BOOLEAN
    OBVIOUS
  <2>2. app' \in [at : {"idle", "detached", "closing", "destroyed", "attaching", "accepting"},
                  obj : Objects \cup {NULL},
                  then : {"idle", "destroyed", "accepting", NULL} \cup Callbacks]
    BY DEF TypeOK
  <2>3. s_callback' \in [Handles -> {NULL, "thunk"}]
    BY DEF TypeOK, detached
  <2> QED
    BY <2>1, <2>2, <2>3 DEF TypeOK
<1>2. Places'
  BY DEF Places
<1>3. Owned'
  BY DEF Owned
<1>4. Attached'
  BY DEF Attached, Closing, Idle, detached, TypeOK
<1>5. Serving'
  <2>1. InHandler => overlap'
    OBVIOUS
  <2>2. InHandler => irq.handle \in Handles
    BY DEF Serving
  <2> QED
    BY <2>1, <2>2 DEF Serving, InHandler, Raced
<1>6. Whole'
  BY DEF Whole, Idle
<1>7. SoundWithoutRaces'
  BY DEF SoundWithoutRaces
<1> QED
  BY <1>1, <1>2, <1>3, <1>4, <1>5, <1>6, <1>7

(* close begins.                                                           *)
LEMMA CloseStep == ASSUME IInv, fault = "none", close PROVE IInv'
BY StartCloseStep DEF close

(* s->data follows s->callback.                                            *)
LEMMA CloseDataStep == ASSUME IInv, fault = "none", close_data PROVE IInv'
<1> USE DEF IInv, close_data, objects, handles, history
<1>1. TypeOK'
  BY DEF TypeOK, Places
<1>2. Places'
  BY DEF Places
<1>3. Owned'
  BY DEF Owned
<1>4. Attached'
  BY ObjectsAssumption DEF Attached, TypeOK, Places, Closing
<1>5. Serving'
  BY DEF Serving, TypeOK, Places, Owned, Closing, Self, InHandler, has_callback, Raced
<1>6. Whole'
  BY DEF Whole
<1>7. SoundWithoutRaces'
  BY DEF SoundWithoutRaces
<1> QED
  BY <1>1, <1>2, <1>3, <1>4, <1>5, <1>6, <1>7

(* The handle goes back to the stack, and the object has none.             *)
LEMMA CloseHandleStep == ASSUME IInv, fault = "none", close_handle PROVE IInv'
<1> USE DEF IInv, close_handle, objects, handles, history
<1>1. TypeOK'
  BY DEF TypeOK, Places, Idle
<1>2. Places'
  BY DEF Places, TypeOK, Idle
<1>3. Owned'
  BY DEF Owned, TypeOK, Places
<1>4. Attached'
  BY DEF Attached, TypeOK, Places, Owned, Closing, Idle
<1>5. Serving'
  BY DEF Serving, TypeOK, Places, Owned, Closing, Self, InHandler, has_callback, Idle,
     Raced
<1>6. Whole'
  BY DEF Whole, Places, Idle
<1>7. SoundWithoutRaces'
  BY DEF SoundWithoutRaces
<1> QED
  BY <1>1, <1>2, <1>3, <1>4, <1>5, <1>6, <1>7

(* The destructor of an object that is open begins with its close.         *)
LEMMA DestroyStep == ASSUME IInv, fault = "none", destroy PROVE IInv'
BY StartCloseStep DEF destroy, must_close

(* The memory of an object is free only when it has no handle.             *)
LEMMA DestroyedStep == ASSUME IInv, fault = "none", destroyed PROVE IInv'
<1> USE DEF IInv, destroyed, objects, handles, history
<1>1. TypeOK'
  BY DEF TypeOK, Idle
<1>2. Places'
  BY DEF Places, Idle
<1>3. Owned'
  BY DEF Owned, Places, must_close
<1>4. Attached'
  BY DEF Attached, Closing, Idle
<1>5. Serving'
  BY DEF Serving, InHandler, Idle, Raced
<1>6. Whole'
  BY DEF Whole, Idle
<1>7. SoundWithoutRaces'
  BY DEF SoundWithoutRaces
<1> QED
  BY <1>1, <1>2, <1>3, <1>4, <1>5, <1>6, <1>7

(* attach copies the first word of the callback.                           *)
LEMMA AttachStep == ASSUME IInv, fault = "none", attach PROVE IInv'
<1> USE ObjectsAssumption DEF IInv, objects, handles, history
<1>1. PICK o \in alive, f \in Callbacks \cup {NULL} :
        /\ app = Idle
        /\ callback' = [callback EXCEPT ![o] = <<Words(f)[1], @[2]>>]
        /\ app' = [at |-> "attaching", obj |-> o, then |-> f]
        /\ overlap' = (overlap \/ InHandler)
        /\ UNCHANGED <<alive, socket, handles, irq, history, fault>>
  BY DEF attach
<1>2. o \in Objects
  BY DEF TypeOK
<1>3. callback'[o] = <<Words(f)[1], callback[o][2]>>
  BY <1>1, <1>2 DEF TypeOK
<1>4. TypeOK'
  <2>1. overlap' \in BOOLEAN
    BY <1>1
  <2>2. app' \in [at : {"idle", "detached", "closing", "destroyed", "attaching", "accepting"},
                  obj : Objects \cup {NULL},
                  then : {"idle", "destroyed", "accepting", NULL} \cup Callbacks]
    BY <1>1, <1>2
  <2>3. PICK g, k \in Callbacks \cup {NULL} : callback[o] = <<Words(g)[1], Words(k)[2]>>
    BY <1>2 DEF TypeOK
  <2>4. callback'[o] = <<Words(f)[1], Words(k)[2]>>
    BY <1>3, <2>3
  <2>5. callback' \in [Objects -> {<<Words(x)[1], Words(y)[2]>> : x, y \in Callbacks \cup {NULL}}]
    BY <1>1, <1>2, <1>3, <2>4 DEF TypeOK
  <2> QED
    BY <1>1, <2>1, <2>2, <2>5 DEF TypeOK
<1>5. Places'
  BY <1>1 DEF Places
<1>6. Owned'
  BY <1>1 DEF Owned
<1>7. Attached'
  BY <1>1 DEF Attached, Closing, Idle
<1>8. Serving'
  <2>1. InHandler => overlap'
    BY <1>1
  <2>2. InHandler => irq.handle \in Handles
    BY DEF Serving
  <2> QED
    BY <1>1, <2>1, <2>2 DEF Serving, InHandler, Raced
<1>9. Whole'
  <2>1. ASSUME NEW p \in Objects, p # o
        PROVE  \E g \in Callbacks \cup {NULL} : callback'[p] = Words(g)
    BY <1>1, <2>1 DEF Whole, Idle
  <2>2. callback'[o][1] = Words(f)[1]
    BY <1>3
  <2> QED
    BY <1>1, <2>1, <2>2 DEF Whole
<1>10. SoundWithoutRaces'
  BY <1>1 DEF SoundWithoutRaces
<1> QED
  BY <1>4, <1>5, <1>6, <1>7, <1>8, <1>9, <1>10

(* attach copies the second word: the callback is whole again.             *)
LEMMA AttachRestStep == ASSUME IInv, fault = "none", attach_rest PROVE IInv'
<1> USE ObjectsAssumption DEF IInv, attach_rest, objects, handles, history
<1> DEFINE o == app.obj f == app.then
<1>1. o \in Objects /\ f \in Callbacks \cup {NULL} /\ callback[o][1] = Words(f)[1]
  BY DEF TypeOK, Places, Whole
<1>2. callback'[o] = <<Words(f)[1], Words(f)[2]>>
  BY <1>1 DEF TypeOK
<1>3. TypeOK'
  <2>1. callback' \in [Objects -> {<<Words(x)[1], Words(y)[2]>> : x, y \in Callbacks \cup {NULL}}]
    BY <1>1, <1>2 DEF TypeOK
  <2>2. app' \in [at : {"idle", "detached", "closing", "destroyed", "attaching", "accepting"},
                  obj : Objects \cup {NULL},
                  then : {"idle", "destroyed", "accepting", NULL} \cup Callbacks]
    BY DEF Idle
  <2> QED
    BY <2>1, <2>2 DEF TypeOK
<1>4. Places'
  BY DEF Places, Idle
<1>5. Owned'
  BY DEF Owned
<1>6. Attached'
  BY DEF Attached, Closing, Idle
<1>7. Serving'
  BY DEF Serving, InHandler, Raced
<1>8. Whole'
  <2>1. callback'[o] = Words(f)
    BY <1>2 DEF Words, NoWords
  <2>2. ASSUME NEW p \in Objects, p # o
        PROVE  \E g \in Callbacks \cup {NULL} : callback'[p] = Words(g)
    BY <1>1, <2>2 DEF Whole
  <2>3. app'.at = "idle"
    BY DEF Idle
  <2> QED
    BY <1>1, <2>1, <2>2, <2>3 DEF Whole
<1>9. SoundWithoutRaces'
  BY DEF SoundWithoutRaces
<1> QED
  BY <1>3, <1>4, <1>5, <1>6, <1>7, <1>8, <1>9

(* accept begins with the close of the connection's handle, if it has one. *)
LEMMA AcceptStep == ASSUME IInv, fault = "none", accept PROVE IInv'
<1>1. PICK o \in Sockets \cap alive :
        /\ app = Idle
        /\ IF must_close_connection(o) THEN StartClose(o, "accepting")
           ELSE /\ app' = AcceptOn(o)
                /\ UNCHANGED <<objects, handles, irq, history, overlap, fault>>
  BY DEF accept
<1>2. CASE must_close_connection(o)
  BY <1>1, <1>2, StartCloseStep DEF must_close_connection
<1>3. CASE ~must_close_connection(o)
  <2> USE <1>1, <1>3 DEF IInv, objects, handles, history
  <2>1. TypeOK'
    <3>1. app' \in [at : {"idle", "detached", "closing", "destroyed", "attaching", "accepting"},
                    obj : Objects \cup {NULL},
                    then : {"idle", "destroyed", "accepting", NULL} \cup Callbacks]
      BY DEF AcceptOn, Objects
    <3> QED
      BY <3>1 DEF TypeOK
  <2>2. Places'
    BY DEF Places, AcceptOn, must_close_connection
  <2>3. Owned'
    BY DEF Owned
  <2>4. Attached'
    BY DEF Attached, Closing, Idle, AcceptOn
  <2>5. Serving'
    BY DEF Serving, Closing, InHandler, Self, AcceptOn, has_callback, Raced
  <2>6. Whole'
    BY DEF Whole, Idle, AcceptOn
  <2>7. SoundWithoutRaces'
    BY DEF SoundWithoutRaces
  <2> QED
    BY <2>1, <2>2, <2>3, <2>4, <2>5, <2>6, <2>7
<1> QED
  BY <1>2, <1>3

(* accept gives a new handle, that no object has, to the connection.       *)
LEMMA AcceptAskStep == ASSUME IInv, fault = "none", accept_ask PROVE IInv'
<1> USE DEF IInv, accept_ask, objects, handles, history
<1>1. TypeOK'
  <2>1. app' \in [at : {"idle", "detached", "closing", "destroyed", "attaching", "accepting"},
                  obj : Objects \cup {NULL},
                  then : {"idle", "destroyed", "accepting", NULL} \cup Callbacks]
    BY DEF Idle
  <2>2. socket' \in [Objects -> Handles \cup {NULL}]
    BY DEF TypeOK
  <2>3. state' \in [Handles -> {"closed", "open", "active"}]
    BY DEF TypeOK, NewHandle
  <2>4. s_callback' \in [Handles -> {NULL, "thunk"}]
    BY DEF TypeOK, NewHandle
  <2>5. s_data' \in [Handles -> Objects \cup {NULL}]
    BY DEF TypeOK, NewHandle
  <2>6. accepted' \cup leaked' \subseteq Handles
    BY DEF TypeOK
  <2> QED
    BY <2>1, <2>2, <2>3, <2>4, <2>5, <2>6 DEF TypeOK
<1>2. Places'
  BY DEF Places, Idle
<1>3. Owned'
  BY ObjectsAssumption DEF Owned, TypeOK, Places, Whole, NewHandle
<1>4. Attached'
  BY DEF Attached, TypeOK, Closing, Idle, NewHandle
<1>5. Serving'
  BY ObjectsAssumption DEF Serving, TypeOK, Places, Owned, Closing, Self, InHandler,
     has_callback, Idle, Raced, NewHandle
<1>6. Whole'
  BY DEF Whole, Idle
<1>7. SoundWithoutRaces'
  BY DEF SoundWithoutRaces
<1> QED
  BY <1>1, <1>2, <1>3, <1>4, <1>5, <1>6, <1>7

(* A handler starts for a handle whose owner nobody closes.                *)
LEMMA HandlerStep == ASSUME IInv, fault = "none", handler PROVE IInv'
<1> USE DEF IInv, handler, objects, handles, history
<1>1. TypeOK'
  BY DEF TypeOK
<1>2. Places'
  BY DEF Places
<1>3. Owned'
  BY DEF Owned
<1>4. Attached'
  BY DEF Attached, Closing
<1>5. Serving'
  <2>1. PICK h \in Handles :
          /\ state[h] = "active" /\ s_callback[h] = "thunk"
          /\ irq' = [at |-> "tested", handle |-> h, self |-> NULL]
          /\ overlap' = (app.at \in {"attaching", "destroyed"})
          /\ UNCHANGED <<objects, handles, app, history, fault>>
    OBVIOUS
  <2>2. Self' = s_data[h] /\ irq'.handle = h /\ irq'.at = "tested"
    BY <2>1 DEF Self
  <2>3. ASSUME h \notin leaked
        PROVE  s_data[h] \in Objects /\ socket[s_data[h]] = h /\ ~Closing(s_data[h])
    <3>1. PICK o \in Objects : socket[o] = h
      BY <2>1, <2>3 DEF Owned
    <3>2. s_data[h] = o /\ ~Closing(o)
      BY <2>1, <3>1, ObjectsAssumption DEF Attached
    <3> QED
      BY <3>1, <3>2
  <2>4. ~overlap' => app.at # "attaching"
    BY <2>1
  <2> QED
    BY <2>1, <2>2, <2>3, <2>4 DEF Serving, Closing, Raced
<1>6. Whole'
  BY DEF Whole
<1>7. SoundWithoutRaces'
  BY DEF SoundWithoutRaces
<1> QED
  BY <1>1, <1>2, <1>3, <1>4, <1>5, <1>6, <1>7

(* What a handler serves that nothing overlapped.                          *)
LEMMA Served ==
  ASSUME IInv, InHandler, ~Raced
  PROVE  /\ irq.handle \in Handles /\ state[irq.handle] # "closed"
         /\ Self \in alive /\ socket[Self] = irq.handle
BY ObjectsAssumption DEF IInv, Serving, Owned

(* A handler stumbles when its handle was dropped or something overlapped. *)
LEMMA StumbleStep ==
  ASSUME IInv, Raced, NEW what, Stumbles(what),
         what \in {"deleted_handle", "no_object", "torn_callback"},
         UNCHANGED <<objects, handles, app, history, overlap>>
  PROVE  IInv'
<1> USE DEF IInv, Stumbles, objects, handles, history
<1>1. TypeOK'
  <2>1. fault' \in {"none", "deleted_handle", "no_object", "torn_callback"}
    OBVIOUS
  <2> QED
    BY <2>1 DEF TypeOK
<1>2. (Places /\ Owned)'
  BY DEF Places, Owned
<1>3. Attached'
  BY DEF Attached, Closing
<1>4. Serving'
  BY DEF Serving, InHandler, Raced
<1>5. Whole' /\ SoundWithoutRaces'
  BY DEF Whole, SoundWithoutRaces, Raced
<1> QED
  BY <1>1, <1>2, <1>3, <1>4, <1>5

(* The handler loads s->data, which is the owner of its handle.            *)
LEMMA HandlerDataStep == ASSUME IInv, fault = "none", handler_data PROVE IInv'
<1> USE DEF IInv
<1>0. irq.at = "tested"
  BY DEF handler_data
<1>1. CASE state[irq.handle] = "closed" \/ s_data[irq.handle] \notin alive
  <2>1. Raced
    BY <1>0, <1>1, Served DEF InHandler, Self
  <2>2. /\ Stumbles("deleted_handle") \/ Stumbles("no_object")
        /\ UNCHANGED <<objects, handles, app, history, overlap>>
    BY <1>1 DEF handler_data
  <2> QED
    BY <2>1, <2>2, StumbleStep
<1>2. CASE state[irq.handle] # "closed" /\ s_data[irq.handle] \in alive
  <2>1. /\ irq' = [at |-> "thunk", handle |-> irq.handle, self |-> s_data[irq.handle]]
        /\ UNCHANGED <<objects, handles, app, history, overlap, fault>>
    BY <1>2 DEF handler_data
  <2> USE <2>1 DEF objects, handles, history
  <2>2. irq' \in [at : {"idle", "tested", "thunk", "call"}, handle : Handles \cup {NULL},
                  self : Objects \cup {NULL}]
    BY <1>2 DEF TypeOK
  <2>3. TypeOK'
    BY <2>2 DEF TypeOK
  <2>4. (Places /\ Owned)'
    BY DEF Places, Owned
  <2>5. Attached'
    BY DEF Attached, Closing
  <2>6. Serving'
    BY <1>0 DEF Serving, Closing, InHandler, Self, Raced
  <2>7. Whole' /\ SoundWithoutRaces'
    BY DEF Whole, SoundWithoutRaces
  <2> QED
    BY <2>3, <2>4, <2>5, <2>6, <2>7
<1> QED
  BY <1>1, <1>2

(* A handler ends.                                                         *)
LEMMA EndStep ==
  ASSUME IInv, fault = "none", irq' = NoHandler,
         UNCHANGED <<objects, handles, app, history, overlap, fault>>
  PROVE  IInv'
<1> USE DEF IInv, objects, handles, history
<1>1. TypeOK'
  BY DEF TypeOK, NoHandler
<1>2. (Places /\ Owned)'
  BY DEF Places, Owned
<1>3. Attached'
  BY DEF Attached, Closing
<1>4. Serving'
  BY DEF Serving, InHandler, NoHandler
<1>5. Whole' /\ SoundWithoutRaces'
  BY DEF Whole, SoundWithoutRaces
<1> QED
  BY <1>1, <1>2, <1>3, <1>4, <1>5

(* thunk finds its object, and calls only a callback that is there.        *)
LEMMA ThunkStep == ASSUME IInv, fault = "none", thunk PROVE IInv'
<1> USE DEF IInv
<1>0. irq.at = "thunk"
  BY DEF thunk
<1>1. CASE irq.self \notin alive
  <2>1. Raced
    BY <1>0, <1>1, Served DEF InHandler, Self
  <2>2. Stumbles("no_object") /\ UNCHANGED <<objects, handles, app, history, overlap>>
    BY <1>1 DEF thunk
  <2> QED
    BY <2>1, <2>2, StumbleStep
<1>2. CASE irq.self \in alive /\ has_callback(irq.self)
  <2>1. /\ irq' = [irq EXCEPT !.at = "call"]
        /\ UNCHANGED <<objects, handles, app, history, overlap, fault>>
    BY <1>2 DEF thunk
  <2> USE <2>1 DEF objects, handles, history
  <2>2. irq' = [at |-> "call", handle |-> irq.handle, self |-> irq.self]
    BY DEF TypeOK
  <2>3. TypeOK'
    BY <2>2 DEF TypeOK
  <2>4. (Places /\ Owned)'
    BY DEF Places, Owned
  <2>5. Attached'
    BY DEF Attached, Closing
  <2>6. Serving'
    BY <1>0, <1>2, <2>2 DEF Serving, Closing, InHandler, Self, has_callback, Raced
  <2>7. Whole' /\ SoundWithoutRaces'
    BY DEF Whole, SoundWithoutRaces
  <2> QED
    BY <2>3, <2>4, <2>5, <2>6, <2>7
<1>3. CASE irq.self \in alive /\ ~has_callback(irq.self)
  <2>1. irq' = NoHandler /\ UNCHANGED <<objects, handles, app, history, overlap, fault>>
    BY <1>3 DEF thunk
  <2> QED
    BY <2>1, EndStep
<1> QED
  BY <1>1, <1>2, <1>3

(* The callback that is called is whole.                                   *)
LEMMA CallStep == ASSUME IInv, fault = "none", call PROVE IInv'
<1> USE DEF IInv
<1>0. irq.at = "call"
  BY DEF call
<1>1. CASE irq.self \notin alive
  <2>1. Raced
    BY <1>0, <1>1, Served DEF InHandler, Self
  <2>2. Stumbles("no_object") /\ UNCHANGED <<objects, handles, app, history, overlap>>
    BY <1>1 DEF call
  <2> QED
    BY <2>1, <2>2, StumbleStep
<1>2. CASE irq.self \in alive /\ ~(\E f \in Callbacks : callback[irq.self] = Words(f))
  <2>1. ASSUME ~Raced PROVE FALSE
    <3>1. irq.self \in Objects /\ app.at # "attaching" /\ has_callback(irq.self)
      BY <1>0, <2>1 DEF Serving, InHandler, Self
    <3>2. PICK f \in Callbacks \cup {NULL} : callback[irq.self] = Words(f)
      BY <3>1 DEF Whole
    <3>3. ASSUME f = NULL PROVE FALSE
      <4>1. callback[irq.self] = <<NULL, NULL>>
        BY <3>2, <3>3 DEF Words, NoWords
      <4>2. callback[irq.self][1] = NULL
        BY <4>1
      <4> QED
        BY <3>1, <4>2 DEF has_callback
    <3> QED
      BY <1>2, <3>2, <3>3
  <2>2. Stumbles("torn_callback") /\ UNCHANGED <<objects, handles, app, history, overlap>>
    BY <1>2 DEF call
  <2> QED
    BY <2>1, <2>2, StumbleStep
<1>3. CASE irq.self \in alive /\ \E f \in Callbacks : callback[irq.self] = Words(f)
  <2>1. irq' = NoHandler /\ UNCHANGED <<objects, handles, app, history, overlap, fault>>
    BY <1>3 DEF call
  <2> QED
    BY <2>1, EndStep
<1> QED
  BY <1>1, <1>2, <1>3

(* Every step preserves the invariant.                                     *)
LEMMA StepIInv == IInv /\ [Next]_vars => IInv'
<1> SUFFICES ASSUME IInv, [Next]_vars PROVE IInv'
  OBVIOUS
<1>1. CASE UNCHANGED vars
  <2> USE <1>1 DEF vars, objects, handles, history, IInv
  <2>0. TypeOK'
    BY DEF TypeOK
  <2>1. (Places /\ Owned)'
    BY DEF Places, Owned
  <2>2. (Attached /\ Serving)'
    BY DEF Attached, Serving, Closing, Self, InHandler, has_callback, Raced
  <2>3. (Whole /\ SoundWithoutRaces)'
    BY DEF Whole, SoundWithoutRaces
  <2> QED
    BY <2>0, <2>1, <2>2, <2>3
<1> QED
  BY <1>1, ConstructStep, OpenStep, BindStep, CloseStep, CloseDataStep, CloseHandleStep,
     DestroyStep, DestroyedStep, AttachStep, AttachRestStep, AcceptStep, AcceptAskStep,
     HandlerStep, HandlerDataStep, ThunkStep, CallStep DEF Next, Running

(* The invariant holds in every reachable state.                            *)
LEMMA Invariance == Spec => []IInv
BY InitIInv, StepIInv, PTL DEF Spec

-----------------------------------------------------------------------------
(* Objects, handles and threads keep their types (Socket, TCPServer).       *)
THEOREM TypeCorrect == Spec => []TypeOK
<1>1. IInv => TypeOK
  BY DEF IInv
<1> QED
  BY <1>1, Invariance, PTL

(* A handler that nothing overlapped finds its object and its callback,     *)
(* unless a second open dropped the handle (~Socket, close, thunk).         *)
THEOREM SoundWithoutRacesHolds == Spec => []SoundWithoutRaces
<1>1. IInv => SoundWithoutRaces
  BY DEF IInv
<1> QED
  BY <1>1, Invariance, PTL

(* Such a handler serves the object its handle belongs to (Socket::close,   *)
(* TCPServer::accept).                                                     *)
THEOREM HandlerServesItsOwnerHolds == Spec => []HandlerServesItsOwner
<1>1. IInv => HandlerServesItsOwner
  <2> SUFFICES ASSUME IInv, InHandler, ~Raced
               PROVE  Self # NULL /\ socket[Self] = irq.handle
    BY DEF HandlerServesItsOwner, Self, Raced
  <2> QED
    BY ObjectsAssumption DEF IInv, Serving
<1> QED
  BY <1>1, Invariance, PTL

(* A handle that is not closed has one owner, but for those that a second   *)
(* open dropped (Socket::open, TCPServer::accept, ~Socket).                 *)
THEOREM HandlesHaveOneOwnerHolds == Spec => []HandlesHaveOneOwner
<1>1. ASSUME IInv, NEW h \in Handles, state[h] # "closed", h \notin leaked
      PROVE  \E o \in alive : Owners(h) = {o}
  <2>1. h # NULL
    BY ObjectsAssumption
  <2>2. PICK o \in Objects : socket[o] = h
    BY <1>1 DEF IInv, Owned
  <2>3. alive \subseteq Objects
    BY <1>1 DEF IInv, TypeOK
  <2>4. o \in alive /\ \A p \in alive : socket[p] = h => p = o
    BY <1>1, <2>1, <2>2, <2>3 DEF IInv, Owned
  <2>5. Owners(h) = {o}
    BY <2>2, <2>4 DEF Owners
  <2> QED
    BY <2>4, <2>5
<1>2. IInv => HandlesHaveOneOwner
  BY <1>1 DEF HandlesHaveOneOwner
<1> QED
  BY <1>2, Invariance, PTL

(* The stack's events on a handle that open made reach the object until it  *)
(* is closed (Socket::open, Socket::close).                                 *)
THEOREM EventsReachTheObjectHolds == Spec => []EventsReachTheObject
<1>1. IInv => EventsReachTheObject
  <2> SUFFICES ASSUME IInv, NEW o \in alive, socket[o] \notin accepted \cup {NULL},
                      ~(app.obj = o /\ app.at \in {"detached", "closing"})
               PROVE  s_callback[socket[o]] = "thunk" /\ s_data[socket[o]] = o
    BY DEF EventsReachTheObject
  <2>1. o \in Objects
    BY DEF IInv, TypeOK
  <2> QED
    BY <2>1 DEF IInv, Attached, Closing
<1> QED
  BY <1>1, Invariance, PTL
=============================================================================
