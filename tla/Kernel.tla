------------------------------- MODULE Kernel -------------------------------
(***************************************************************************)
(* The event dispatcher of PacketMachine: Kernel and HandlerEntity of      *)
(* kernel.cc, and the Handler objects of packetmachine.cc through which an *)
(* application manages its callbacks while packets are being decoded.      *)
(*                                                                         *)
(* Two threads work on the handler tables: the application's thread, which *)
(* calls on(), activate(), deactivate(), destroy(), start() and join(),    *)
(* and the kernel thread, which dispatches events, runs the callbacks (a   *)
(* callback may use the Handler objects too) and drains the queue of       *)
(* change requests.  running_ decides whether a call changes the tables    *)
(* itself or queues a request, and is tested before the call acts on it.   *)
(*                                                                         *)
(* The packet channel is reduced to its outcome (a packet or nullptr, see  *)
(* RingBuffer) and the request queue to a sequence, with has_msg() its     *)
(* being non-empty (see MsgQueue).  The event sequence of a packet is any  *)
(* sequence: Decoder::decode chooses it.                                   *)
(***************************************************************************)
EXTENDS Integers, Sequences

CONSTANTS Events,        \* event ids that handlers register for
          MaxHandlers,   \* bound: calls of on()
          MaxPkts,       \* bound: packets pulled
          MaxEvents,     \* bound: events of a packet
          MaxMsgs        \* bound: requests in the queue

ASSUME EventsAssumption == Events # {}
ASSUME BoundsAssumption ==
  MaxHandlers \in Nat /\ MaxPkts \in Nat /\ MaxEvents \in Nat /\ MaxMsgs \in Nat

VARIABLES
  handlers,     \* handlers_: event -> vector of handlers
  handler_map,  \* handler_map_: the ids it has an entry for
  hdlr_id,      \* global_hdlr_id_
  ev_id,        \* ev_id_ of each HandlerEntity
  torn,         \* both threads have changed one vector at the same time
  active,       \* active_ of each HandlerEntity
  destroyed,    \* destroyed_ of each HandlerEntity
  running,      \* running_
  msgs,         \* msg_channel_
  kpc,          \* where the kernel thread is
  evs,          \* events of the packet still to be dispatched
  pos,          \* iterator of the range-for over handlers_[eid] ...
  last,         \* ... and its end, which the loop computes once
  cur,          \* the handler whose callback runs
  req,          \* the request being applied
  recv,         \* recv_pkt_
  main,         \* where the application is in the machine's life
  opc,          \* the Handler or on() call in progress in each thread ...
  oph,          \* ... and the handler it is about
  known,        \* handlers whose Handler object on() has returned
  limit,        \* history: the last packet in which a handler may still be
                \* called after its destroy() returned true; NoLimit before
  due           \* history: the last packet in which a handler may still be
                \* missing after its on() returned; NoLimit before

hvars == <<handlers, handler_map, hdlr_id, ev_id, torn>>
evars == <<active, destroyed>>
kvars == <<kpc, evs, pos, last, cur, req, recv>>
avars == <<main, known>>
ovars == <<opc, oph>>
histvars == <<limit, due>>
vars == <<hvars, evars, running, msgs, kvars, avars, ovars, histvars>>

Hid == 1 .. MaxHandlers
Threads == {"app", "kernel"}
NoLimit == -1
NoReq == [op |-> "none", h |-> 0]
Requests == [op : {"add", "delete"}, h : Hid]

Init ==
  /\ handlers = [e \in Events |-> <<>>]
  /\ handler_map = {}
  /\ hdlr_id = 0
  /\ ev_id = [h \in Hid |-> CHOOSE e \in Events : TRUE]
  /\ torn = FALSE
  /\ active = [h \in Hid |-> TRUE]
  /\ destroyed = [h \in Hid |-> FALSE]
  /\ running = FALSE
  /\ msgs = <<>>
  /\ kpc = "new"
  /\ evs = <<>>
  /\ pos = 1
  /\ last = 0
  /\ cur = 0
  /\ req = NoReq
  /\ recv = 0
  /\ main = "config"
  /\ opc = [t \in Threads |-> "idle"]
  /\ oph = [t \in Threads |-> 0]
  /\ known = {}
  /\ limit = [h \in Hid |-> NoLimit]
  /\ due = [h \in Hid |-> NoLimit]

Up == main # "crashed"

-----------------------------------------------------------------------------
(* The handler tables.                                                     *)

Positions(h) == {i \in DOMAIN handlers[ev_id[h]] : handlers[ev_id[h]][i] = h}

\* Mutant: push_back into a fixed vector instead of the handler's own.
AddToAnyVector(h) ==
  /\ handler_map' = handler_map \cup {h}
  /\ handlers' = [handlers EXCEPT ![CHOOSE e \in Events : TRUE] = Append(@, h)]

(* add_handler(): an entry in the map, and one at the end of the vector.   *)
(* If the other thread is changing the vector too, the entry may be lost.  *)
add_handler(h) ==
  /\ handler_map' = handler_map \cup {h}
  /\ \/ handlers' = [handlers EXCEPT ![ev_id[h]] = Append(@, h)]
     \/ torn' /\ UNCHANGED handlers

(* The vector of event e without entry at: those behind it move up.        *)
Without(e, at) ==
  [handlers EXCEPT ![e] =
     [i \in 1 .. Len(@) - 1 |-> IF i < at THEN @[i] ELSE @[i + 1]]]

(* The place at which std::find finds h.                                   *)
Found(h) == CHOOSE i \in Positions(h) : \A j \in Positions(h) : i <= j

\* Mutant: erases the entry behind the one that was found.
EraseOneFurther(h) == handlers' = Without(ev_id[h], Found(h) + 1)

(* erase() of what std::find has found.  If the other thread has changed   *)
(* the vector since, the iterator leads to some other entry, or to none.   *)
(* The entry in handler_map_ stays.                                        *)
EraseHandler(h) ==
  \/ ~torn' /\ handlers' = Without(ev_id[h], Found(h))
  \/ torn' /\ \/ UNCHANGED handlers
              \/ \E i \in DOMAIN handlers[ev_id[h]] :
                   handlers' = Without(ev_id[h], i)

-----------------------------------------------------------------------------
(* Calls an application makes: from its own thread, or from a callback.    *)

Ready(t) ==
  /\ Up
  /\ opc[t] = "idle"
  /\ IF t = "app" THEN main \in {"config", "running", "joined", "halted"}
                  ELSE kpc = "callback"

Call(t, op, h) ==
  /\ opc' = [opc EXCEPT ![t] = op]
  /\ oph' = [oph EXCEPT ![t] = h]

(* The call returns; a callback makes at most one call and then returns.   *)
Return(t) ==
  /\ opc' = [opc EXCEPT ![t] = "idle"]
  /\ oph' = [oph EXCEPT ![t] = 0]
  /\ kpc' = IF t = "kernel" THEN "return" ELSE kpc

(* The kernel thread is inside its loop over the vector of h's event.      *)
Iterating(h) ==
  /\ kpc \in {"dispatch", "call", "callback", "return"}
  /\ Head(evs) = ev_id[h]

(* Whether a direct change of h's vector leaves it torn.  It does when the *)
(* kernel thread, in delete_handler(), has an iterator into that vector;   *)
(* it may when that thread is in add_handler() or delete_handler() at all. *)
DirectTears(h) ==
  IF kpc \in {"change", "erase"} /\ ev_id[req.h] = ev_id[h]
  THEN IF kpc = "erase" THEN {TRUE} ELSE {torn, TRUE}
  ELSE {torn}

(* The application has an iterator into h's vector, in delete_handler().   *)
AppHasFound(h) ==
  opc["app"] \in {"delMark", "delErase"} /\ ev_id[oph["app"]] = ev_id[h]

(* The packet after which a request queued now is drained.                 *)
NextDrain == IF kpc = "pull" THEN recv + 1 ELSE recv

(* on(): a new id, a new active entity, and the test of running_ ...  (Two *)
(* threads at once may get the same id: only handler_map_ would know, and  *)
(* nobody looks anything up there.)                                        *)
On(t, e) ==
  /\ Ready(t)
  /\ hdlr_id < MaxHandlers
  /\ Len(msgs) < MaxMsgs
  /\ hdlr_id' = hdlr_id + 1
  /\ ev_id' = [ev_id EXCEPT ![hdlr_id + 1] = e]
  /\ Call(t, IF running THEN "addPush" ELSE "addDirect", hdlr_id + 1)
  /\ UNCHANGED <<handlers, handler_map, torn, evars, running, msgs, kvars,
                 avars, histvars>>

(* ... then either an AddHandler request ...                               *)
OnPush(t) ==
  /\ Up
  /\ opc[t] = "addPush"
  /\ msgs' = Append(msgs, [op |-> "add", h |-> oph[t]])
  /\ known' = known \cup {oph[t]}
  /\ due' = [due EXCEPT ![oph[t]] = NextDrain]
  /\ Return(t)
  /\ UNCHANGED <<hvars, evars, running, evs, pos, last, cur, req, recv, main,
                 limit>>

(* ... or a change of the tables.  If the kernel thread has come up since  *)
(* the test and is in its loop over this very vector, push_back may have   *)
(* moved the entries away, and the rest of the loop finds null pointers.   *)
OnDirect ==
  /\ Up
  /\ opc["app"] = "addDirect"
  /\ torn' \in DirectTears(oph["app"])
  /\ add_handler(oph["app"])
  /\ pos' \in IF Iterating(oph["app"]) THEN {pos, last + 1} ELSE {pos}
  /\ known' = known \cup {oph["app"]}
  /\ Return("app")
  /\ UNCHANGED <<hdlr_id, ev_id, evars, running, msgs, evs, last, cur, req,
                 recv, main, histvars>>

(* HandlerEntity::activate(): the test of the two flags ...                *)
Activate(t, h) ==
  /\ Ready(t)
  /\ h \in known
  /\ ~destroyed[h] /\ ~active[h]
  /\ Call(t, "activate", h)
  /\ UNCHANGED <<hvars, evars, running, msgs, kvars, avars, histvars>>

(* ... and the store.                                                      *)
ActivateSet(t) ==
  /\ Up
  /\ opc[t] = "activate"
  /\ active' = [active EXCEPT ![oph[t]] = TRUE]
  /\ Return(t)
  /\ UNCHANGED <<hvars, destroyed, running, msgs, evs, pos, last, cur, req,
                 recv, avars, histvars>>

(* HandlerEntity::deactivate(), likewise.                                  *)
Deactivate(t, h) ==
  /\ Ready(t)
  /\ h \in known
  /\ ~destroyed[h] /\ active[h]
  /\ Call(t, "deactivate", h)
  /\ UNCHANGED <<hvars, evars, running, msgs, kvars, avars, histvars>>

DeactivateSet(t) ==
  /\ Up
  /\ opc[t] = "deactivate"
  /\ active' = [active EXCEPT ![oph[t]] = FALSE]
  /\ Return(t)
  /\ UNCHANGED <<hvars, destroyed, running, msgs, evs, pos, last, cur, req,
                 recv, avars, histvars>>

(* Handler::destroy() calls clear(ptr), which tests running_ ...           *)
Destroy(t, h) ==
  /\ Ready(t)
  /\ h \in known
  /\ Len(msgs) < MaxMsgs
  /\ Call(t, IF running THEN "delPush" ELSE "delDirect", h)
  /\ UNCHANGED <<hvars, evars, running, msgs, kvars, avars, histvars>>

(* ... then queues a DeleteHandler request and returns true ...            *)
DestroyPush(t) ==
  /\ Up
  /\ opc[t] = "delPush"
  /\ msgs' = Append(msgs, [op |-> "delete", h |-> oph[t]])
  /\ limit' = [limit EXCEPT ![oph[t]] = IF @ # NoLimit THEN @ ELSE NextDrain]
  /\ Return(t)
  /\ UNCHANGED <<hvars, evars, running, evs, pos, last, cur, req, recv, avars, due>>

(* ... or calls delete_handler() itself: false if the handler is not found *)
(* in its vector ...                                                       *)
FindNone ==
  /\ Up
  /\ opc["app"] = "delDirect"
  /\ Positions(oph["app"]) = {}
  /\ Return("app")
  /\ UNCHANGED <<hvars, evars, running, msgs, evs, pos, last, cur, req, recv,
                 avars, histvars>>

(* ... else HandlerEntity::destroy() clears active_ (unless it is          *)
(* destroyed already) ...                                                  *)
FindDirect ==
  /\ Up
  /\ opc["app"] = "delDirect"
  /\ Positions(oph["app"]) # {}
  /\ active' = [active EXCEPT ![oph["app"]] = IF destroyed[oph["app"]] THEN @ ELSE FALSE]
  /\ Call("app", "delMark", oph["app"])
  /\ UNCHANGED <<hvars, destroyed, running, msgs, kvars, avars, histvars>>

(* ... and sets destroyed_ ...                                             *)
MarkDirect ==
  /\ Up
  /\ opc["app"] = "delMark"
  /\ destroyed' = [destroyed EXCEPT ![oph["app"]] = TRUE]
  /\ Call("app", "delErase", oph["app"])
  /\ UNCHANGED <<hvars, active, running, msgs, kvars, avars, histvars>>

(* ... and the entry is erased.  If the kernel thread has come up since    *)
(* the test of running_, it may run callbacks, this one's too, between     *)
(* these steps.                                                            *)
EraseDirect ==
  /\ Up
  /\ opc["app"] = "delErase"
  /\ torn' \in DirectTears(oph["app"])
  /\ EraseHandler(oph["app"])
  /\ limit' = [limit EXCEPT ![oph["app"]] = IF @ # NoLimit THEN @ ELSE recv]
  /\ Return("app")
  /\ UNCHANGED <<handler_map, hdlr_id, ev_id, evars, running, msgs, evs, pos,
                 last, cur, req, recv, avars, due>>

(* A direct change of the tables while the kernel thread reads or changes  *)
(* them is a data race; besides taking effect, it may bring the process    *)
(* down.                                                                   *)
RaceCrash ==
  /\ Up
  /\ opc["app"] \in {"addDirect", "delDirect", "delMark", "delErase"}
  /\ kpc \in {"dispatch", "call", "callback", "return", "change", "erase"}
  /\ main' = "crashed"
  /\ UNCHANGED <<hvars, evars, running, msgs, kvars, known, ovars, histvars>>

(* Machine::start() creates the kernel thread; join() waits for its end.   *)
Start ==
  /\ Ready("app")
  /\ main = "config"
  /\ main' = "running"
  /\ kpc' = "boot"
  /\ UNCHANGED <<hvars, evars, running, msgs, evs, pos, last, cur, req, recv,
                 known, ovars, histvars>>

Join ==
  /\ Ready("app")
  /\ main = "running"
  /\ main' = "joining"
  /\ UNCHANGED <<hvars, evars, running, msgs, kvars, known, ovars, histvars>>

JoinReturn ==
  /\ main = "joining"
  /\ kpc = "done"
  /\ main' = "joined"
  /\ UNCHANGED <<hvars, evars, running, msgs, kvars, known, ovars, histvars>>

(* halt() cancels the kernel thread, which ends in the sleep of pull() or  *)
(* inside a callback: running_ stays set.                                  *)
Halt ==
  /\ Ready("app")
  /\ main = "running"
  /\ main' = "halting"
  /\ UNCHANGED <<hvars, evars, running, msgs, kvars, known, ovars, histvars>>

Cancelled ==
  /\ main = "halting"
  /\ kpc \in {"pull", "callback", "return"}
  /\ opc["kernel"] = "idle"
  /\ kpc' = "cancelled"
  /\ UNCHANGED <<hvars, evars, running, msgs, evs, pos, last, cur, req, recv,
                 avars, ovars, histvars>>

HaltReturn ==
  /\ main = "halting"
  /\ kpc \in {"done", "cancelled"}
  /\ main' = "halted"
  /\ UNCHANGED <<hvars, evars, running, msgs, kvars, known, ovars, histvars>>

-----------------------------------------------------------------------------
(* The kernel thread: Kernel::thread_main.                                 *)

Boot ==
  /\ Up
  /\ kpc = "boot"
  /\ running' = TRUE
  /\ kpc' = "pull"
  /\ UNCHANGED <<hvars, evars, msgs, evs, pos, last, cur, req, recv, avars,
                 ovars, histvars>>

(* pull() returns a packet, which is counted and decoded into its events.  *)
PullPkt ==
  /\ Up
  /\ kpc = "pull"
  /\ recv < MaxPkts
  /\ recv' = recv + 1
  /\ \E n \in 1 .. MaxEvents : evs' \in [1 .. n -> Events]
  /\ kpc' = "event"
  /\ UNCHANGED <<hvars, evars, running, msgs, pos, last, cur, req, avars,
                 ovars, histvars>>

(* pull() returns nullptr.                                                 *)
PullEnd ==
  /\ Up
  /\ kpc = "pull"
  /\ kpc' = "stop"
  /\ UNCHANGED <<hvars, evars, running, msgs, evs, pos, last, cur, req, recv,
                 avars, ovars, histvars>>

(* The loop over the packet's events: begin with the next one.             *)
BeginEvent ==
  /\ Up
  /\ kpc = "event"
  /\ evs # <<>>
  /\ pos' = 1
  /\ last' = Len(handlers[Head(evs)])
  /\ kpc' = "dispatch"
  /\ UNCHANGED <<hvars, evars, running, msgs, evs, cur, req, recv, avars,
                 ovars, histvars>>

EventsDone ==
  /\ Up
  /\ kpc = "event"
  /\ evs = <<>>
  /\ kpc' = "drain"
  /\ UNCHANGED <<hvars, evars, running, msgs, evs, pos, last, cur, req, recv,
                 avars, ovars, histvars>>

(* The loop over the event's handlers.  After an erase behind its back the *)
(* loop, whose end is fixed, meets a null pointer at the end.              *)
EndOfHandlers ==
  /\ Up
  /\ kpc = "dispatch"
  /\ pos > last
  /\ evs' = Tail(evs)
  /\ kpc' = "event"
  /\ UNCHANGED <<hvars, evars, running, msgs, pos, last, cur, req, recv, avars,
                 ovars, histvars>>

Callable ==
  /\ pos <= Len(handlers[Head(evs)])
  /\ active[handlers[Head(evs)][pos]]

SkipHandler ==
  /\ Up
  /\ kpc = "dispatch"
  /\ pos <= last
  /\ ~Callable
  /\ pos' = pos + 1
  /\ UNCHANGED <<hvars, evars, running, msgs, kpc, evs, last, cur, req, recv,
                 avars, ovars, histvars>>

(* The loop copies the entry, and is_active() is true ...                  *)
TestActive ==
  /\ Up
  /\ kpc = "dispatch"
  /\ pos <= last
  /\ Callable
  /\ cur' = handlers[Head(evs)][pos]
  /\ kpc' = "call"
  /\ UNCHANGED <<hvars, evars, running, msgs, evs, pos, last, req, recv, avars,
                 ovars, histvars>>

(* ... and then the callback is called, whatever has happened since.       *)
EnterCallback ==
  /\ Up
  /\ kpc = "call"
  /\ kpc' = "callback"
  /\ UNCHANGED <<hvars, evars, running, msgs, evs, pos, last, cur, req, recv,
                 avars, ovars, histvars>>

LeaveCallback ==
  /\ Up
  /\ kpc \in {"callback", "return"}
  /\ opc["kernel"] = "idle"
  /\ cur' = 0
  /\ pos' = pos + 1
  /\ kpc' = "dispatch"
  /\ UNCHANGED <<hvars, evars, running, msgs, evs, last, req, recv, avars,
                 ovars, histvars>>

(* while (has_msg()): pull the request ...                                 *)
TakeRequest ==
  /\ Up
  /\ kpc = "drain"
  /\ msgs # <<>>
  /\ req' = Head(msgs)
  /\ msgs' = Tail(msgs)
  /\ kpc' = "change"
  /\ UNCHANGED <<hvars, evars, running, evs, pos, last, cur, recv, avars,
                 ovars, histvars>>

\* Mutant: "if" for "while", requests may be left for a later packet.
DrainEarly ==
  /\ Up
  /\ kpc = "drain"
  /\ kpc' = "pull"
  /\ UNCHANGED <<hvars, evars, running, msgs, evs, pos, last, cur, req, recv,
                 avars, ovars, histvars>>

DrainDone ==
  /\ Up
  /\ kpc = "drain"
  /\ msgs = <<>>
  /\ kpc' = "pull"
  /\ UNCHANGED <<hvars, evars, running, msgs, evs, pos, last, cur, req, recv,
                 avars, ovars, histvars>>

(* ... and apply it.  AddHandler::change:                                  *)
ChangeAdd ==
  /\ Up
  /\ kpc = "change"
  /\ req.op = "add"
  /\ torn' = (torn \/ AppHasFound(req.h))
  /\ add_handler(req.h)
  /\ req' = NoReq
  /\ kpc' = "drain"
  /\ UNCHANGED <<hdlr_id, ev_id, evars, running, msgs, evs, pos, last, cur,
                 recv, avars, ovars, histvars>>

(* DeleteHandler::change: nothing to do if find() fails ...                *)
ChangeDeleteNone ==
  /\ Up
  /\ kpc = "change"
  /\ req.op = "delete"
  /\ Positions(req.h) = {}
  /\ req' = NoReq
  /\ kpc' = "drain"
  /\ UNCHANGED <<hvars, evars, running, msgs, evs, pos, last, cur, recv, avars,
                 ovars, histvars>>

(* ... else HandlerEntity::destroy() clears active_ (unless it is          *)
(* destroyed already) ...                                                  *)
ChangeDelete ==
  /\ Up
  /\ kpc = "change"
  /\ req.op = "delete"
  /\ Positions(req.h) # {}
  /\ active' = [active EXCEPT ![req.h] = IF destroyed[req.h] THEN @ ELSE FALSE]
  /\ kpc' = "erase"
  /\ UNCHANGED <<hvars, destroyed, running, msgs, evs, pos, last, cur, req,
                 recv, avars, ovars, histvars>>

\* Mutant: the handler is marked, but left in its vector.
ChangeMarkOnly ==
  /\ Up
  /\ kpc = "erase"
  /\ destroyed' = [destroyed EXCEPT ![req.h] = TRUE]
  /\ req' = NoReq
  /\ kpc' = "drain"
  /\ UNCHANGED <<hvars, active, running, msgs, evs, pos, last, cur, recv,
                 avars, ovars, histvars>>

(* ... sets destroyed_, and the entry is erased from the vector.           *)
ChangeErase ==
  /\ Up
  /\ kpc = "erase"
  /\ destroyed' = [destroyed EXCEPT ![req.h] = TRUE]
  /\ torn' = (torn \/ AppHasFound(req.h))
  /\ EraseHandler(req.h)
  /\ req' = NoReq
  /\ kpc' = "drain"
  /\ UNCHANGED <<handler_map, hdlr_id, ev_id, active, running, msgs, evs, pos,
                 last, cur, recv, avars, ovars, histvars>>

Stop ==
  /\ Up
  /\ kpc = "stop"
  /\ running' = FALSE
  /\ kpc' = "done"
  /\ UNCHANGED <<hvars, evars, msgs, evs, pos, last, cur, req, recv, avars,
                 ovars, histvars>>

-----------------------------------------------------------------------------
KernelThread ==
  \/ Boot \/ PullPkt \/ PullEnd \/ BeginEvent \/ EventsDone \/ EndOfHandlers
  \/ SkipHandler \/ TestActive \/ EnterCallback \/ LeaveCallback
  \/ TakeRequest \/ DrainDone \/ ChangeAdd \/ ChangeDeleteNone \/ ChangeDelete \/ ChangeErase \/ Stop

(* The calls that either thread can make.                                  *)
HandlerCall(t) ==
  \/ \E e \in Events : On(t, e)
  \/ OnPush(t)
  \/ \E h \in Hid : Activate(t, h) \/ Deactivate(t, h) \/ Destroy(t, h)
  \/ ActivateSet(t) \/ DeactivateSet(t) \/ DestroyPush(t)

AppOnly ==
  \/ OnDirect \/ FindNone \/ FindDirect \/ MarkDirect \/ EraseDirect \/ RaceCrash
  \/ Start \/ Join \/ JoinReturn \/ Halt \/ Cancelled \/ HaltReturn

Finished == main \in {"joined", "halted", "crashed"} /\ UNCHANGED vars

Next == KernelThread \/ (\E t \in Threads : HandlerCall(t)) \/ AppOnly \/ Finished

Spec == Init /\ [][Next]_vars

-----------------------------------------------------------------------------
(* Properties.                                                             *)

Vector(e) == {handlers[e][i] : i \in DOMAIN handlers[e]}

KernelPc == {"new", "boot", "pull", "event", "dispatch", "call", "callback",
             "return", "drain", "change", "erase", "stop", "done", "cancelled"}
OpPc == {"idle", "addPush", "addDirect", "activate", "deactivate", "delPush",
         "delDirect", "delMark", "delErase"}

(* Every variable keeps its type.                                          *)
TypeOK ==
  /\ handlers \in [Events -> Seq(Hid)]
  /\ handler_map \subseteq Hid
  /\ hdlr_id \in 0 .. MaxHandlers
  /\ ev_id \in [Hid -> Events]
  /\ torn \in BOOLEAN
  /\ active \in [Hid -> BOOLEAN]
  /\ destroyed \in [Hid -> BOOLEAN]
  /\ running \in BOOLEAN
  /\ msgs \in Seq(Requests)
  /\ kpc \in KernelPc
  /\ evs \in Seq(Events)
  /\ pos \in Nat
  /\ last \in Nat
  /\ cur \in Hid \cup {0}
  /\ req \in Requests \cup {NoReq}
  /\ recv \in Nat
  /\ main \in {"config", "running", "joining", "joined", "halting",
              "halted", "crashed"}
  /\ opc \in [Threads -> OpPc]
  /\ oph \in [Threads -> Hid \cup {0}]
  /\ known \subseteq Hid
  /\ limit \in [Hid -> Nat \cup {NoLimit}]
  /\ due \in [Hid -> Nat \cup {NoLimit}]

(* The handler is on its way into the tables.                              *)
AddInCall(h) ==
  \E t \in Threads : opc[t] \in {"addPush", "addDirect"} /\ oph[t] = h
AddQueued(h) == \E i \in DOMAIN msgs : msgs[i] = [op |-> "add", h |-> h]
AddInHand(h) == req = [op |-> "add", h |-> h]
Adding(h) == AddInCall(h) \/ AddQueued(h) \/ AddInHand(h)

Registered(h) == h \in Vector(ev_id[h])

(* The application is in delete_handler(h), before the erase.              *)
Leaving(h) == opc["app"] = "delErase" /\ oph["app"] = h

(* The following hold until both threads are in add_handler() or           *)
(* delete_handler() for the same vector at once, which can only happen     *)
(* when a call has tested running_ before the kernel thread set it.        *)

(* A request is carried out before the packet after the one being          *)
(* dispatched is pulled - or, if none was, the packet after the next: the  *)
(* queue is drained after every packet.  So a handler that was destroyed   *)
(* by then is marked and out of the tables, and one that on() has returned *)
(* is in its vector, or already destroyed.                                 *)
RequestsApplied ==
  ~torn => \A h \in Hid :
    /\ limit[h] # NoLimit /\ recv > limit[h] => destroyed[h] /\ ~Registered(h)
    /\ due[h] # NoLimit /\ recv > due[h] => Registered(h) \/ destroyed[h]

(* Each handler created is on its way into the tables, in the vector of    *)
(* its event, or destroyed; in the vector and destroyed it is only while   *)
(* delete_handler() is at work.                                            *)
InOnePlace ==
  \A h \in Hid :
    IF h > hdlr_id
    THEN ~Adding(h) /\ ~Registered(h) /\ ~destroyed[h]
    ELSE /\ Adding(h) => ~Registered(h) /\ ~destroyed[h]
         /\ Registered(h) /\ destroyed[h] => Leaving(h)
         /\ Adding(h) \/ Registered(h) \/ destroyed[h]

(* Each handler created is in exactly one place.  So none is lost, and     *)
(* none comes back, whatever calls are made in whatever order.             *)
OneHome == ~torn => InOnePlace

(* A handler is in one vector only, that of its event, and only once.      *)
EnteredOnce ==
  /\ \A e \in Events : \A i, j \in DOMAIN handlers[e] :
       handlers[e][i] = handlers[e][j] => i = j
  /\ \A e \in Events : \A h \in Vector(e) : ev_id[h] = e

(* No handler is entered twice: one event never runs a callback twice.     *)
NoDuplicates == ~torn => EnteredOnce

(* Once destroy() has returned true, the callback is started for no packet *)
(* beyond the one whose drain carries the request out - nor, if destroy()  *)
(* removed the handler itself, beyond the one under way: not even if a     *)
(* racing activate() has made the handler active again.  (Up to there it   *)
(* may be: is_active() is tested before the call, and in a start-up race   *)
(* an activate() between the stores of destroy() lets the callback run     *)
(* before the entry is erased.)                                            *)
NotCalledAfterDestroy ==
  [][kpc = "call" /\ kpc' = "callback" /\ ~torn
       => limit[cur] = NoLimit \/ recv <= limit[cur]]_vars

-----------------------------------------------------------------------------
(* Contradicted by the code.                                               *)

(* test/Handler.cc, clear_async: after start(), destroy(), join() the      *)
(* handler is no longer active.                                            *)
InactiveAfterJoin ==
  main = "joined" => \A h \in Hid : limit[h] # NoLimit => ~active[h]
=============================================================================
