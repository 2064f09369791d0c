---------------------------- MODULE KernelProofs ----------------------------
(***************************************************************************)
(* The dispatcher's invariant KernelInv, for every number of handlers,     *)
(* events, packets and requests, and what follows from it: no handler is   *)
(* lost, doubled, resurrected or called once its destroy() is due, and     *)
(* every request is carried out in time - until both threads change one    *)
(* vector at the same time, which a start-up race makes possible (torn).   *)
(***************************************************************************)
EXTENDS Kernel, SequenceTheorems, TLAPS

-----------------------------------------------------------------------------
(* The inductive invariant behind the properties of Kernel.                *)

(* Calls are about handlers that exist: on() about one whose Handler it    *)
(* has not returned yet, the others about one whose Handler is known.      *)
CallsTyped ==
  /\ known \subseteq 1 .. hdlr_id
  /\ \A t \in Threads : opc[t] # "idle" =>
       /\ oph[t] \in 1 .. hdlr_id
       /\ opc[t] \in {"addPush", "addDirect"} <=> oph[t] \notin known

(* The kernel thread is created by start(), and nothing is queued before   *)
(* it has set running_; it makes calls only inside callbacks, and          *)
(* dispatches only an event it has.                                        *)
KernelPlace ==
  /\ opc["kernel"] # "idle" => kpc = "callback"
  /\ main = "config" => kpc = "new"
  /\ kpc \in {"new", "boot"} =>
       ~running /\ msgs = <<>> /\ opc["app"] \notin {"addPush", "delPush"}
  /\ kpc \in {"dispatch", "call", "callback", "return"} => evs # <<>>
  /\ pos >= 1

(* A request in hand, and all in the queue, are about known handlers.      *)
RequestsKnown ==
  /\ IF kpc \in {"change", "erase"} THEN req \in Requests /\ req.h \in known
     ELSE req = NoReq
  /\ kpc = "erase" => req.op = "delete"
  /\ \A i \in DOMAIN msgs : msgs[i].h \in known

(* A handler is on its way into the tables at most once ...                *)
AddOnce ==
  /\ \A t, u \in Threads :
       /\ opc[t] \in {"addPush", "addDirect"} /\ opc[u] \in {"addPush", "addDirect"}
       /\ oph[t] = oph[u]
       => t = u
  /\ \A i, j \in DOMAIN msgs : msgs[i].op = "add" /\ msgs[i] = msgs[j] => i = j
  /\ req.op = "add" => \A i \in DOMAIN msgs : msgs[i] # req

(* ... and gets there before any request to remove it.                     *)
DeleteAfterAdd ==
  /\ \A i, j \in DOMAIN msgs :
       msgs[i].op = "add" /\ msgs[j].op = "delete" /\ msgs[i].h = msgs[j].h => i < j
  /\ req.op = "delete" => \A i \in DOMAIN msgs : msgs[i] # [op |-> "add", h |-> req.h]

DeletePending(h) ==
  \/ \E i \in DOMAIN msgs : msgs[i] = [op |-> "delete", h |-> h]
  \/ req = [op |-> "delete", h |-> h]

(* A request that is not carried out yet is still there, and the drain it  *)
(* is due at is still to come.                                             *)
OnTime ==
  \A h \in Hid :
    /\ limit[h] # NoLimit => \/ destroyed[h] /\ ~Registered(h)
                             \/ DeletePending(h) /\ NextDrain <= limit[h]
    /\ due[h] # NoLimit =>
         h \in known /\ (Registered(h) \/ destroyed[h] \/ NextDrain <= due[h])

(* Between find and erase of delete_handler(), in either thread, the entry *)
(* that was found is in place.                                             *)
FoundInPlace ==
  /\ kpc = "erase" => Registered(req.h)
  /\ opc["app"] \in {"delMark", "delErase"} => Registered(oph["app"])
  /\ opc["app"] = "delErase" => destroyed[oph["app"]]

(* Between is_active() and the call the handler may be destroyed, but not  *)
(* before the packet under way.                                            *)
CallInTime ==
  kpc = "call" => cur \in Hid /\ (limit[cur] = NoLimit \/ recv <= limit[cur])

(* All of this until both threads change one vector at the same time.      *)
KernelInv ==
  /\ ~torn
  /\ TypeOK /\ CallsTyped /\ KernelPlace /\ RequestsKnown /\ AddOnce
  /\ DeleteAfterAdd /\ InOnePlace /\ EnteredOnce /\ OnTime
  /\ FoundInPlace /\ CallInTime

-----------------------------------------------------------------------------
AddOps == {"addPush", "addDirect"}

-----------------------------------------------------------------------------
(* The operators of the handler tables.                                    *)

(* A vector is a sequence of handlers, indexed from 1.                     *)
LEMMA VectorType ==
  ASSUME TypeOK, NEW e \in Events
  PROVE  /\ handlers[e] \in Seq(Hid)
         /\ DOMAIN handlers[e] = 1 .. Len(handlers[e])
         /\ Vector(e) \subseteq Hid
<1>1. handlers[e] \in Seq(Hid)
  BY DEF TypeOK
<1>2. DOMAIN handlers[e] = 1 .. Len(handlers[e])
  BY <1>1
<1>3. \A i \in 1 .. Len(handlers[e]) : handlers[e][i] \in Hid
  BY <1>1
<1> QED
  BY <1>1, <1>2, <1>3 DEF Vector

(* std::find fails exactly for a handler that is not in its vector.        *)
LEMMA FindIsRegistered ==
  ASSUME NEW h \in Hid
  PROVE  Positions(h) = {} <=> ~Registered(h)
BY DEF Positions, Registered, Vector

(* add_handler() of a handler that is not in its vector: the vector gains  *)
(* exactly it, the others stay, and no entry is doubled.                   *)
LEMMA AddedToVector ==
  ASSUME TypeOK, EnteredOnce, NEW h \in Hid, ~Registered(h), add_handler(h),
         ev_id' = ev_id, ~torn'
  PROVE  /\ handlers' \in [Events -> Seq(Hid)]
         /\ EnteredOnce'
         /\ \A g \in Hid : Registered(g)' <=> Registered(g) \/ g = h
<1> DEFINE e == ev_id[h]
           n == Len(handlers[e])
<1>1. e \in Events /\ handlers \in [Events -> Seq(Hid)]
  BY DEF TypeOK
<1>2. handlers[e] \in Seq(Hid) /\ n \in Nat /\ DOMAIN handlers[e] = 1 .. n
  BY <1>1, VectorType
<1>3. handlers'[e] = Append(handlers[e], h)
      /\ \A d \in Events \ {e} : handlers'[d] = handlers[d]
  BY <1>1 DEF add_handler
<1>4. handlers' \in [Events -> Seq(Hid)]
  <2>1. Append(handlers[e], h) \in Seq(Hid)
    BY <1>2
  <2>2. handlers' = [handlers EXCEPT ![e] = Append(handlers[e], h)]
    BY DEF add_handler
  <2> HIDE DEF e
  <2> QED
    BY <1>1, <2>1, <2>2
<1>5. /\ DOMAIN handlers'[e] = 1 .. n + 1
      /\ handlers'[e][n + 1] = h
      /\ \A i \in 1 .. n : handlers'[e][i] = handlers[e][i]
  BY <1>2, <1>3
<1>6. Vector(e)' = Vector(e) \cup {h}
  <2> HIDE DEF n
  <2>1. 1 .. n + 1 = (1 .. n) \cup {n + 1}
    BY <1>2
  <2>2. Vector(e)' = {handlers'[e][i] : i \in 1 .. n + 1}
    BY <1>5 DEF Vector
  <2>3. Vector(e) = {handlers[e][i] : i \in 1 .. n}
    BY <1>2 DEF Vector
  <2> HIDE DEF e
  <2> QED
    BY <2>1, <2>2, <2>3, <1>5
<1>7. \A d \in Events \ {e} : Vector(d)' = Vector(d)
  BY <1>3 DEF Vector
<1>8. \A d \in Events : \A i, j \in DOMAIN handlers'[d] :
        handlers'[d][i] = handlers'[d][j] => i = j
  <2> TAKE d \in Events
  <2>1. CASE d # e
    BY <2>1, <1>3 DEF EnteredOnce
  <2>2. CASE d = e
    <3>1. \A i \in 1 .. n : handlers[e][i] # h
      BY <1>2 DEF Registered, Vector
    <3>2. \A i, j \in 1 .. n : handlers[e][i] = handlers[e][j] => i = j
      BY <1>1, <1>2 DEF EnteredOnce
    <3> HIDE DEF e, n
    <3> QED
      BY <2>2, <1>2, <1>5, <3>1, <3>2
  <2> QED
    BY <2>1, <2>2
<1>9. \A d \in Events : \A g \in Vector(d)' : ev_id[g] = d
  <2> TAKE d \in Events
  <2>1. \A g \in Vector(d) : ev_id[g] = d
    BY DEF EnteredOnce
  <2>2. CASE d # e
    BY <2>1, <2>2, <1>7
  <2>3. CASE d = e
    <3>1. Vector(d)' = Vector(d) \cup {h}
      BY <2>3, <1>6
    <3> QED
      BY <2>1, <2>3, <3>1
  <2> QED
    BY <2>2, <2>3
<1>10. EnteredOnce'
  BY <1>8, <1>9 DEF EnteredOnce
<1>11. \A g \in Hid : Registered(g)' <=> Registered(g) \/ g = h
  <2> TAKE g \in Hid
  <2>1. ev_id[g] \in Events
    BY DEF TypeOK
  <2>2. Registered(g)' <=> g \in Vector(ev_id[g])'
    BY DEF Registered, Vector
  <2> QED
    BY <2>1, <2>2, <1>6, <1>7 DEF Registered
<1> QED
  BY <1>4, <1>10, <1>11

(* A function on an initial segment of the naturals is a sequence.         *)
LEMMA FunctionIsSeq ==
  ASSUME NEW S, NEW m \in Nat, NEW f \in [1 .. m -> S]
  PROVE  f \in Seq(S)
OBVIOUS

(* find and erase of a handler that is in its vector: the vector loses     *)
(* exactly it, as it is there only once, and the others stay.              *)
LEMMA ErasedFromVector ==
  ASSUME TypeOK, EnteredOnce, NEW h \in Hid, Registered(h), EraseHandler(h),
         ev_id' = ev_id, ~torn'
  PROVE  /\ handlers' \in [Events -> Seq(Hid)]
         /\ EnteredOnce'
         /\ \A g \in Hid : Registered(g)' <=> Registered(g) /\ g # h
<1> DEFINE e == ev_id[h]
           n == Len(handlers[e])
           at == Found(h)
<1>1. e \in Events /\ handlers \in [Events -> Seq(Hid)]
  BY DEF TypeOK
<1>2. handlers[e] \in Seq(Hid) /\ n \in Nat /\ DOMAIN handlers[e] = 1 .. n
  BY <1>1, VectorType
<1>3. PICK k \in 1 .. n : handlers[e][k] = h
  BY <1>2 DEF Registered, Vector
<1>4. \A i, j \in 1 .. n : handlers[e][i] = handlers[e][j] => i = j
  BY <1>1, <1>2 DEF EnteredOnce
<1>5. Positions(h) = {k}
  <2>1. \A i \in 1 .. n : handlers[e][i] = h => i = k
    BY <1>3, <1>4
  <2> QED
    BY <1>2, <1>3, <2>1 DEF Positions
<1>6. at = k
  <2>1. k \in Positions(h) /\ \A j \in Positions(h) : k <= j
    BY <1>5, <1>2
  <2>2. at \in Positions(h)
    BY <2>1 DEF Found
  <2> QED
    BY <2>2, <1>5
<1>7. n - 1 \in Nat
  BY <1>2, <1>3
<1>8. handlers' = [handlers EXCEPT ![e] =
        [i \in 1 .. n - 1 |-> IF i < k THEN handlers[e][i] ELSE handlers[e][i + 1]]]
  BY <1>6 DEF EraseHandler, Without
<1> DEFINE new == [i \in 1 .. n - 1 |->
                     IF i < k THEN handlers[e][i] ELSE handlers[e][i + 1]]
<1>9. new \in Seq(Hid)
  <2>1. \A i \in 1 .. n - 1 : i \in 1 .. n /\ i + 1 \in 1 .. n
    BY <1>2
  <2>2. \A i \in 1 .. n : handlers[e][i] \in Hid
    BY <1>2
  <2>3. new \in [1 .. n - 1 -> Hid]
    BY <2>1, <2>2
  <2> HIDE DEF new, n
  <2> QED
    BY <2>3, <1>7, FunctionIsSeq
<1>10. handlers'[e] = new /\ \A d \in Events \ {e} : handlers'[d] = handlers[d]
  BY <1>1, <1>8
<1>11. handlers' \in [Events -> Seq(Hid)]
  BY <1>1, <1>8, <1>9
<1>12. DOMAIN handlers'[e] = 1 .. n - 1
  BY <1>10
<1> HIDE DEF n, at
<1>13. Vector(e)' = Vector(e) \ {h}
  <2>1. Vector(e)' = {new[i] : i \in 1 .. n - 1}
    BY <1>10 DEF Vector
  <2>2. Vector(e) = {handlers[e][i] : i \in 1 .. n}
    BY <1>2 DEF Vector
  <2>3. ASSUME NEW i \in 1 .. n - 1
        PROVE  \E j \in 1 .. n : j # k /\ new[i] = handlers[e][j]
    BY <1>2, <1>3
  <2>4. ASSUME NEW j \in 1 .. n, j # k
        PROVE  \E i \in 1 .. n - 1 : new[i] = handlers[e][j]
    <3>1. CASE j < k
      BY <3>1, <1>2, <1>3
    <3>2. CASE j > k
      <4>1. j - 1 \in 1 .. n - 1 /\ ~(j - 1 < k) /\ (j - 1) + 1 = j
        BY <3>2, <1>2, <1>3
      <4> QED
        BY <4>1
    <3> QED
      BY <3>1, <3>2, <2>4, <1>2
  <2> HIDE DEF new, e
  <2>5. \A j \in 1 .. n : handlers[e][j] = h <=> j = k
    BY <1>3, <1>4
  <2> QED
    BY <2>1, <2>2, <2>3, <2>4, <2>5
<1>14. \A d \in Events \ {e} : Vector(d)' = Vector(d)
  BY <1>10 DEF Vector
<1>15. \A d \in Events : \A i, j \in DOMAIN handlers'[d] :
        handlers'[d][i] = handlers'[d][j] => i = j
  <2> TAKE d \in Events
  <2>1. CASE d # e
    BY <2>1, <1>10 DEF EnteredOnce
  <2>2. CASE d = e
    <3>1. ASSUME NEW i \in 1 .. n - 1, NEW j \in 1 .. n - 1, new[i] = new[j]
          PROVE  i = j
      <4> DEFINE Old(m) == IF m < k THEN m ELSE m + 1
      <4>1. \A m \in 1 .. n - 1 : Old(m) \in 1 .. n /\ new[m] = handlers[e][Old(m)]
        BY <1>2, <1>3
      <4>2. Old(i) = Old(j)
        <5> HIDE DEF Old, new, e
        <5> QED
          BY <4>1, <1>4, <3>1
      <4> QED
        BY <4>2, <1>2, <1>3
    <3> QED
      BY <2>2, <3>1, <1>10, <1>12
  <2> QED
    BY <2>1, <2>2
<1>16. \A d \in Events : \A g \in Vector(d)' : ev_id[g] = d
  BY <1>13, <1>14, <1>1 DEF EnteredOnce
<1>17. EnteredOnce'
  BY <1>15, <1>16 DEF EnteredOnce
<1>18. \A g \in Hid : Registered(g)' <=> Registered(g) /\ g # h
  <2> TAKE g \in Hid
  <2>1. ev_id[g] \in Events
    BY DEF TypeOK
  <2>2. Registered(g)' <=> g \in Vector(ev_id[g])'
    BY DEF Registered, Vector
  <2>3. CASE ev_id[g] = e
    <3>1. Vector(ev_id[g])' = Vector(ev_id[g]) \ {h}
      BY <2>3, <1>13
    <3> QED
      BY <3>1, <2>2 DEF Registered
  <2>4. CASE ev_id[g] # e
    <3>1. Vector(ev_id[g])' = Vector(ev_id[g])
      BY <2>1, <2>4, <1>14
    <3> QED
      BY <2>4, <3>1, <2>2 DEF Registered
  <2> QED
    BY <2>3, <2>4
<1> QED
  BY <1>11, <1>17, <1>18

-----------------------------------------------------------------------------
(* Steps that leave the tables, the requests and the history alone.        *)

(* What such a step leaves unchanged: an on() in progress stays one, and   *)
(* so does a delete_handler() about to erase.                              *)
Quiet ==
  /\ UNCHANGED <<handlers, ev_id, hdlr_id, torn, destroyed, msgs, req, known,
                 limit, due>>
  /\ \A t \in Threads : /\ opc'[t] \in AddOps <=> opc[t] \in AddOps
                        /\ opc[t] \in AddOps => oph'[t] = oph[t]
  /\ opc'["app"] = "delErase" <=> opc["app"] = "delErase"
  /\ opc["app"] = "delErase" => oph'["app"] = oph["app"]

(* No find of delete_handler() has succeeded.                              *)
NoneFound ==
  /\ kpc' = "erase" => kpc = "erase"
  /\ opc'["app"] = "delMark" => opc["app"] = "delMark" /\ oph'["app"] = oph["app"]

(* No is_active() has been true.                                           *)
NoneTested == kpc' = "call" => kpc = "call" /\ cur' = cur /\ recv' = recv

Finding == {"delMark", "delErase"}

(* What delete_handler() has found stays in place if it is not the one     *)
(* that leaves its vector.                                                 *)
LEMMA StaysInPlace ==
  ASSUME KernelInv,
         kpc' = "erase" => kpc = "erase" /\ req' = req,
         opc'["app"] \in Finding =>
           opc'["app"] = opc["app"] /\ oph'["app"] = oph["app"],
         \A g \in Hid :
           \/ kpc' = "erase" /\ g = req.h
           \/ opc'["app"] \in Finding /\ g = oph["app"]
           => /\ Registered(g) => Registered(g)'
              /\ destroyed[g] => destroyed'[g]
  PROVE  FoundInPlace'
<1>1. FoundInPlace /\ TypeOK /\ CallsTyped /\ RequestsKnown
  BY DEF KernelInv
<1>2. ASSUME kpc' = "erase" PROVE Registered(req.h)'
  <2>1. PICK g \in Hid : g = req.h /\ g = req'.h
    BY <1>1, <1>2 DEF RequestsKnown, TypeOK
  <2>2. Registered(g)
    BY <1>1, <1>2, <2>1 DEF FoundInPlace
  <2>3. Registered(g)'
    BY <1>2, <2>1, <2>2
  <2> QED
    BY <2>1, <2>3 DEF Registered, Vector
<1>3. ASSUME opc'["app"] \in Finding
      PROVE  /\ Registered(oph["app"])'
             /\ opc'["app"] = "delErase" => destroyed'[oph'["app"]]
  <2>1. oph["app"] \in Hid
    BY <1>1, <1>3, BoundsAssumption
       DEF Finding, CallsTyped, TypeOK, Threads, Hid
  <2>2. PICK g \in Hid : g = oph["app"] /\ g = oph'["app"]
    BY <1>3, <2>1
  <2>3. Registered(g) /\ (opc["app"] = "delErase" => destroyed[g])
    BY <1>1, <1>3, <2>2 DEF FoundInPlace, Finding
  <2>4. Registered(g)' /\ (opc["app"] = "delErase" => destroyed'[g])
    BY <1>3, <2>2, <2>3
  <2>5. Registered(oph["app"])'
    BY <2>2, <2>4 DEF Registered, Vector
  <2> QED
    BY <1>3, <2>2, <2>4, <2>5
<1> QED
  BY <1>2, <1>3 DEF FoundInPlace, Finding

(* A quiet step keeps every part of the invariant that is about where a    *)
(* handler is, and what is on time stays so unless the next drain moves    *)
(* away.                                                                   *)
LEMMA QuietKeeps ==
  ASSUME KernelInv, Quiet
  PROVE  /\ ~torn' /\ AddOnce' /\ DeleteAfterAdd' /\ InOnePlace' /\ EnteredOnce'
         /\ recv' \in Nat /\ NextDrain' <= NextDrain => OnTime'
         /\ NoneFound => FoundInPlace'
         /\ NoneTested => CallInTime'
<1>1. AddOnce /\ DeleteAfterAdd /\ InOnePlace /\ EnteredOnce /\ OnTime
      /\ FoundInPlace /\ CallInTime
  BY DEF KernelInv
<1>2. \A h \in Hid : /\ Registered(h)' <=> Registered(h)
                     /\ DeletePending(h)' <=> DeletePending(h)
  BY DEF Quiet, Registered, Vector, DeletePending
<1>3. \A h \in Hid : Adding(h)' <=> Adding(h)
  <2> TAKE h \in Hid
  <2>1. AddInCall(h)' <=> AddInCall(h)
    BY DEF Quiet, AddInCall, AddOps
  <2>2. AddQueued(h)' <=> AddQueued(h)
    BY DEF Quiet, AddQueued
  <2>3. AddInHand(h)' <=> AddInHand(h)
    BY DEF Quiet, AddInHand
  <2> QED
    BY <2>1, <2>2, <2>3 DEF Adding
<1>4. AddOnce'
  BY <1>1 DEF AddOnce, Quiet, AddOps
<1>5. DeleteAfterAdd'
  BY <1>1 DEF DeleteAfterAdd, Quiet
<1>6. InOnePlace'
  <2>1. \A h \in Hid : Leaving(h)' <=> Leaving(h)
    BY DEF Quiet, Leaving
  <2>2. hdlr_id' = hdlr_id /\ destroyed' = destroyed
    BY DEF Quiet
  <2> QED
    BY <1>1, <1>2, <1>3, <2>1, <2>2 DEF InOnePlace
<1>7. ~torn' /\ EnteredOnce'
  BY <1>1 DEF EnteredOnce, Quiet, Vector, KernelInv
<1>8. recv' \in Nat => NextDrain \in Nat /\ NextDrain' \in Nat
  <2>1. recv \in Nat
    BY DEF KernelInv, TypeOK
  <2>2. NextDrain = recv \/ NextDrain = recv + 1
    BY DEF NextDrain
  <2>3. NextDrain' = recv' \/ NextDrain' = recv' + 1
    BY DEF NextDrain
  <2> QED
    BY <2>1, <2>2, <2>3
<1>9. recv' \in Nat /\ NextDrain' <= NextDrain => OnTime'
  <2> HAVE recv' \in Nat /\ NextDrain' <= NextDrain
  <2>1. NextDrain \in Nat /\ NextDrain' \in Nat
    BY <1>8
  <2>2. \A h \in Hid : /\ limit[h] \in Int /\ limit'[h] = limit[h]
                       /\ due[h] \in Int /\ due'[h] = due[h]
    BY DEF KernelInv, TypeOK, NoLimit, Quiet
  <2>3. known' = known /\ \A h \in Hid : destroyed'[h] = destroyed[h]
    BY DEF Quiet
  <2> QED
    BY <1>1, <1>2, <2>1, <2>2, <2>3 DEF OnTime
<1>10. NoneFound => FoundInPlace'
  <2> HAVE NoneFound
  <2>1. /\ kpc' = "erase" => kpc = "erase" /\ req' = req
        /\ opc'["app"] \in Finding =>
             opc'["app"] = opc["app"] /\ oph'["app"] = oph["app"]
    BY DEF Quiet, NoneFound, Finding
  <2>2. destroyed' = destroyed
    BY DEF Quiet
  <2> QED
    BY <1>2, <2>1, <2>2, StaysInPlace
<1>11. NoneTested => CallInTime'
  BY <1>1 DEF CallInTime, NoneTested, Quiet
<1> QED
  BY <1>4, <1>5, <1>6, <1>7, <1>9, <1>10, <1>11

(* A step that is none of these at all.                                    *)
Calm == Quiet /\ NoneFound /\ NoneTested

LEMMA CalmKeeps ==
  ASSUME KernelInv, Calm, NextDrain' <= NextDrain,
         TypeOK', CallsTyped', KernelPlace', RequestsKnown'
  PROVE  KernelInv'
<1>1. recv' \in Nat
  BY DEF TypeOK
<1> QED
  BY <1>1, QuietKeeps DEF KernelInv, Calm

(* With no request pending, all that are due have been carried out.        *)
LEMMA NonePending ==
  ASSUME KernelInv, msgs = <<>>, req = NoReq, NEW h \in Hid
  PROVE  /\ limit[h] # NoLimit => destroyed[h] /\ ~Registered(h)
         /\ due[h] # NoLimit => h \in known /\ (Registered(h) \/ destroyed[h])
<1>1. ~DeletePending(h) /\ ~AddQueued(h) /\ ~AddInHand(h)
  BY DEF DeletePending, AddQueued, AddInHand, NoReq
<1>2. limit[h] # NoLimit => destroyed[h] /\ ~Registered(h)
  BY <1>1 DEF KernelInv, OnTime
<1>3. ASSUME due[h] # NoLimit
      PROVE  h \in known /\ (Registered(h) \/ destroyed[h])
  <2>1. h \in known
    BY <1>3 DEF KernelInv, OnTime
  <2>2. ~AddInCall(h) /\ h <= hdlr_id
    BY <2>1 DEF KernelInv, CallsTyped, AddInCall, TypeOK
  <2>3. ~Adding(h)
    BY <1>1, <2>2 DEF Adding
  <2> QED
    BY <2>1, <2>2, <2>3 DEF KernelInv, InOnePlace, TypeOK, Hid
<1> QED
  BY <1>2, <1>3

(* The steps after which the next packet is pulled: the queue is empty.    *)
LEMMA PullKeepsInv ==
  ASSUME KernelInv, Boot \/ DrainDone
  PROVE  KernelInv'
<1>t. TypeOK /\ CallsTyped /\ KernelPlace /\ RequestsKnown
  BY DEF KernelInv
<1> USE DEF hvars, evars, kvars, avars, ovars, histvars
<1>1. msgs = <<>> /\ req = NoReq
  BY <1>t DEF Boot, DrainDone, KernelPlace, RequestsKnown
<1>2. Quiet /\ NoneFound /\ NoneTested
  BY DEF Boot, DrainDone, Quiet, NoneFound, NoneTested, AddOps
<1>3. TypeOK'
  BY <1>t DEF Boot, DrainDone, TypeOK, KernelPc
<1>4. CallsTyped' /\ KernelPlace' /\ RequestsKnown'
  BY <1>t DEF Boot, DrainDone, CallsTyped, KernelPlace, RequestsKnown
<1>5. OnTime'
  <2>1. \A h \in Hid : Registered(h)' <=> Registered(h)
    BY <1>2 DEF Quiet, Registered, Vector
  <2> QED
    BY <1>1, <1>2, <2>1, NonePending DEF OnTime, Quiet
<1> QED
  BY <1>2, <1>3, <1>4, <1>5, QuietKeeps DEF KernelInv

(* The other steps of the kernel thread that change no table.              *)
LEMMA LoopKeepsInv ==
  ASSUME KernelInv,
         \/ PullPkt \/ PullEnd \/ BeginEvent \/ EventsDone \/ EndOfHandlers
         \/ SkipHandler \/ EnterCallback \/ LeaveCallback \/ Stop
  PROVE  KernelInv'
<1>t. TypeOK /\ CallsTyped /\ KernelPlace /\ RequestsKnown
  BY DEF KernelInv
<1> USE DEF hvars, evars, kvars, avars, ovars, histvars
<1>1. CASE PullPkt
  <2>1. Calm
    BY <1>1, <1>t DEF PullPkt, Calm, Quiet, NoneFound, NoneTested, AddOps, Threads
  <2>2. TypeOK'
    BY <1>1, <1>t DEF PullPkt, TypeOK, KernelPc, OpPc
  <2>3. CallsTyped' /\ KernelPlace' /\ RequestsKnown'
    BY <1>1, <1>t DEF PullPkt, CallsTyped, KernelPlace, RequestsKnown
  <2>4. NextDrain' <= NextDrain
    BY <1>1, <1>t DEF PullPkt, NextDrain, TypeOK
  <2> QED
    BY <2>1, <2>2, <2>3, <2>4, CalmKeeps
<1>2. CASE PullEnd
  <2>1. Calm
    BY <1>2, <1>t DEF PullEnd, Calm, Quiet, NoneFound, NoneTested, AddOps, Threads
  <2>2. TypeOK'
    BY <1>2, <1>t DEF PullEnd, TypeOK, KernelPc, OpPc
  <2>3. CallsTyped' /\ KernelPlace' /\ RequestsKnown'
    BY <1>2, <1>t DEF PullEnd, CallsTyped, KernelPlace, RequestsKnown
  <2>4. NextDrain' <= NextDrain
    BY <1>2, <1>t DEF PullEnd, NextDrain, TypeOK
  <2> QED
    BY <2>1, <2>2, <2>3, <2>4, CalmKeeps
<1>3. CASE BeginEvent
  <2>1. Calm
    BY <1>3, <1>t DEF BeginEvent, Calm, Quiet, NoneFound, NoneTested, AddOps, Threads
  <2>2. TypeOK'
    BY <1>3, <1>t DEF BeginEvent, TypeOK, KernelPc, OpPc
  <2>3. CallsTyped' /\ KernelPlace' /\ RequestsKnown'
    BY <1>3, <1>t DEF BeginEvent, CallsTyped, KernelPlace, RequestsKnown
  <2>4. NextDrain' <= NextDrain
    BY <1>3, <1>t DEF BeginEvent, NextDrain, TypeOK
  <2> QED
    BY <2>1, <2>2, <2>3, <2>4, CalmKeeps
<1>4. CASE EventsDone
  <2>1. Calm
    BY <1>4, <1>t DEF EventsDone, Calm, Quiet, NoneFound, NoneTested, AddOps, Threads
  <2>2. TypeOK'
    BY <1>4, <1>t DEF EventsDone, TypeOK, KernelPc, OpPc
  <2>3. CallsTyped' /\ KernelPlace' /\ RequestsKnown'
    BY <1>4, <1>t DEF EventsDone, CallsTyped, KernelPlace, RequestsKnown
  <2>4. NextDrain' <= NextDrain
    BY <1>4, <1>t DEF EventsDone, NextDrain, TypeOK
  <2> QED
    BY <2>1, <2>2, <2>3, <2>4, CalmKeeps
<1>5. CASE EndOfHandlers
  <2>1. Calm
    BY <1>5, <1>t DEF EndOfHandlers, Calm, Quiet, NoneFound, NoneTested, AddOps, Threads
  <2>2. TypeOK'
    <3>1. Tail(evs) \in Seq(Events)
      BY <1>5, <1>t DEF EndOfHandlers, KernelPlace, TypeOK
    <3> QED
      BY <3>1, <1>5, <1>t DEF EndOfHandlers, TypeOK, KernelPc
  <2>3. CallsTyped' /\ KernelPlace' /\ RequestsKnown'
    BY <1>5, <1>t DEF EndOfHandlers, CallsTyped, KernelPlace, RequestsKnown
  <2>4. NextDrain' <= NextDrain
    BY <1>5, <1>t DEF EndOfHandlers, NextDrain, TypeOK
  <2> QED
    BY <2>1, <2>2, <2>3, <2>4, CalmKeeps
<1>6. CASE SkipHandler
  <2>1. Calm
    BY <1>6, <1>t DEF SkipHandler, Calm, Quiet, NoneFound, NoneTested, AddOps, Threads
  <2>2. TypeOK'
    BY <1>6, <1>t DEF SkipHandler, TypeOK, KernelPc, OpPc
  <2>3. CallsTyped' /\ KernelPlace' /\ RequestsKnown'
    BY <1>6, <1>t DEF SkipHandler, CallsTyped, KernelPlace, RequestsKnown,
       TypeOK
  <2>4. NextDrain' <= NextDrain
    BY <1>6, <1>t DEF SkipHandler, NextDrain, TypeOK
  <2> QED
    BY <2>1, <2>2, <2>3, <2>4, CalmKeeps
<1>7. CASE EnterCallback
  <2>1. Calm
    BY <1>7, <1>t DEF EnterCallback, Calm, Quiet, NoneFound, NoneTested, AddOps, Threads
  <2>2. TypeOK'
    BY <1>7, <1>t DEF EnterCallback, TypeOK, KernelPc, OpPc
  <2>3. CallsTyped' /\ KernelPlace' /\ RequestsKnown'
    BY <1>7, <1>t DEF EnterCallback, CallsTyped, KernelPlace, RequestsKnown
  <2>4. NextDrain' <= NextDrain
    BY <1>7, <1>t DEF EnterCallback, NextDrain, TypeOK
  <2> QED
    BY <2>1, <2>2, <2>3, <2>4, CalmKeeps
<1>8. CASE LeaveCallback
  <2>1. Calm
    BY <1>8, <1>t DEF LeaveCallback, Calm, Quiet, NoneFound, NoneTested, AddOps, Threads
  <2>2. TypeOK'
    BY <1>8, <1>t DEF LeaveCallback, TypeOK, KernelPc, OpPc
  <2>3. CallsTyped' /\ KernelPlace' /\ RequestsKnown'
    BY <1>8, <1>t DEF LeaveCallback, CallsTyped, KernelPlace, RequestsKnown,
       TypeOK
  <2>4. NextDrain' <= NextDrain
    BY <1>8, <1>t DEF LeaveCallback, NextDrain, TypeOK
  <2> QED
    BY <2>1, <2>2, <2>3, <2>4, CalmKeeps
<1>9. CASE Stop
  <2>1. Calm
    BY <1>9, <1>t DEF Stop, Calm, Quiet, NoneFound, NoneTested, AddOps, Threads
  <2>2. TypeOK'
    BY <1>9, <1>t DEF Stop, TypeOK, KernelPc, OpPc
  <2>3. CallsTyped' /\ KernelPlace' /\ RequestsKnown'
    BY <1>9, <1>t DEF Stop, CallsTyped, KernelPlace, RequestsKnown
  <2>4. NextDrain' <= NextDrain
    BY <1>9, <1>t DEF Stop, NextDrain, TypeOK
  <2> QED
    BY <2>1, <2>2, <2>3, <2>4, CalmKeeps
<1> QED
  BY <1>1, <1>2, <1>3, <1>4, <1>5, <1>6, <1>7, <1>8, <1>9

(* The entry that the loop reads is in its vector, so that a request to    *)
(* destroy the handler has not been due yet.                               *)
LEMMA TestActiveKeepsInv ==
  ASSUME KernelInv, TestActive
  PROVE  KernelInv'
<1>t. TypeOK /\ CallsTyped /\ KernelPlace /\ RequestsKnown
  BY DEF KernelInv
<1> USE DEF hvars, evars, kvars, avars, ovars, histvars
<1> DEFINE e == Head(evs)
           h == handlers[e][pos]
<1>1. e \in Events
  BY <1>t DEF TestActive, KernelPlace, TypeOK
<1>2. pos \in DOMAIN handlers[e]
  BY <1>t, <1>1, VectorType DEF TestActive, Callable, KernelPlace, TypeOK
<1>3. h \in Vector(e) /\ Vector(e) \subseteq Hid
  BY <1>t, <1>1, <1>2, VectorType DEF Vector
<1>4. h \in Hid /\ Registered(h)
  BY <1>1, <1>3 DEF KernelInv, EnteredOnce, Registered
<1>5. limit[h] = NoLimit \/ NextDrain <= limit[h]
  BY <1>4 DEF KernelInv, OnTime
<1>6. NextDrain = recv
  BY DEF TestActive, NextDrain
<1>7. cur' = h /\ recv' = recv /\ limit' = limit /\ kpc' = "call"
  BY DEF TestActive
<1>8. CallInTime'
  BY <1>4, <1>5, <1>6, <1>7 DEF CallInTime
<1>9. TypeOK'
  BY <1>t, <1>4, <1>7 DEF TestActive, TypeOK, KernelPc
<1>10. CallsTyped' /\ KernelPlace' /\ RequestsKnown'
  BY <1>t DEF TestActive, CallsTyped, KernelPlace, RequestsKnown
<1>11. Quiet /\ NoneFound
  BY DEF TestActive, Quiet, NoneFound, AddOps
<1>12. NextDrain' <= NextDrain /\ recv' \in Nat
  BY <1>t DEF TestActive, NextDrain, TypeOK
<1> QED
  BY <1>8, <1>9, <1>10, <1>11, <1>12, QuietKeeps DEF KernelInv

(* delete_handler() has found the handler in its vector and clears its     *)
(* active_: in the kernel thread ...                                       *)
LEMMA ChangeDeleteKeepsInv ==
  ASSUME KernelInv, ChangeDelete
  PROVE  KernelInv'
<1>t. TypeOK /\ CallsTyped /\ KernelPlace /\ RequestsKnown
  BY DEF KernelInv
<1> USE DEF hvars, evars, kvars, avars, ovars, histvars
<1>1. Quiet /\ NoneTested
  BY DEF ChangeDelete, Quiet, NoneTested, AddOps
<1>2. TypeOK'
  BY <1>t DEF ChangeDelete, TypeOK, KernelPc, OpPc
<1>3. CallsTyped' /\ KernelPlace' /\ RequestsKnown'
  BY <1>t DEF ChangeDelete, CallsTyped, KernelPlace, RequestsKnown
<1>4. NextDrain' <= NextDrain /\ recv' \in Nat
  BY <1>t DEF ChangeDelete, NextDrain, TypeOK
<1>5. FoundInPlace'
  <2>1. req.h \in Hid
    BY <1>t DEF ChangeDelete, RequestsKnown, TypeOK
  <2>2. Registered(req.h)
    BY <2>1, FindIsRegistered DEF ChangeDelete
  <2>3. \A h : Registered(h)' <=> Registered(h)
    BY DEF ChangeDelete, Registered, Vector
  <2> QED
    BY <2>2, <2>3 DEF ChangeDelete, KernelInv, FoundInPlace
<1> QED
  BY <1>1, <1>2, <1>3, <1>4, <1>5, QuietKeeps DEF KernelInv

(* ... and in the application's.                                           *)
LEMMA FindDirectKeepsInv ==
  ASSUME KernelInv, FindDirect
  PROVE  KernelInv'
<1> DEFINE h == oph["app"]
<1>t. TypeOK /\ CallsTyped /\ KernelPlace /\ RequestsKnown
  BY DEF KernelInv
<1> USE DEF hvars, evars, kvars, avars, ovars, histvars
<1>1. opc["app"] = "delDirect" /\ h \in Hid /\ h \in known
  <2>1. opc["app"] = "delDirect"
    BY DEF FindDirect
  <2>2. h \in known
    BY <1>t, <2>1 DEF CallsTyped, Threads
  <2> QED
    BY <1>t, <2>1, <2>2 DEF TypeOK
<1>2. /\ opc' \in [Threads -> OpPc] /\ oph' \in [Threads -> Hid \cup {0}]
      /\ opc'["app"] = "delMark" /\ oph'["app"] = h
      /\ \A u \in Threads \ {"app"} : opc'[u] = opc[u] /\ oph'[u] = oph[u]
  BY <1>t, <1>1 DEF FindDirect, Call, TypeOK, OpPc, Threads
<1>3. Quiet /\ NoneTested
  BY <1>1, <1>2 DEF FindDirect, Quiet, NoneTested, AddOps
<1>4. TypeOK'
  BY <1>t, <1>2 DEF FindDirect, TypeOK
<1>5. CallsTyped'
  BY <1>t, <1>1, <1>2 DEF FindDirect, CallsTyped
<1>6. KernelPlace' /\ RequestsKnown'
  BY <1>t, <1>2 DEF FindDirect, KernelPlace, RequestsKnown, Threads
<1>7. NextDrain' <= NextDrain /\ recv' \in Nat
  BY <1>t DEF FindDirect, NextDrain, TypeOK
<1>8. FoundInPlace'
  <2>1. Registered(h)
    BY <1>1, FindIsRegistered DEF FindDirect
  <2>2. \A g : Registered(g)' <=> Registered(g)
    BY DEF FindDirect, Registered, Vector
  <2> QED
    BY <1>2, <2>1, <2>2 DEF FindDirect, KernelInv, FoundInPlace
<1> QED
  BY <1>3, <1>4, <1>5, <1>6, <1>7, <1>8, QuietKeeps DEF KernelInv

(* A find that fails changes nothing.                                      *)
LEMMA FindNoneKeepsInv ==
  ASSUME KernelInv, FindNone
  PROVE  KernelInv'
<1>t. TypeOK /\ CallsTyped /\ KernelPlace /\ RequestsKnown
  BY DEF KernelInv
<1> USE DEF hvars, evars, kvars, avars, ovars, histvars
<1>1. opc["app"] = "delDirect"
  BY DEF FindNone
<1>2. /\ opc' \in [Threads -> OpPc] /\ oph' \in [Threads -> Hid \cup {0}]
      /\ opc'["app"] = "idle" /\ kpc' = kpc
      /\ \A u \in Threads \ {"app"} : opc'[u] = opc[u] /\ oph'[u] = oph[u]
  BY <1>t DEF FindNone, Return, TypeOK, OpPc, Threads
<1>3. Calm
  BY <1>1, <1>2 DEF FindNone, Calm, Quiet, NoneFound, NoneTested, AddOps
<1>4. TypeOK'
  BY <1>t, <1>2 DEF FindNone, TypeOK
<1>5. CallsTyped' /\ KernelPlace' /\ RequestsKnown'
  BY <1>t, <1>2 DEF FindNone, CallsTyped, KernelPlace, RequestsKnown, Threads
<1>6. NextDrain' <= NextDrain
  BY <1>t, <1>2 DEF FindNone, NextDrain, TypeOK
<1> QED
  BY <1>3, <1>4, <1>5, <1>6, CalmKeeps

(* The life of the machine: start(), join(), halt(), and a racing crash.   *)
LEMMA LifeKeepsInv ==
  ASSUME KernelInv,
         \/ RaceCrash \/ Start \/ Join \/ JoinReturn \/ Halt
         \/ Cancelled \/ HaltReturn
  PROVE  KernelInv'
<1>t. TypeOK /\ CallsTyped /\ KernelPlace /\ RequestsKnown
  BY DEF KernelInv
<1> USE DEF hvars, evars, kvars, avars, ovars, histvars
<1>1. CASE RaceCrash
  <2>1. Calm
    BY <1>1, <1>t DEF RaceCrash, Calm, Quiet, NoneFound, NoneTested, AddOps, Threads
  <2>2. TypeOK'
    BY <1>1, <1>t DEF RaceCrash, TypeOK, KernelPc, OpPc
  <2>3. CallsTyped' /\ KernelPlace' /\ RequestsKnown'
    BY <1>1, <1>t DEF RaceCrash, CallsTyped, KernelPlace, RequestsKnown
  <2>4. NextDrain' <= NextDrain
    BY <1>1, <1>t DEF RaceCrash, NextDrain, TypeOK
  <2> QED
    BY <2>1, <2>2, <2>3, <2>4, CalmKeeps
<1>2. CASE Start
  <2>1. Calm
    BY <1>2, <1>t DEF Start, Calm, Quiet, NoneFound, NoneTested, AddOps, Threads
  <2>2. TypeOK'
    BY <1>2, <1>t DEF Start, TypeOK, KernelPc, OpPc
  <2>3. CallsTyped' /\ KernelPlace' /\ RequestsKnown'
    BY <1>2, <1>t DEF Start, CallsTyped, KernelPlace, RequestsKnown, Ready
  <2>4. NextDrain' <= NextDrain
    BY <1>2, <1>t DEF Start, NextDrain, TypeOK
  <2> QED
    BY <2>1, <2>2, <2>3, <2>4, CalmKeeps
<1>3. CASE Join
  <2>1. Calm
    BY <1>3, <1>t DEF Join, Calm, Quiet, NoneFound, NoneTested, AddOps, Threads
  <2>2. TypeOK'
    BY <1>3, <1>t DEF Join, TypeOK, KernelPc, OpPc
  <2>3. CallsTyped' /\ KernelPlace' /\ RequestsKnown'
    BY <1>3, <1>t DEF Join, CallsTyped, KernelPlace, RequestsKnown
  <2>4. NextDrain' <= NextDrain
    BY <1>3, <1>t DEF Join, NextDrain, TypeOK
  <2> QED
    BY <2>1, <2>2, <2>3, <2>4, CalmKeeps
<1>4. CASE JoinReturn
  <2>1. Calm
    BY <1>4, <1>t DEF JoinReturn, Calm, Quiet, NoneFound, NoneTested, AddOps, Threads
  <2>2. TypeOK'
    BY <1>4, <1>t DEF JoinReturn, TypeOK, KernelPc, OpPc
  <2>3. CallsTyped' /\ KernelPlace' /\ RequestsKnown'
    BY <1>4, <1>t DEF JoinReturn, CallsTyped, KernelPlace, RequestsKnown
  <2>4. NextDrain' <= NextDrain
    BY <1>4, <1>t DEF JoinReturn, NextDrain, TypeOK
  <2> QED
    BY <2>1, <2>2, <2>3, <2>4, CalmKeeps
<1>5. CASE Halt
  <2>1. Calm
    BY <1>5, <1>t DEF Halt, Calm, Quiet, NoneFound, NoneTested, AddOps, Threads
  <2>2. TypeOK'
    BY <1>5, <1>t DEF Halt, TypeOK, KernelPc, OpPc
  <2>3. CallsTyped' /\ KernelPlace' /\ RequestsKnown'
    BY <1>5, <1>t DEF Halt, CallsTyped, KernelPlace, RequestsKnown
  <2>4. NextDrain' <= NextDrain
    BY <1>5, <1>t DEF Halt, NextDrain, TypeOK
  <2> QED
    BY <2>1, <2>2, <2>3, <2>4, CalmKeeps
<1>6. CASE Cancelled
  <2>1. Calm
    BY <1>6, <1>t DEF Cancelled, Calm, Quiet, NoneFound, NoneTested, AddOps, Threads
  <2>2. TypeOK'
    BY <1>6, <1>t DEF Cancelled, TypeOK, KernelPc, OpPc
  <2>3. CallsTyped' /\ KernelPlace' /\ RequestsKnown'
    BY <1>6, <1>t DEF Cancelled, CallsTyped, KernelPlace, RequestsKnown
  <2>4. NextDrain' <= NextDrain
    BY <1>6, <1>t DEF Cancelled, NextDrain, TypeOK
  <2> QED
    BY <2>1, <2>2, <2>3, <2>4, CalmKeeps
<1>7. CASE HaltReturn
  <2>1. Calm
    BY <1>7, <1>t DEF HaltReturn, Calm, Quiet, NoneFound, NoneTested, AddOps, Threads
  <2>2. TypeOK'
    BY <1>7, <1>t DEF HaltReturn, TypeOK, KernelPc, OpPc
  <2>3. CallsTyped' /\ KernelPlace' /\ RequestsKnown'
    BY <1>7, <1>t DEF HaltReturn, CallsTyped, KernelPlace, RequestsKnown
  <2>4. NextDrain' <= NextDrain
    BY <1>7, <1>t DEF HaltReturn, NextDrain, TypeOK
  <2> QED
    BY <2>1, <2>2, <2>3, <2>4, CalmKeeps
<1> QED
  BY <1>1, <1>2, <1>3, <1>4, <1>5, <1>6, <1>7

(* The calls that touch only the flag active_, and the first half of       *)
(* destroy().                                                              *)
LEMMA FlagsKeepInv ==
  ASSUME KernelInv, NEW t \in Threads, NEW h \in Hid,
         \/ Activate(t, h) \/ Deactivate(t, h) \/ Destroy(t, h)
         \/ ActivateSet(t) \/ DeactivateSet(t)
  PROVE  KernelInv'
<1>t. TypeOK /\ CallsTyped /\ KernelPlace /\ RequestsKnown
  BY DEF KernelInv
<1> USE DEF hvars, evars, kvars, avars, ovars, histvars
<1>1. CASE Activate(t, h)
  <2>1. Calm
    BY <1>1, <1>t DEF Activate, Ready, Call, Return, Calm, Quiet, NoneFound, NoneTested, AddOps, Threads
  <2>2. TypeOK'
    BY <1>1, <1>t DEF Activate, Ready, Call, Return, TypeOK, KernelPc, OpPc
  <2>3. CallsTyped'
    BY <1>1, <1>t DEF Activate, Ready, Call, Return, CallsTyped, TypeOK
  <2>4. KernelPlace'
    BY <1>1, <1>t DEF Activate, Ready, Call, Return, KernelPlace, TypeOK,
       Threads
  <2>5. RequestsKnown'
    BY <1>1, <1>t DEF Activate, Ready, Call, Return, RequestsKnown,
       KernelPlace, TypeOK, Threads
  <2>6. NextDrain' <= NextDrain
    BY <1>1, <1>t DEF Activate, Ready, Call, Return, NextDrain, TypeOK
  <2> QED
    BY <2>1, <2>2, <2>3, <2>4, <2>5, <2>6, CalmKeeps
<1>2. CASE Deactivate(t, h)
  <2>1. Calm
    BY <1>2, <1>t DEF Deactivate, Ready, Call, Return, Calm, Quiet, NoneFound, NoneTested, AddOps, Threads
  <2>2. TypeOK'
    BY <1>2, <1>t DEF Deactivate, Ready, Call, Return, TypeOK, KernelPc,
       OpPc
  <2>3. CallsTyped'
    BY <1>2, <1>t DEF Deactivate, Ready, Call, Return, CallsTyped, TypeOK
  <2>4. KernelPlace'
    BY <1>2, <1>t DEF Deactivate, Ready, Call, Return, KernelPlace, TypeOK,
       Threads
  <2>5. RequestsKnown'
    BY <1>2, <1>t DEF Deactivate, Ready, Call, Return, RequestsKnown,
       KernelPlace, TypeOK, Threads
  <2>6. NextDrain' <= NextDrain
    BY <1>2, <1>t DEF Deactivate, Ready, Call, Return, NextDrain, TypeOK
  <2> QED
    BY <2>1, <2>2, <2>3, <2>4, <2>5, <2>6, CalmKeeps
<1>3. CASE Destroy(t, h)
  <2>1. Calm
    BY <1>3, <1>t DEF Destroy, Ready, Call, Return, Calm, Quiet, NoneFound, NoneTested, AddOps, Threads
  <2>2. TypeOK'
    BY <1>3, <1>t DEF Destroy, Ready, Call, Return, TypeOK, KernelPc, OpPc
  <2>3. CallsTyped'
    BY <1>3, <1>t DEF Destroy, Ready, Call, Return, CallsTyped, TypeOK
  <2>4. KernelPlace'
    BY <1>3, <1>t DEF Destroy, Ready, Call, Return, KernelPlace, TypeOK,
       Threads
  <2>5. RequestsKnown'
    BY <1>3, <1>t DEF Destroy, Ready, Call, Return, RequestsKnown,
       KernelPlace, TypeOK, Threads
  <2>6. NextDrain' <= NextDrain
    BY <1>3, <1>t DEF Destroy, Ready, Call, Return, NextDrain, TypeOK
  <2> QED
    BY <2>1, <2>2, <2>3, <2>4, <2>5, <2>6, CalmKeeps
<1>4. CASE ActivateSet(t)
  <2>1. Calm
    BY <1>4, <1>t DEF ActivateSet, Ready, Call, Return, Calm, Quiet, NoneFound, NoneTested, AddOps, Threads
  <2>2. TypeOK'
    BY <1>4, <1>t DEF ActivateSet, Ready, Call, Return, TypeOK, KernelPc,
       OpPc
  <2>3. CallsTyped'
    BY <1>4, <1>t DEF ActivateSet, Ready, Call, Return, CallsTyped, TypeOK
  <2>4. KernelPlace'
    BY <1>4, <1>t DEF ActivateSet, Ready, Call, Return, KernelPlace, TypeOK,
       Threads
  <2>5. RequestsKnown'
    BY <1>4, <1>t DEF ActivateSet, Ready, Call, Return, RequestsKnown,
       KernelPlace, TypeOK, Threads
  <2>6. NextDrain' <= NextDrain
    BY <1>4, <1>t DEF ActivateSet, Ready, Call, Return, NextDrain, TypeOK
  <2> QED
    BY <2>1, <2>2, <2>3, <2>4, <2>5, <2>6, CalmKeeps
<1>5. CASE DeactivateSet(t)
  <2>1. Calm
    BY <1>5, <1>t DEF DeactivateSet, Ready, Call, Return, Calm, Quiet, NoneFound, NoneTested, AddOps, Threads
  <2>2. TypeOK'
    BY <1>5, <1>t DEF DeactivateSet, Ready, Call, Return, TypeOK, KernelPc,
       OpPc
  <2>3. CallsTyped'
    BY <1>5, <1>t DEF DeactivateSet, Ready, Call, Return, CallsTyped, TypeOK
  <2>4. KernelPlace'
    BY <1>5, <1>t DEF DeactivateSet, Ready, Call, Return, KernelPlace,
       TypeOK, Threads
  <2>5. RequestsKnown'
    BY <1>5, <1>t DEF DeactivateSet, Ready, Call, Return, RequestsKnown,
       KernelPlace, TypeOK, Threads
  <2>6. NextDrain' <= NextDrain
    BY <1>5, <1>t DEF DeactivateSet, Ready, Call, Return, NextDrain, TypeOK
  <2> QED
    BY <2>1, <2>2, <2>3, <2>4, <2>5, <2>6, CalmKeeps
<1> QED
  BY <1>1, <1>2, <1>3, <1>4, <1>5

-----------------------------------------------------------------------------
(* Steps that move a handler.                                              *)

(* push(): the queue holds what it held, and the new request at its end.   *)
LEMMA Pushed ==
  ASSUME TypeOK, NEW r \in Requests, msgs' = Append(msgs, r)
  PROVE  /\ msgs' \in Seq(Requests)
         /\ Len(msgs) \in Nat
         /\ DOMAIN msgs = 1 .. Len(msgs)
         /\ DOMAIN msgs' = 1 .. Len(msgs) + 1
         /\ msgs'[Len(msgs) + 1] = r
         /\ \A i \in 1 .. Len(msgs) : msgs'[i] = msgs[i]
         /\ \A q : (\E i \in DOMAIN msgs' : msgs'[i] = q)
                    <=> (\E i \in DOMAIN msgs : msgs[i] = q) \/ q = r
<1>1. msgs \in Seq(Requests)
  BY DEF TypeOK
<1>2. /\ msgs' \in Seq(Requests)
      /\ Len(msgs) \in Nat
      /\ DOMAIN msgs = 1 .. Len(msgs)
      /\ DOMAIN msgs' = 1 .. Len(msgs) + 1
      /\ msgs'[Len(msgs) + 1] = r
      /\ \A i \in 1 .. Len(msgs) : msgs'[i] = msgs[i]
  BY <1>1
<1>3. 1 .. Len(msgs) + 1 = (1 .. Len(msgs)) \cup {Len(msgs) + 1}
  BY <1>2
<1> QED
  BY <1>2, <1>3

(* pull(): the first request leaves the queue, the others move up.         *)
LEMMA Pulled ==
  ASSUME TypeOK, msgs # <<>>, msgs' = Tail(msgs)
  PROVE  /\ msgs' \in Seq(Requests)
         /\ Head(msgs) = msgs[1] /\ msgs[1] \in Requests
         /\ DOMAIN msgs = 1 .. Len(msgs) /\ 1 \in DOMAIN msgs
         /\ \A i \in DOMAIN msgs' : i + 1 \in DOMAIN msgs /\ msgs'[i] = msgs[i + 1]
         /\ \A q : (\E i \in DOMAIN msgs : msgs[i] = q)
                    <=> (\E i \in DOMAIN msgs' : msgs'[i] = q) \/ q = msgs[1]
<1>1. msgs \in Seq(Requests)
  BY DEF TypeOK
<1> DEFINE n == Len(msgs)
<1>2. n \in Nat /\ n > 0 /\ DOMAIN msgs = 1 .. n
  BY <1>1
<1>3. /\ msgs' \in Seq(Requests)
      /\ Head(msgs) = msgs[1] /\ msgs[1] \in Requests
      /\ DOMAIN msgs' = 1 .. n - 1
      /\ \A i \in 1 .. n - 1 : msgs'[i] = msgs[i + 1]
  BY <1>1, <1>2
<1> HIDE DEF n
<1>4. \A i \in 1 .. n - 1 : i + 1 \in 1 .. n
  BY <1>2
<1>5. \A j \in 1 .. n : j = 1 \/ (j - 1 \in 1 .. n - 1 /\ msgs'[j - 1] = msgs[j])
  <2> TAKE j \in 1 .. n
  <2>1. CASE j # 1
    <3>1. j - 1 \in 1 .. n - 1 /\ (j - 1) + 1 = j
      BY <2>1, <1>2
    <3> QED
      BY <3>1, <1>3
  <2> QED
    BY <2>1
<1>6. 1 \in 1 .. n
  BY <1>2
<1>7. \A q : (\E i \in DOMAIN msgs : msgs[i] = q)
            <=> (\E i \in DOMAIN msgs' : msgs'[i] = q) \/ q = msgs[1]
  <2> TAKE q
  <2>1. ASSUME NEW j \in 1 .. n, msgs[j] = q
        PROVE  (\E i \in 1 .. n - 1 : msgs'[i] = q) \/ q = msgs[1]
    BY <2>1, <1>5
  <2>2. ASSUME NEW i \in 1 .. n - 1, msgs'[i] = q
        PROVE  \E j \in 1 .. n : msgs[j] = q
    BY <2>2, <1>3, <1>4
  <2> QED
    BY <1>2, <1>3, <1>6, <2>1, <2>2
<1> QED
  BY <1>2, <1>3, <1>4, <1>6, <1>7 DEF n

(* on() gives the handler an id: no table and no request knows it yet.     *)
LEMMA OnKeepsInv ==
  ASSUME KernelInv, NEW t \in Threads, NEW e \in Events, On(t, e)
  PROVE  KernelInv'
<1> DEFINE h == hdlr_id + 1
<1>t. TypeOK /\ CallsTyped /\ KernelPlace /\ RequestsKnown /\ AddOnce
      /\ DeleteAfterAdd /\ InOnePlace /\ EnteredOnce /\ OnTime
      /\ FoundInPlace /\ CallInTime
  BY DEF KernelInv
<1> USE DEF evars, kvars, avars, histvars
<1>1. /\ hdlr_id \in Nat /\ hdlr_id < MaxHandlers /\ MaxHandlers \in Nat
      /\ h \in Hid /\ hdlr_id' = h
  BY <1>t, BoundsAssumption DEF On, TypeOK, Hid
<1>2. /\ ev_id' \in [Hid -> Events] /\ ev_id'[h] = e
      /\ \A g \in Hid \ {h} : ev_id'[g] = ev_id[g]
  BY <1>t, <1>1 DEF On, TypeOK
<1>3. /\ opc' \in [Threads -> OpPc] /\ oph' \in [Threads -> Hid \cup {0}]
      /\ opc[t] = "idle" /\ opc'[t] \in AddOps /\ oph'[t] = h
      /\ \A u \in Threads \ {t} : opc'[u] = opc[u] /\ oph'[u] = oph[u]
  BY <1>t, <1>1 DEF On, Ready, Call, TypeOK, OpPc, AddOps
<1>4. \A d \in Events : h \notin Vector(d)
  <2>1. ~Registered(h)
    BY <1>t, <1>1 DEF InOnePlace
  <2> QED
    BY <1>t, <2>1 DEF EnteredOnce, Registered
<1>5. \A d \in Events : Vector(d)' = Vector(d)
  BY DEF On, Vector
<1>6. \A g \in Hid : Registered(g)' <=> Registered(g)
  <2> TAKE g \in Hid
  <2>1. Registered(g)' <=> g \in Vector(ev_id'[g])
    BY DEF Registered, On, Vector
  <2>2. ev_id[g] \in Events
    BY <1>t DEF TypeOK
  <2> QED
    BY <2>1, <2>2, <1>2, <1>4 DEF Registered
<1>7. TypeOK'
  BY <1>t, <1>1, <1>2, <1>3 DEF On, TypeOK, Hid
<1>8. CallsTyped'
  <2>1. known' = known /\ h \notin known
    BY <1>t, <1>1 DEF On, CallsTyped
  <2>2. known' \subseteq 1 .. hdlr_id'
    BY <1>t, <1>1, <2>1 DEF CallsTyped
  <2>3. \A u \in Threads : opc'[u] # "idle" => oph'[u] \in 1 .. hdlr_id'
    BY <1>t, <1>1, <1>3 DEF CallsTyped
  <2>4. \A u \in Threads : opc'[u] # "idle" =>
          (opc'[u] \in AddOps <=> oph'[u] \notin known)
    <3> TAKE u \in Threads
    <3> HIDE DEF h
    <3> QED
      BY <1>t, <1>3, <2>1 DEF CallsTyped, AddOps
  <2> QED
    BY <2>1, <2>2, <2>3, <2>4 DEF CallsTyped, AddOps
<1>9. KernelPlace'
  BY <1>t DEF On, Ready, Call, KernelPlace, TypeOK, Threads
<1>10. RequestsKnown' /\ DeleteAfterAdd'
  BY <1>t DEF On, RequestsKnown, DeleteAfterAdd
<1>11. \A u \in Threads \ {t} : opc[u] \in AddOps => oph[u] # h
  BY <1>t, <1>1 DEF CallsTyped, AddOps
<1>12. AddOnce'
  BY <1>t, <1>3, <1>11 DEF On, AddOnce, AddOps
<1>13. EnteredOnce'
  BY <1>t, <1>2, <1>4, <1>5, VectorType DEF EnteredOnce, On
<1>14. \A g \in Hid : Adding(g)' <=> Adding(g) \/ g = h
  <2> TAKE g \in Hid
  <2>1. AddInCall(g)' <=> AddInCall(g) \/ g = h
    BY <1>3 DEF AddInCall, AddOps
  <2>2. (AddQueued(g)' <=> AddQueued(g)) /\ (AddInHand(g)' <=> AddInHand(g))
    BY DEF On, AddQueued, AddInHand
  <2> QED
    BY <2>1, <2>2 DEF Adding
<1>15. InOnePlace'
  <2> SUFFICES ASSUME NEW g \in Hid
               PROVE  IF g > hdlr_id'
                      THEN ~Adding(g)' /\ ~Registered(g)' /\ ~destroyed'[g]
                      ELSE /\ Adding(g)' => ~Registered(g)' /\ ~destroyed'[g]
                           /\ Registered(g)' /\ destroyed'[g] => Leaving(g)'
                           /\ Adding(g)' \/ Registered(g)' \/ destroyed'[g]
    BY DEF InOnePlace
  <2>1. destroyed' = destroyed
    BY DEF On
  <2>2. CASE g = h
    <3>1. g > hdlr_id /\ ~(g > hdlr_id')
      BY <1>1, <2>2
    <3>2. ~Registered(g) /\ ~destroyed[g]
      BY <1>t, <3>1 DEF InOnePlace
    <3> QED
      BY <1>6, <1>14, <2>1, <2>2, <3>1, <3>2
  <2>3. CASE g # h
    <3>1. g > hdlr_id' <=> g > hdlr_id
      BY <1>1, <2>3 DEF Hid
    <3>2. Adding(g)' <=> Adding(g)
      BY <1>14, <2>3
    <3>3. Leaving(g) => Leaving(g)'
      BY <1>3 DEF Leaving, Threads
    <3> QED
      BY <1>t, <1>6, <2>1, <3>1, <3>2, <3>3 DEF InOnePlace
  <2> QED
    BY <2>2, <2>3
<1>16. OnTime'
  <2>1. \A g \in Hid : DeletePending(g)' <=> DeletePending(g)
    BY DEF DeletePending, On
  <2>2. NextDrain' = NextDrain
    BY DEF NextDrain, On
  <2> QED
    BY <1>t, <1>6, <2>1, <2>2 DEF OnTime, On
<1>17. FoundInPlace'
  <2>1. kpc' = kpc /\ req' = req /\ destroyed' = destroyed
    BY DEF On
  <2>2. opc'["app"] \in Finding =>
          opc'["app"] = opc["app"] /\ oph'["app"] = oph["app"]
    BY <1>3 DEF AddOps, Finding, Threads
  <2> QED
    BY <1>6, <2>1, <2>2, StaysInPlace
<1>18. CallInTime' /\ ~torn'
  BY <1>t DEF On, CallInTime, KernelInv
<1> QED
  BY <1>7, <1>8, <1>9, <1>10, <1>12, <1>13, <1>15, <1>16, <1>17, <1>18
     DEF KernelInv

(* One handler moves, to one place, and the others stay where they are.    *)
LEMMA OneMoves ==
  ASSUME InOnePlace, hdlr_id' = hdlr_id, NEW h \in Hid, ~(h > hdlr_id),
         \A g \in Hid \ {h} : /\ Adding(g)' <=> Adding(g)
                              /\ Registered(g)' <=> Registered(g)
                              /\ destroyed'[g] <=> destroyed[g]
                              /\ Leaving(g) => Leaving(g)',
         \/ Adding(h)' /\ ~Registered(h)' /\ ~destroyed'[h]
         \/ ~Adding(h)' /\ Registered(h)' /\ ~destroyed'[h]
         \/ ~Adding(h)' /\ ~Registered(h)' /\ destroyed'[h]
         \/ ~Adding(h)' /\ Registered(h)' /\ destroyed'[h] /\ Leaving(h)'
  PROVE  InOnePlace'
<1> SUFFICES ASSUME NEW g \in Hid
             PROVE  IF g > hdlr_id'
                    THEN ~Adding(g)' /\ ~Registered(g)' /\ ~destroyed'[g]
                    ELSE /\ Adding(g)' => ~Registered(g)' /\ ~destroyed'[g]
                         /\ Registered(g)' /\ destroyed'[g] => Leaving(g)'
                         /\ Adding(g)' \/ Registered(g)' \/ destroyed'[g]
  BY DEF InOnePlace
<1>1. CASE g = h
  BY <1>1
<1>2. CASE g # h
  BY <1>2 DEF InOnePlace
<1> QED
  BY <1>1, <1>2

(* What is on time stays so if no drain passes, no handler leaves its      *)
(* vector but by destruction, and new deadlines are at the next drain.     *)
LEMMA StaysOnTime ==
  ASSUME TypeOK, OnTime, NextDrain' = NextDrain, known \subseteq known',
         \A g \in Hid :
           /\ \/ limit'[g] = limit[g]
              \/ destroyed'[g] /\ ~Registered(g)'
              \/ limit'[g] = NextDrain /\ DeletePending(g)'
           /\ due'[g] = due[g] \/ (due'[g] = NextDrain /\ g \in known')
           /\ Registered(g) => Registered(g)' \/ destroyed'[g]
           /\ destroyed[g] => destroyed'[g]
           /\ destroyed[g] /\ ~Registered(g) => ~Registered(g)'
           /\ \/ DeletePending(g) => DeletePending(g)'
              \/ destroyed'[g] /\ ~Registered(g)'
  PROVE  OnTime'
<1>1. recv \in Nat
  BY DEF TypeOK
<1>2. NextDrain = recv \/ NextDrain = recv + 1
  BY DEF NextDrain
<1>3. NextDrain \in Nat
  BY <1>1, <1>2
<1> SUFFICES ASSUME NEW g \in Hid
             PROVE  /\ limit'[g] # NoLimit =>
                         \/ destroyed'[g] /\ ~Registered(g)'
                         \/ DeletePending(g)' /\ NextDrain <= limit'[g]
                    /\ due'[g] # NoLimit =>
                         g \in known' /\ (\/ Registered(g)' \/ destroyed'[g]
                                         \/ NextDrain <= due'[g])
  BY DEF OnTime
<1> QED
  BY <1>3 DEF OnTime

(* on() of a running machine: the new handler moves into the queue.        *)
LEMMA OnPushKeepsInv ==
  ASSUME KernelInv, NEW t \in Threads, OnPush(t)
  PROVE  KernelInv'
<1> DEFINE h == oph[t]
           r == [op |-> "add", h |-> h]
<1>t. TypeOK /\ CallsTyped /\ KernelPlace /\ RequestsKnown /\ AddOnce
      /\ DeleteAfterAdd /\ InOnePlace /\ EnteredOnce /\ OnTime
      /\ FoundInPlace /\ CallInTime
  BY DEF KernelInv
<1> USE DEF hvars, evars, kvars, avars, ovars, histvars
<1>1. /\ h \in Hid /\ h \in 1 .. hdlr_id /\ h \notin known /\ ~(h > hdlr_id)
      /\ hdlr_id \in Nat
  <2>1. hdlr_id \in 0 .. MaxHandlers /\ opc[t] = "addPush"
    BY <1>t DEF OnPush, TypeOK
  <2>2. h \in 1 .. hdlr_id /\ h \notin known
    BY <1>t, <2>1 DEF CallsTyped
  <2> QED
    BY <2>1, <2>2, BoundsAssumption DEF Hid
<1>2. r \in Requests /\ msgs' = Append(msgs, r)
  BY <1>1 DEF OnPush, Requests
<1>3. /\ \A i \in DOMAIN msgs : msgs[i].h # h
      /\ req.h # h \/ req = NoReq
  BY <1>t, <1>1 DEF RequestsKnown
<1>4. /\ opc' \in [Threads -> OpPc] /\ oph' \in [Threads -> Hid \cup {0}]
      /\ opc[t] = "addPush" /\ opc'[t] = "idle" /\ known' = known \cup {h}
      /\ \A u \in Threads \ {t} : opc'[u] = opc[u] /\ oph'[u] = oph[u]
  BY <1>t DEF OnPush, Return, TypeOK, OpPc
<1>5. \A u \in Threads \ {t} : opc[u] \in AddOps => oph[u] # h
  BY <1>t, <1>4 DEF AddOnce, AddOps
<1>6. NextDrain' = NextDrain /\ NextDrain \in Nat
  <2>1. recv' = recv /\ recv \in Nat
    BY <1>t DEF OnPush, TypeOK
  <2>2. kpc' = "pull" <=> kpc = "pull"
    BY <1>t, <1>4 DEF OnPush, Return, KernelPlace
  <2>3. NextDrain' = NextDrain /\ (NextDrain = recv \/ NextDrain = recv + 1)
    BY <2>1, <2>2 DEF NextDrain
  <2> QED
    BY <2>1, <2>3
<1>7. TypeOK'
  <2>1. due' \in [Hid -> Nat \cup {NoLimit}]
    BY <1>t, <1>1, <1>6 DEF OnPush, TypeOK
  <2>2. msgs' \in Seq(Requests)
    BY <1>t, <1>2, Pushed
  <2>3. kpc' \in KernelPc
    BY <1>t DEF OnPush, Return, TypeOK, KernelPc
  <2> QED
    BY <1>t, <1>1, <1>4, <2>1, <2>2, <2>3 DEF OnPush, TypeOK
<1>8. CallsTyped'
  <2>1. hdlr_id' = hdlr_id
    BY DEF OnPush
  <2>2. known' \subseteq 1 .. hdlr_id'
    BY <1>t, <1>1, <1>4, <2>1 DEF CallsTyped
  <2> HIDE DEF h
  <2> QED
    BY <1>t, <1>4, <1>5, <2>1, <2>2 DEF CallsTyped, AddOps
<1>9. KernelPlace'
  BY <1>t, <1>4 DEF OnPush, Return, KernelPlace, TypeOK, Threads
<1>10. RequestsKnown'
  <2>1. \A i \in DOMAIN msgs' : msgs'[i].h \in known'
    <3>1. r.h = h
      OBVIOUS
    <3> HIDE DEF r, h
    <3>2. \A i \in DOMAIN msgs' : msgs'[i] = r \/ \E j \in DOMAIN msgs : msgs'[i] = msgs[j]
      BY <1>t, <1>2, Pushed
    <3> QED
      BY <1>t, <1>4, <3>1, <3>2 DEF RequestsKnown
  <2>2. req' = req /\ known \subseteq known'
    BY <1>4 DEF OnPush
  <2>3. /\ kpc' \in {"change", "erase"} <=> kpc \in {"change", "erase"}
        /\ kpc' = "erase" <=> kpc = "erase"
    BY <1>t, <1>4 DEF OnPush, Return, KernelPlace
  <2> QED
    BY <1>t, <2>1, <2>2, <2>3 DEF RequestsKnown
<1>11. AddOnce'
  <2>1. \A u, w \in Threads :
          opc'[u] \in AddOps /\ opc'[w] \in AddOps /\ oph'[u] = oph'[w] => u = w
    BY <1>t, <1>4 DEF AddOnce, AddOps
  <2>2. r.h = h
    OBVIOUS
  <2> HIDE DEF r, h
  <2>3. \A i, j \in DOMAIN msgs' :
          msgs'[i].op = "add" /\ msgs'[i] = msgs'[j] => i = j
    BY <1>t, <1>2, <1>3, <2>2, Pushed DEF AddOnce
  <2>4. req'.op = "add" => \A i \in DOMAIN msgs' : msgs'[i] # req'
    <3>1. req' = req
      BY DEF OnPush
    <3>2. req.op = "add" => req # r
      BY <1>3, <2>2 DEF NoReq
    <3> QED
      BY <1>t, <1>2, <3>1, <3>2, Pushed DEF AddOnce
  <2> QED
    BY <2>1, <2>3, <2>4 DEF AddOnce, AddOps
<1>12. DeleteAfterAdd'
  <2>1. r.h = h /\ r.op = "add"
    OBVIOUS
  <2>2. req.op = "delete" => r # [op |-> "add", h |-> req.h]
    BY <1>3 DEF NoReq
  <2> HIDE DEF r, h
  <2>3. \A i, j \in DOMAIN msgs' :
          msgs'[i].op = "add" /\ msgs'[j].op = "delete" /\ msgs'[i].h = msgs'[j].h
          => i < j
    BY <1>t, <1>2, <1>3, <2>1, Pushed DEF DeleteAfterAdd
  <2>4. req'.op = "delete" =>
          \A i \in DOMAIN msgs' : msgs'[i] # [op |-> "add", h |-> req'.h]
    <3>1. req' = req
      BY DEF OnPush
    <3> QED
      BY <1>t, <1>2, <2>2, <3>1, Pushed DEF DeleteAfterAdd
  <2> QED
    BY <2>3, <2>4 DEF DeleteAfterAdd
<1>13. \A g \in Hid : /\ Registered(g)' <=> Registered(g)
                      /\ destroyed'[g] <=> destroyed[g]
  BY DEF OnPush, Registered, Vector
<1>14. \A g \in Hid : Adding(g)' <=> Adding(g)
  <2> TAKE g \in Hid
  <2>1. AddQueued(g)' <=> AddQueued(g) \/ g = h
    <3>1. [op |-> "add", h |-> g] = r <=> g = h
      OBVIOUS
    <3> HIDE DEF r
    <3> QED
      BY <1>t, <1>2, <3>1, Pushed DEF AddQueued
  <2>2. AddInHand(g)' <=> AddInHand(g)
    BY DEF OnPush, AddInHand
  <2>3. AddInCall(g) <=> AddInCall(g)' \/ g = h
    BY <1>4 DEF AddInCall, AddOps
  <2> QED
    BY <2>1, <2>2, <2>3 DEF Adding
<1>15. InOnePlace'
  <2>1. \A g \in Hid : Leaving(g) => Leaving(g)'
    BY <1>4 DEF Leaving, Threads
  <2> QED
    BY <1>t, <1>13, <1>14, <2>1 DEF InOnePlace, OnPush
<1>16. EnteredOnce'
  BY <1>t DEF EnteredOnce, Vector, OnPush
<1>17. OnTime'
  <2>1. \A g \in Hid : DeletePending(g) => DeletePending(g)'
    <3> HIDE DEF r, h
    <3> QED
      BY <1>t, <1>2, Pushed DEF DeletePending, OnPush
  <2>2. /\ limit' = limit /\ known \subseteq known'
        /\ \A g \in Hid : due'[g] = due[g] \/ (due'[g] = NextDrain /\ g \in known')
    BY <1>t, <1>4 DEF OnPush, TypeOK
  <2> QED
    BY <1>t, <1>6, <1>13, <2>1, <2>2, StaysOnTime
<1>18. /\ kpc' = "erase" => kpc = "erase" /\ req' = req
       /\ kpc' = "call" => kpc = "call"
  BY DEF OnPush, Return
<1>19. FoundInPlace'
  <2>1. opc'["app"] \in Finding =>
          opc'["app"] = opc["app"] /\ oph'["app"] = oph["app"]
    BY <1>4 DEF Finding, Threads
  <2> QED
    BY <1>13, <1>18, <2>1, StaysInPlace
<1>20. CallInTime' /\ ~torn'
  BY <1>t, <1>18 DEF OnPush, CallInTime, KernelInv
<1> QED
  BY <1>7, <1>8, <1>9, <1>10, <1>11, <1>12, <1>15, <1>16, <1>17, <1>19, <1>20
     DEF KernelInv

(* on() of a machine that is not running: the handler moves into its       *)
(* vector.                                                                 *)
LEMMA OnDirectKeepsInv ==
  ASSUME KernelInv, OnDirect, ~torn'
  PROVE  KernelInv'
<1> DEFINE h == oph["app"]
<1>t. TypeOK /\ CallsTyped /\ KernelPlace /\ RequestsKnown /\ AddOnce
      /\ DeleteAfterAdd /\ InOnePlace /\ EnteredOnce /\ OnTime
      /\ FoundInPlace /\ CallInTime
  BY DEF KernelInv
<1> USE DEF hvars, evars, kvars, avars, ovars, histvars
<1>1. /\ h \in Hid /\ h \in 1 .. hdlr_id /\ h \notin known /\ ~(h > hdlr_id)
      /\ hdlr_id \in Nat /\ opc["app"] \in AddOps
  <2>1. hdlr_id \in 0 .. MaxHandlers /\ opc["app"] = "addDirect"
    BY <1>t DEF OnDirect, TypeOK
  <2>2. h \in 1 .. hdlr_id /\ h \notin known
    BY <1>t, <2>1 DEF CallsTyped, Threads
  <2> QED
    BY <2>1, <2>2, BoundsAssumption DEF Hid, AddOps
<1>2. Adding(h) /\ ~Registered(h) /\ ~destroyed[h]
  BY <1>t, <1>1 DEF Adding, AddInCall, AddOps, InOnePlace, Threads
<1>3. /\ handlers' \in [Events -> Seq(Hid)]
      /\ EnteredOnce'
      /\ \A g \in Hid : Registered(g)' <=> Registered(g) \/ g = h
  BY <1>t, <1>1, <1>2, AddedToVector DEF OnDirect
<1>4. /\ opc' \in [Threads -> OpPc] /\ oph' \in [Threads -> Hid \cup {0}]
      /\ opc'["app"] = "idle" /\ known' = known \cup {h} /\ kpc' = kpc
      /\ \A u \in Threads \ {"app"} : opc'[u] = opc[u] /\ oph'[u] = oph[u]
  BY <1>t DEF OnDirect, Return, TypeOK, OpPc, Threads
<1>5. \A u \in Threads \ {"app"} : opc[u] \in AddOps => oph[u] # h
  BY <1>t, <1>1 DEF AddOnce, AddOps, Threads
<1>6. pos' \in Nat /\ pos' >= 1
  <2>1. pos \in Nat /\ pos >= 1 /\ last \in Nat
    BY <1>t DEF TypeOK, KernelPlace
  <2>2. pos' = pos \/ pos' = last + 1
    BY DEF OnDirect
  <2> QED
    BY <2>1, <2>2
<1>7. TypeOK'
  <2>1. torn' \in BOOLEAN
    BY <1>t DEF OnDirect, DirectTears, TypeOK
  <2>2. handler_map' \subseteq Hid /\ known' \subseteq Hid
    BY <1>t, <1>1, <1>4 DEF OnDirect, add_handler, TypeOK
  <2> HIDE DEF h
  <2> QED
    BY <1>t, <1>3, <1>4, <1>6, <2>1, <2>2 DEF OnDirect, TypeOK
<1>8. CallsTyped'
  <2>1. hdlr_id' = hdlr_id
    BY DEF OnDirect
  <2>2. known' \subseteq 1 .. hdlr_id'
    BY <1>t, <1>1, <1>4, <2>1 DEF CallsTyped
  <2> HIDE DEF h
  <2> QED
    BY <1>t, <1>4, <1>5, <2>1, <2>2 DEF CallsTyped, AddOps
<1>9. KernelPlace'
  BY <1>t, <1>4, <1>6 DEF OnDirect, KernelPlace, Threads
<1>10. RequestsKnown' /\ DeleteAfterAdd'
  BY <1>t, <1>4 DEF OnDirect, RequestsKnown, DeleteAfterAdd
<1>11. AddOnce'
  BY <1>t, <1>4 DEF OnDirect, AddOnce, AddOps
<1>12. \A g \in Hid : Adding(g)' <=> Adding(g) /\ g # h
  <2> TAKE g \in Hid
  <2>1. AddInCall(g)' <=> AddInCall(g) /\ g # h
    BY <1>4, <1>5 DEF AddInCall, AddOps
  <2>2. (AddQueued(g)' <=> AddQueued(g)) /\ (AddInHand(g)' <=> AddInHand(g))
    BY DEF OnDirect, AddQueued, AddInHand
  <2>3. ~AddQueued(h)
    BY <1>t, <1>1 DEF AddQueued, RequestsKnown
  <2>4. ~AddInHand(h)
    BY <1>t, <1>1 DEF AddInHand, RequestsKnown, NoReq
  <2> QED
    BY <2>1, <2>2, <2>3, <2>4 DEF Adding
<1>13. InOnePlace'
  <2>1. hdlr_id' = hdlr_id /\ destroyed' = destroyed
    BY DEF OnDirect
  <2>2. \A g \in Hid : ~Leaving(g)
    BY <1>1 DEF Leaving, AddOps
  <2> HIDE DEF h
  <2> QED
    BY <1>t, <1>1, <1>2, <1>3, <1>12, <2>1, <2>2, OneMoves
<1>14. OnTime'
  <2>1. \A g \in Hid : DeletePending(g)' <=> DeletePending(g)
    BY DEF DeletePending, OnDirect
  <2>2. NextDrain' = NextDrain
    BY <1>4 DEF NextDrain, OnDirect
  <2>3. limit' = limit /\ due' = due /\ destroyed' = destroyed
        /\ known \subseteq known'
    BY <1>4 DEF OnDirect
  <2> HIDE DEF h
  <2> QED
    BY <1>t, <1>2, <1>3, <2>1, <2>2, <2>3, StaysOnTime
<1>15. FoundInPlace'
  <2>1. req' = req /\ destroyed' = destroyed
    BY DEF OnDirect
  <2> HIDE DEF h
  <2> QED
    BY <1>3, <1>4, <2>1, StaysInPlace DEF Finding
<1>16. CallInTime'
  BY <1>t, <1>4 DEF OnDirect, CallInTime
<1> QED
  BY <1>3, <1>7, <1>8, <1>9, <1>10, <1>11, <1>13, <1>14, <1>15, <1>16
     DEF KernelInv

(* destroy() of a running machine queues a request behind that of on().    *)
LEMMA DestroyPushKeepsInv ==
  ASSUME KernelInv, NEW t \in Threads, DestroyPush(t)
  PROVE  KernelInv'
<1> DEFINE h == oph[t]
           r == [op |-> "delete", h |-> h]
<1>t. TypeOK /\ CallsTyped /\ KernelPlace /\ RequestsKnown /\ AddOnce
      /\ DeleteAfterAdd /\ InOnePlace /\ EnteredOnce /\ OnTime
      /\ FoundInPlace /\ CallInTime
  BY DEF KernelInv
<1> USE DEF hvars, evars, kvars, avars, ovars, histvars
<1>1. /\ h \in Hid /\ h \in known /\ r \in Requests /\ msgs' = Append(msgs, r)
  <2>1. h \in known
    BY <1>t DEF DestroyPush, CallsTyped
  <2>2. h \in Hid
    BY <1>t, <2>1 DEF TypeOK
  <2> QED
    BY <2>1, <2>2 DEF DestroyPush, Requests
<1>2. /\ opc' \in [Threads -> OpPc] /\ oph' \in [Threads -> Hid \cup {0}]
      /\ opc[t] = "delPush" /\ opc'[t] = "idle"
      /\ \A u \in Threads \ {t} : opc'[u] = opc[u] /\ oph'[u] = oph[u]
  BY <1>t DEF DestroyPush, Return, TypeOK, OpPc
<1>3. NextDrain' = NextDrain /\ NextDrain \in Nat
  <2>1. recv' = recv /\ recv \in Nat
    BY <1>t DEF DestroyPush, TypeOK
  <2>2. kpc' = "pull" <=> kpc = "pull"
    BY <1>t, <1>2 DEF DestroyPush, Return, KernelPlace
  <2>3. NextDrain' = NextDrain /\ (NextDrain = recv \/ NextDrain = recv + 1)
    BY <2>1, <2>2 DEF NextDrain
  <2> QED
    BY <2>1, <2>3
<1>4. TypeOK'
  <2>1. limit' \in [Hid -> Nat \cup {NoLimit}]
    BY <1>t, <1>1, <1>3 DEF DestroyPush, TypeOK
  <2>2. msgs' \in Seq(Requests)
    BY <1>t, <1>1, Pushed
  <2>3. kpc' \in KernelPc
    BY <1>t DEF DestroyPush, Return, TypeOK, KernelPc
  <2> QED
    BY <1>t, <1>2, <2>1, <2>2, <2>3 DEF DestroyPush, TypeOK
<1>5. CallsTyped'
  BY <1>t, <1>2 DEF CallsTyped, DestroyPush
<1>6. KernelPlace'
  BY <1>t, <1>2 DEF DestroyPush, Return, KernelPlace, TypeOK, Threads
<1>7. RequestsKnown'
  <2>1. \A i \in DOMAIN msgs' : msgs'[i].h \in known'
    <3>1. r.h = h
      OBVIOUS
    <3>2. known' = known
      BY DEF DestroyPush
    <3> HIDE DEF r, h
    <3>3. \A i \in DOMAIN msgs' : msgs'[i] = r \/ \E j \in DOMAIN msgs : msgs'[i] = msgs[j]
      BY <1>t, <1>1, Pushed
    <3> QED
      BY <1>t, <1>1, <3>1, <3>2, <3>3 DEF RequestsKnown
  <2>2. req' = req /\ known' = known
    BY DEF DestroyPush
  <2>3. /\ kpc' \in {"change", "erase"} <=> kpc \in {"change", "erase"}
        /\ kpc' = "erase" <=> kpc = "erase"
    BY <1>t, <1>2 DEF DestroyPush, Return, KernelPlace
  <2> QED
    BY <1>t, <2>1, <2>2, <2>3 DEF RequestsKnown
<1>8. AddOnce'
  <2>1. \A u, w \in Threads :
          opc'[u] \in AddOps /\ opc'[w] \in AddOps /\ oph'[u] = oph'[w] => u = w
    BY <1>t, <1>2 DEF AddOnce, AddOps
  <2>2. r.op = "delete" /\ req' = req
    BY DEF DestroyPush
  <2> HIDE DEF r, h
  <2>3. \A i, j \in DOMAIN msgs' :
          msgs'[i].op = "add" /\ msgs'[i] = msgs'[j] => i = j
    BY <1>t, <1>1, <2>2, Pushed DEF AddOnce
  <2>4. req'.op = "add" => \A i \in DOMAIN msgs' : msgs'[i] # req'
    BY <1>t, <1>1, <2>2, Pushed DEF AddOnce
  <2> QED
    BY <2>1, <2>3, <2>4 DEF AddOnce, AddOps
<1>9. DeleteAfterAdd'
  <2>1. r.op = "delete" /\ req' = req /\ r # [op |-> "add", h |-> req.h]
    BY DEF DestroyPush
  <2> HIDE DEF r, h
  <2>2. \A i, j \in DOMAIN msgs' :
          msgs'[i].op = "add" /\ msgs'[j].op = "delete" /\ msgs'[i].h = msgs'[j].h
          => i < j
    BY <1>t, <1>1, <2>1, Pushed DEF DeleteAfterAdd
  <2>3. req'.op = "delete" =>
          \A i \in DOMAIN msgs' : msgs'[i] # [op |-> "add", h |-> req'.h]
    BY <1>t, <1>1, <2>1, Pushed DEF DeleteAfterAdd
  <2> QED
    BY <2>2, <2>3 DEF DeleteAfterAdd
<1>10. \A g \in Hid : /\ Registered(g)' <=> Registered(g)
                      /\ destroyed'[g] <=> destroyed[g]
  BY DEF DestroyPush, Registered, Vector
<1>11. \A g \in Hid : Adding(g)' <=> Adding(g)
  <2> TAKE g \in Hid
  <2>1. AddQueued(g)' <=> AddQueued(g)
    <3>1. [op |-> "add", h |-> g] # r
      OBVIOUS
    <3> HIDE DEF r
    <3> QED
      BY <1>t, <1>1, <3>1, Pushed DEF AddQueued
  <2>2. AddInHand(g)' <=> AddInHand(g)
    BY DEF DestroyPush, AddInHand
  <2>3. AddInCall(g) <=> AddInCall(g)'
    BY <1>2 DEF AddInCall, AddOps
  <2> QED
    BY <2>1, <2>2, <2>3 DEF Adding
<1>12. InOnePlace'
  <2>1. \A g \in Hid : Leaving(g) => Leaving(g)'
    BY <1>2 DEF Leaving, Threads
  <2> QED
    BY <1>t, <1>10, <1>11, <2>1 DEF InOnePlace, DestroyPush
<1>13. EnteredOnce'
  BY <1>t DEF EnteredOnce, Vector, DestroyPush
<1>14. OnTime'
  <2>1. \A g \in Hid : DeletePending(g) => DeletePending(g)'
    <3> HIDE DEF r, h
    <3> QED
      BY <1>t, <1>1, Pushed DEF DeletePending, DestroyPush
  <2>2. \A g \in Hid : g = h => DeletePending(g)'
    <3>1. \E i \in DOMAIN msgs' : msgs'[i] = r
      <4> HIDE DEF r, h
      <4> QED
        BY <1>t, <1>1, Pushed
    <3> QED
      BY <3>1 DEF DeletePending
  <2>3. /\ due' = due /\ known' = known
        /\ \A g \in Hid : limit'[g] = limit[g] \/ (limit'[g] = NextDrain /\ g = h)
    BY <1>t DEF DestroyPush, TypeOK
  <2> QED
    BY <1>t, <1>3, <1>10, <2>1, <2>2, <2>3, StaysOnTime
<1>15. /\ kpc' = "erase" => kpc = "erase" /\ req' = req
       /\ kpc' = "call" => kpc = "call"
  BY DEF DestroyPush, Return
<1>16. FoundInPlace'
  <2>1. opc'["app"] \in Finding =>
          opc'["app"] = opc["app"] /\ oph'["app"] = oph["app"]
    BY <1>2 DEF Finding, Threads
  <2> QED
    BY <1>10, <1>15, <2>1, StaysInPlace
<1>17. CallInTime' /\ ~torn'
  <2>1. kpc = "call" => NextDrain = recv
    BY DEF NextDrain
  <2>2. \A g \in Hid : limit'[g] = limit[g] \/ limit'[g] = NextDrain
    BY <1>t DEF DestroyPush, TypeOK
  <2>3. recv' = recv /\ cur' = cur /\ recv \in Nat /\ torn' = torn
    BY <1>t DEF DestroyPush, TypeOK
  <2> QED
    BY <1>t, <1>15, <2>1, <2>2, <2>3 DEF CallInTime, KernelInv
<1> QED
  BY <1>4, <1>5, <1>6, <1>7, <1>8, <1>9, <1>12, <1>13, <1>14, <1>16, <1>17
     DEF KernelInv

(* A handler whose Handler object is known is not inside on().             *)
LEMMA KnownNotInCall ==
  ASSUME KernelInv, NEW h \in known
  PROVE  h \in Hid /\ ~(h > hdlr_id) /\ ~AddInCall(h)
<1>1. h \in Hid /\ known \subseteq 1 .. hdlr_id /\ hdlr_id \in 0 .. MaxHandlers
  BY DEF KernelInv, CallsTyped, TypeOK
<1>2. ~(h > hdlr_id)
  BY <1>1
<1>3. ~AddInCall(h)
  BY DEF KernelInv, CallsTyped, AddInCall
<1> QED
  BY <1>1, <1>2, <1>3

(* destroy() of a machine that is not running marks the handler, which is  *)
(* still in its vector ...                                                 *)
LEMMA MarkDirectKeepsInv ==
  ASSUME KernelInv, MarkDirect
  PROVE  KernelInv'
<1> DEFINE h == oph["app"]
<1>t. TypeOK /\ CallsTyped /\ KernelPlace /\ RequestsKnown /\ AddOnce
      /\ DeleteAfterAdd /\ InOnePlace /\ EnteredOnce /\ OnTime
      /\ FoundInPlace /\ CallInTime
  BY DEF KernelInv
<1> USE DEF hvars, evars, kvars, avars, ovars, histvars
<1>1. /\ h \in Hid /\ h \in known /\ ~(h > hdlr_id) /\ opc["app"] = "delMark"
      /\ Registered(h)
  <2>1. h \in known /\ opc["app"] = "delMark"
    BY <1>t DEF MarkDirect, CallsTyped, Threads
  <2> QED
    BY <1>t, <2>1, KnownNotInCall DEF FoundInPlace
<1>2. ~Adding(h)
  BY <1>t, <1>1 DEF InOnePlace
<1>3. /\ opc' \in [Threads -> OpPc] /\ oph' \in [Threads -> Hid \cup {0}]
      /\ opc'["app"] = "delErase" /\ oph'["app"] = h
      /\ \A u \in Threads \ {"app"} : opc'[u] = opc[u] /\ oph'[u] = oph[u]
  BY <1>t, <1>1 DEF MarkDirect, Call, TypeOK, OpPc, Threads
<1>4. /\ destroyed' = [destroyed EXCEPT ![h] = TRUE]
      /\ UNCHANGED <<handlers, handler_map, hdlr_id, ev_id, torn, active,
                     running, msgs, kpc, evs, pos, last, cur, req, recv, main,
                     known, limit, due>>
  BY DEF MarkDirect
<1>5. destroyed'[h] /\ \A g \in Hid \ {h} : destroyed'[g] = destroyed[g]
  BY <1>t, <1>1, <1>4 DEF TypeOK
<1>6. \A g \in Hid : Registered(g)' <=> Registered(g)
  BY <1>4 DEF Registered, Vector
<1>7. TypeOK'
  <2>1. destroyed' \in [Hid -> BOOLEAN]
    BY <1>t, <1>4 DEF TypeOK
  <2> QED
    BY <1>t, <1>3, <1>4, <2>1 DEF TypeOK
<1>8. CallsTyped'
  BY <1>t, <1>1, <1>3, <1>4 DEF CallsTyped
<1>9. KernelPlace' /\ RequestsKnown'
  BY <1>t, <1>3, <1>4 DEF KernelPlace, RequestsKnown, Threads
<1>10. AddOnce' /\ DeleteAfterAdd'
  BY <1>t, <1>3, <1>4 DEF AddOnce, DeleteAfterAdd
<1>11. EnteredOnce'
  BY <1>t, <1>4 DEF EnteredOnce, Vector
<1>12. \A g \in Hid : Adding(g)' <=> Adding(g)
  <2> TAKE g \in Hid
  <2>1. AddInCall(g)' <=> AddInCall(g)
    BY <1>1, <1>3 DEF AddInCall
  <2>2. (AddQueued(g)' <=> AddQueued(g)) /\ (AddInHand(g)' <=> AddInHand(g))
    BY <1>4 DEF AddQueued, AddInHand
  <2> QED
    BY <2>1, <2>2 DEF Adding
<1>13. InOnePlace'
  <2>1. \A g \in Hid : ~Leaving(g) /\ (Leaving(g)' <=> g = h)
    BY <1>1, <1>3 DEF Leaving
  <2> HIDE DEF h
  <2> QED
    BY <1>t, <1>1, <1>2, <1>4, <1>5, <1>6, <1>12, <2>1, OneMoves
<1>14. OnTime'
  <2>1. \A g \in Hid : DeletePending(g)' <=> DeletePending(g)
    BY <1>4 DEF DeletePending
  <2>2. NextDrain' = NextDrain
    BY <1>4 DEF NextDrain
  <2>3. \A g \in Hid : destroyed[g] => destroyed'[g]
    <3> HIDE DEF h
    <3> QED
      BY <1>5
  <2> QED
    BY <1>t, <1>4, <1>6, <2>1, <2>2, <2>3, StaysOnTime
<1>15. FoundInPlace'
  <2>1. Registered(oph["app"])'
    <3>1. PICK g \in Hid : g = oph["app"] /\ g = oph'["app"]
      BY <1>1, <1>3
    <3>2. Registered(g)'
      BY <1>1, <1>6, <3>1
    <3> QED
      BY <3>1, <3>2 DEF Registered, Vector
  <2>2. destroyed'[oph'["app"]]
    BY <1>3, <1>5
  <2>3. kpc = "erase" => Registered(req.h)'
    BY <1>t, <1>4 DEF FoundInPlace, Registered, Vector
  <2> QED
    BY <1>4, <2>1, <2>2, <2>3 DEF FoundInPlace
<1>16. CallInTime' /\ ~torn'
  BY <1>t, <1>4 DEF CallInTime, KernelInv
<1> QED
  BY <1>7, <1>8, <1>9, <1>10, <1>11, <1>13, <1>14, <1>15, <1>16 DEF KernelInv

(* ... and takes it out of its vector.  If the kernel thread had found the *)
(* entry too, the vector would be torn.                                    *)
LEMMA EraseDirectKeepsInv ==
  ASSUME KernelInv, EraseDirect, ~torn'
  PROVE  KernelInv'
<1> DEFINE h == oph["app"]
<1>t. TypeOK /\ CallsTyped /\ KernelPlace /\ RequestsKnown /\ AddOnce
      /\ DeleteAfterAdd /\ InOnePlace /\ EnteredOnce /\ OnTime
      /\ FoundInPlace /\ CallInTime
  BY DEF KernelInv
<1> USE DEF hvars, evars, kvars, avars, ovars, histvars
<1>1. /\ h \in Hid /\ h \in known /\ ~(h > hdlr_id) /\ opc["app"] = "delErase"
      /\ Registered(h) /\ destroyed[h]
  <2>1. h \in known /\ opc["app"] = "delErase"
    BY <1>t DEF EraseDirect, CallsTyped, Threads
  <2> QED
    BY <1>t, <2>1, KnownNotInCall DEF FoundInPlace
<1>2. ~Adding(h)
  BY <1>t, <1>1 DEF InOnePlace
<1>3. /\ opc' \in [Threads -> OpPc] /\ oph' \in [Threads -> Hid \cup {0}]
      /\ opc'["app"] = "idle" /\ kpc' = kpc
      /\ \A u \in Threads \ {"app"} : opc'[u] = opc[u] /\ oph'[u] = oph[u]
  BY <1>t DEF EraseDirect, Return, TypeOK, OpPc, Threads
<1>4. /\ EraseHandler(h)
      /\ limit' = [limit EXCEPT ![h] = IF @ # NoLimit THEN @ ELSE recv]
      /\ UNCHANGED <<handler_map, hdlr_id, ev_id, active, destroyed, running,
                     msgs, evs, pos, last, cur, req, recv, main, known, due>>
  BY DEF EraseDirect
<1>5. /\ handlers' \in [Events -> Seq(Hid)]
      /\ EnteredOnce'
      /\ \A g \in Hid : Registered(g)' <=> Registered(g) /\ g # h
  BY <1>t, <1>1, <1>4, ErasedFromVector
<1>6. \A g \in Hid : limit'[g] = limit[g] \/ (limit'[g] = recv /\ g = h)
  BY <1>t, <1>1, <1>4 DEF TypeOK
<1>7. TypeOK'
  <2>1. limit' \in [Hid -> Nat \cup {NoLimit}]
    BY <1>t, <1>1, <1>4 DEF TypeOK
  <2>2. torn' \in BOOLEAN
    BY <1>t DEF EraseDirect, DirectTears, TypeOK
  <2> QED
    BY <1>t, <1>3, <1>4, <1>5, <2>1, <2>2 DEF TypeOK
<1>8. CallsTyped' /\ KernelPlace' /\ RequestsKnown'
  BY <1>t, <1>3, <1>4 DEF CallsTyped, KernelPlace, RequestsKnown, Threads
<1>9. AddOnce' /\ DeleteAfterAdd'
  BY <1>t, <1>3, <1>4 DEF AddOnce, DeleteAfterAdd
<1>10. \A g \in Hid : Adding(g)' <=> Adding(g)
  <2> TAKE g \in Hid
  <2>1. AddInCall(g)' <=> AddInCall(g)
    BY <1>1, <1>3 DEF AddInCall
  <2>2. (AddQueued(g)' <=> AddQueued(g)) /\ (AddInHand(g)' <=> AddInHand(g))
    BY <1>4 DEF AddQueued, AddInHand
  <2> QED
    BY <2>1, <2>2 DEF Adding
<1>11. InOnePlace'
  <2>1. \A g \in Hid \ {h} : ~Leaving(g)
    BY DEF Leaving
  <2> HIDE DEF h
  <2> QED
    BY <1>t, <1>1, <1>2, <1>4, <1>5, <1>10, <2>1, OneMoves
<1>12. OnTime'
  <2>1. \A g \in Hid : DeletePending(g)' <=> DeletePending(g)
    BY <1>4 DEF DeletePending
  <2>2. NextDrain' = NextDrain
    BY <1>3, <1>4 DEF NextDrain
  <2> HIDE DEF h
  <2> QED
    BY <1>t, <1>1, <1>4, <1>5, <1>6, <2>1, <2>2, StaysOnTime
<1>13. FoundInPlace'
  <2>1. kpc = "erase" => req.h # h
    BY DEF EraseDirect, DirectTears
  <2> HIDE DEF h
  <2> QED
    BY <1>3, <1>4, <1>5, <2>1, StaysInPlace DEF Finding
<1>14. CallInTime'
  <2>1. recv \in Nat
    BY <1>t DEF TypeOK
  <2> HIDE DEF h
  <2> QED
    BY <1>t, <1>3, <1>4, <1>6, <2>1 DEF CallInTime
<1> QED
  BY <1>5, <1>7, <1>8, <1>9, <1>11, <1>12, <1>13, <1>14 DEF KernelInv

(* The kernel thread takes a request: it moves from the queue to its hand. *)
LEMMA TakeRequestKeepsInv ==
  ASSUME KernelInv, TakeRequest
  PROVE  KernelInv'
<1>t. TypeOK /\ CallsTyped /\ KernelPlace /\ RequestsKnown /\ AddOnce
      /\ DeleteAfterAdd /\ InOnePlace /\ EnteredOnce /\ OnTime
      /\ FoundInPlace /\ CallInTime
  BY DEF KernelInv
<1> USE DEF hvars, evars, kvars, avars, ovars, histvars
<1>1. /\ msgs # <<>> /\ msgs' = Tail(msgs) /\ req = NoReq
      /\ kpc = "drain" /\ kpc' = "change"
      /\ UNCHANGED <<hvars, evars, running, evs, pos, last, cur, recv, avars,
                     ovars, histvars>>
  BY <1>t DEF TakeRequest, RequestsKnown
<1>2. /\ msgs' \in Seq(Requests)
      /\ req' = msgs[1] /\ msgs[1] \in Requests
      /\ DOMAIN msgs = 1 .. Len(msgs) /\ 1 \in DOMAIN msgs
      /\ \A i \in DOMAIN msgs' : i + 1 \in DOMAIN msgs /\ msgs'[i] = msgs[i + 1]
      /\ \A q : (\E i \in DOMAIN msgs : msgs[i] = q)
                 <=> (\E i \in DOMAIN msgs' : msgs'[i] = q) \/ q = msgs[1]
  BY <1>t, <1>1, Pulled DEF TakeRequest
<1>3. DOMAIN msgs' \subseteq Nat \ {0}
  <2>1. DOMAIN msgs' = 1 .. Len(msgs') /\ Len(msgs') \in Nat
    BY <1>2
  <2> QED
    BY <2>1
<1>4. TypeOK'
  BY <1>t, <1>1, <1>2 DEF TypeOK, KernelPc
<1>5. CallsTyped'
  BY <1>t, <1>1 DEF CallsTyped
<1>6. KernelPlace'
  BY <1>t, <1>1 DEF KernelPlace
<1>7. RequestsKnown'
  BY <1>t, <1>1, <1>2 DEF RequestsKnown
<1>8. AddOnce'
  <2>1. \A i, j \in DOMAIN msgs' :
          msgs'[i].op = "add" /\ msgs'[i] = msgs'[j] => i = j
    <3> SUFFICES ASSUME NEW i \in DOMAIN msgs', NEW j \in DOMAIN msgs',
                        msgs'[i].op = "add", msgs'[i] = msgs'[j]
                 PROVE  i = j
      OBVIOUS
    <3>1. i + 1 = j + 1
      BY <1>t, <1>2 DEF AddOnce
    <3> QED
      BY <1>3, <3>1
  <2>2. req'.op = "add" => \A i \in DOMAIN msgs' : msgs'[i] # req'
    <3> SUFFICES ASSUME req'.op = "add", NEW i \in DOMAIN msgs', msgs'[i] = req'
                 PROVE  FALSE
      OBVIOUS
    <3>1. i + 1 = 1
      BY <1>t, <1>2 DEF AddOnce
    <3> QED
      BY <1>3, <3>1
  <2> QED
    BY <1>t, <1>1, <2>1, <2>2 DEF AddOnce
<1>9. DeleteAfterAdd'
  <2>1. \A i, j \in DOMAIN msgs' :
          msgs'[i].op = "add" /\ msgs'[j].op = "delete" /\ msgs'[i].h = msgs'[j].h
          => i < j
    <3> SUFFICES ASSUME NEW i \in DOMAIN msgs', NEW j \in DOMAIN msgs',
                        msgs'[i].op = "add", msgs'[j].op = "delete",
                        msgs'[i].h = msgs'[j].h
                 PROVE  i < j
      OBVIOUS
    <3>1. i + 1 < j + 1
      BY <1>t, <1>2 DEF DeleteAfterAdd
    <3> QED
      BY <1>3, <3>1
  <2>2. req'.op = "delete" =>
          \A i \in DOMAIN msgs' : msgs'[i] # [op |-> "add", h |-> req'.h]
    <3> SUFFICES ASSUME req'.op = "delete", NEW i \in DOMAIN msgs',
                        msgs'[i] = [op |-> "add", h |-> req'.h]
                 PROVE  FALSE
      OBVIOUS
    <3>1. msgs'[i].op = "add" /\ msgs'[i].h = req'.h
      OBVIOUS
    <3>2. i + 1 < 1
      BY <1>t, <1>2, <3>1 DEF DeleteAfterAdd
    <3> QED
      BY <1>3, <3>2
  <2> QED
    BY <2>1, <2>2 DEF DeleteAfterAdd
<1>10. \A g \in Hid : /\ Registered(g)' <=> Registered(g)
                      /\ destroyed'[g] <=> destroyed[g]
  BY <1>1 DEF Registered, Vector
<1>11. \A g \in Hid : Adding(g)' <=> Adding(g)
  <2> TAKE g \in Hid
  <2>1. AddInCall(g)' <=> AddInCall(g)
    BY <1>1 DEF AddInCall
  <2>2. ~AddInHand(g)
    BY <1>1 DEF AddInHand, NoReq
  <2>3. AddQueued(g) <=> AddQueued(g)' \/ AddInHand(g)'
    BY <1>2 DEF AddQueued, AddInHand
  <2> QED
    BY <2>1, <2>2, <2>3 DEF Adding
<1>12. InOnePlace'
  <2>1. \A g \in Hid : Leaving(g)' <=> Leaving(g)
    BY <1>1 DEF Leaving
  <2> QED
    BY <1>t, <1>1, <1>10, <1>11, <2>1 DEF InOnePlace
<1>13. EnteredOnce'
  BY <1>t, <1>1 DEF EnteredOnce, Vector
<1>14. OnTime'
  <2>1. \A g \in Hid : DeletePending(g) => DeletePending(g)'
    BY <1>1, <1>2 DEF DeletePending, NoReq
  <2>2. NextDrain' = NextDrain
    BY <1>1 DEF NextDrain
  <2> QED
    BY <1>t, <1>1, <1>10, <2>1, <2>2, StaysOnTime
<1>15. FoundInPlace'
  BY <1>1, <1>10, StaysInPlace
<1>16. CallInTime' /\ ~torn'
  BY <1>1 DEF CallInTime, KernelInv
<1> QED
  BY <1>4, <1>5, <1>6, <1>7, <1>8, <1>9, <1>12, <1>13, <1>14, <1>15, <1>16
     DEF KernelInv

(* AddHandler::change: the handler moves from the request into its vector. *)
LEMMA ChangeAddKeepsInv ==
  ASSUME KernelInv, ChangeAdd, ~torn'
  PROVE  KernelInv'
<1> DEFINE h == req.h
<1>t. TypeOK /\ CallsTyped /\ KernelPlace /\ RequestsKnown /\ AddOnce
      /\ DeleteAfterAdd /\ InOnePlace /\ EnteredOnce /\ OnTime
      /\ FoundInPlace /\ CallInTime
  BY DEF KernelInv
<1> USE DEF hvars, evars, kvars, avars, ovars, histvars
<1>1. /\ kpc = "change" /\ kpc' = "drain" /\ req' = NoReq
      /\ add_handler(h)
      /\ UNCHANGED <<hdlr_id, ev_id, evars, running, msgs, evs, pos, last, cur,
                     recv, avars, ovars, histvars>>
  BY DEF ChangeAdd
<1>2. h \in known /\ req.op = "add" /\ req \in Requests
  BY <1>t DEF ChangeAdd, RequestsKnown
<1>3. h \in Hid /\ ~(h > hdlr_id) /\ ~AddInCall(h)
  BY <1>2, KnownNotInCall
<1>4. req = [op |-> "add", h |-> h]
  BY <1>2 DEF Requests
<1>5. Adding(h) /\ ~Registered(h) /\ ~destroyed[h]
  BY <1>t, <1>3, <1>4 DEF Adding, AddInHand, InOnePlace
<1>6. /\ handlers' \in [Events -> Seq(Hid)]
      /\ EnteredOnce'
      /\ \A g \in Hid : Registered(g)' <=> Registered(g) \/ g = h
  BY <1>t, <1>1, <1>3, <1>5, AddedToVector
<1>7. TypeOK'
  <2>1. torn' \in BOOLEAN
    BY <1>t DEF ChangeAdd, AppHasFound, TypeOK
  <2> QED
    BY <1>t, <1>1, <1>3, <1>6, <2>1 DEF add_handler, TypeOK, KernelPc
<1>8. CallsTyped' /\ KernelPlace' /\ RequestsKnown'
  BY <1>t, <1>1 DEF CallsTyped, KernelPlace, RequestsKnown
<1>9. AddOnce' /\ DeleteAfterAdd'
  BY <1>t, <1>1 DEF AddOnce, DeleteAfterAdd, NoReq
<1>10. \A g \in Hid : Adding(g)' <=> Adding(g) /\ g # h
  <2> TAKE g \in Hid
  <2>1. (AddInCall(g)' <=> AddInCall(g)) /\ (AddQueued(g)' <=> AddQueued(g))
    BY <1>1 DEF AddInCall, AddQueued
  <2>2. ~AddInHand(g)'
    BY <1>1 DEF AddInHand, NoReq
  <2>3. AddInHand(g) <=> g = h
    BY <1>4 DEF AddInHand
  <2>4. ~AddQueued(h)
    BY <1>t, <1>2, <1>4 DEF AddQueued, AddOnce
  <2> HIDE DEF h
  <2> QED
    BY <1>3, <2>1, <2>2, <2>3, <2>4 DEF Adding
<1>11. InOnePlace'
  <2>1. \A g \in Hid : Leaving(g)' <=> Leaving(g)
    BY <1>1 DEF Leaving
  <2> HIDE DEF h
  <2> QED
    BY <1>t, <1>1, <1>3, <1>5, <1>6, <1>10, <2>1, OneMoves
<1>12. OnTime'
  <2>1. \A g \in Hid : DeletePending(g) => DeletePending(g)'
    BY <1>1, <1>2 DEF DeletePending
  <2>2. NextDrain' = NextDrain
    BY <1>1 DEF NextDrain
  <2> HIDE DEF h
  <2> QED
    BY <1>t, <1>1, <1>5, <1>6, <2>1, <2>2, StaysOnTime
<1>13. FoundInPlace'
  <2> HIDE DEF h
  <2> QED
    BY <1>1, <1>6, StaysInPlace
<1>14. CallInTime'
  BY <1>1 DEF CallInTime
<1> QED
  BY <1>6, <1>7, <1>8, <1>9, <1>11, <1>12, <1>13, <1>14 DEF KernelInv

(* A handler that a request in hand is to remove is in the tables already, *)
(* or destroyed.                                                           *)
LEMMA DeleteInHand ==
  ASSUME KernelInv, kpc \in {"change", "erase"}, req.op = "delete"
  PROVE  /\ req = [op |-> "delete", h |-> req.h]
         /\ req.h \in Hid /\ ~(req.h > hdlr_id)
         /\ ~Adding(req.h)
         /\ Registered(req.h) \/ destroyed[req.h]
<1>1. req.h \in known /\ req \in Requests
  BY DEF KernelInv, RequestsKnown
<1>2. req.h \in Hid /\ ~(req.h > hdlr_id) /\ ~AddInCall(req.h)
  BY <1>1, KnownNotInCall
<1>3. req = [op |-> "delete", h |-> req.h]
  BY <1>1 DEF Requests
<1>4. ~AddQueued(req.h)
  BY DEF KernelInv, DeleteAfterAdd, AddQueued
<1>5. ~AddInHand(req.h)
  BY <1>3 DEF AddInHand
<1>6. ~Adding(req.h)
  BY <1>2, <1>4, <1>5 DEF Adding
<1> QED
  BY <1>2, <1>3, <1>6 DEF KernelInv, InOnePlace

(* DeleteHandler::change that finds nothing: the handler is destroyed.     *)
LEMMA ChangeDeleteNoneKeepsInv ==
  ASSUME KernelInv, ChangeDeleteNone
  PROVE  KernelInv'
<1>t. TypeOK /\ CallsTyped /\ KernelPlace /\ RequestsKnown /\ AddOnce
      /\ DeleteAfterAdd /\ InOnePlace /\ EnteredOnce /\ OnTime
      /\ FoundInPlace /\ CallInTime
  BY DEF KernelInv
<1> USE DEF hvars, evars, kvars, avars, ovars, histvars
<1>1. /\ kpc = "change" /\ kpc' = "drain" /\ req' = NoReq /\ req.op = "delete"
      /\ Positions(req.h) = {}
      /\ UNCHANGED <<hvars, evars, running, msgs, evs, pos, last, cur, recv,
                     avars, ovars, histvars>>
  BY DEF ChangeDeleteNone
<1>2. /\ req = [op |-> "delete", h |-> req.h] /\ req.h \in Hid
      /\ destroyed[req.h] /\ ~Registered(req.h)
  BY <1>1, DeleteInHand, FindIsRegistered
<1>3. TypeOK'
  BY <1>t, <1>1 DEF TypeOK, KernelPc
<1>4. CallsTyped' /\ KernelPlace' /\ RequestsKnown'
  BY <1>t, <1>1 DEF CallsTyped, KernelPlace, RequestsKnown
<1>5. AddOnce' /\ DeleteAfterAdd'
  BY <1>t, <1>1 DEF AddOnce, DeleteAfterAdd, NoReq
<1>6. \A g \in Hid : /\ Registered(g)' <=> Registered(g)
                     /\ destroyed'[g] <=> destroyed[g]
  BY <1>1 DEF Registered, Vector
<1>7. \A g \in Hid : Adding(g)' <=> Adding(g)
  <2> TAKE g \in Hid
  <2>1. (AddInCall(g)' <=> AddInCall(g)) /\ (AddQueued(g)' <=> AddQueued(g))
    BY <1>1 DEF AddInCall, AddQueued
  <2>2. ~AddInHand(g)' /\ ~AddInHand(g)
    BY <1>1 DEF AddInHand, NoReq
  <2> QED
    BY <2>1, <2>2 DEF Adding
<1>8. InOnePlace'
  <2>1. \A g \in Hid : Leaving(g)' <=> Leaving(g)
    BY <1>1 DEF Leaving
  <2> QED
    BY <1>t, <1>1, <1>6, <1>7, <2>1 DEF InOnePlace
<1>9. EnteredOnce'
  BY <1>t, <1>1 DEF EnteredOnce, Vector
<1>10. OnTime'
  <2>1. \A g \in Hid : \/ DeletePending(g) => DeletePending(g)'
                       \/ destroyed'[g] /\ ~Registered(g)'
    <3> TAKE g \in Hid
    <3>1. req = [op |-> "delete", h |-> g] => g = req.h
      OBVIOUS
    <3>2. CASE g = req.h
      BY <1>2, <1>6, <3>2
    <3>3. CASE g # req.h
      BY <1>1, <3>1, <3>3 DEF DeletePending
    <3> QED
      BY <3>2, <3>3
  <2>2. NextDrain' = NextDrain
    BY <1>1 DEF NextDrain
  <2> QED
    BY <1>t, <1>1, <1>6, <2>1, <2>2, StaysOnTime
<1>11. FoundInPlace'
  BY <1>1, <1>6, StaysInPlace
<1>12. CallInTime' /\ ~torn'
  BY <1>1 DEF CallInTime, KernelInv
<1> QED
  BY <1>3, <1>4, <1>5, <1>8, <1>9, <1>10, <1>11, <1>12 DEF KernelInv

(* DeleteHandler::change: the handler leaves its vector and is destroyed.  *)
LEMMA ChangeEraseKeepsInv ==
  ASSUME KernelInv, ChangeErase, ~torn'
  PROVE  KernelInv'
<1> DEFINE h == req.h
<1>t. TypeOK /\ CallsTyped /\ KernelPlace /\ RequestsKnown /\ AddOnce
      /\ DeleteAfterAdd /\ InOnePlace /\ EnteredOnce /\ OnTime
      /\ FoundInPlace /\ CallInTime
  BY DEF KernelInv
<1> USE DEF hvars, evars, kvars, avars, ovars, histvars
<1>1. /\ kpc = "erase" /\ kpc' = "drain" /\ req' = NoReq
      /\ destroyed' = [destroyed EXCEPT ![h] = TRUE]
      /\ EraseHandler(h)
      /\ UNCHANGED <<handler_map, hdlr_id, ev_id, active, running, msgs, evs,
                     pos, last, cur, recv, avars, ovars, histvars>>
  BY DEF ChangeErase
<1>2. req.op = "delete"
  BY <1>t, <1>1 DEF RequestsKnown
<1>3. /\ req = [op |-> "delete", h |-> h]
      /\ h \in Hid /\ ~(h > hdlr_id) /\ ~Adding(h)
  BY <1>1, <1>2, DeleteInHand
<1>4. /\ handlers' \in [Events -> Seq(Hid)]
      /\ EnteredOnce'
      /\ \A g \in Hid : Registered(g)' <=> Registered(g) /\ g # h
  <2>1. Registered(h)
    BY <1>t, <1>1 DEF FoundInPlace
  <2> QED
    BY <1>t, <1>1, <1>3, <2>1, ErasedFromVector
<1>5. destroyed'[h] /\ \A g \in Hid \ {h} : destroyed'[g] = destroyed[g]
  BY <1>t, <1>1, <1>3 DEF TypeOK
<1>6. TypeOK'
  <2>1. destroyed' \in [Hid -> BOOLEAN]
    BY <1>t, <1>1 DEF TypeOK
  <2>2. torn' \in BOOLEAN
    BY <1>t DEF ChangeErase, AppHasFound, TypeOK
  <2> QED
    BY <1>t, <1>1, <1>4, <2>1, <2>2 DEF TypeOK, KernelPc
<1>7. CallsTyped' /\ KernelPlace' /\ RequestsKnown'
  BY <1>t, <1>1 DEF CallsTyped, KernelPlace, RequestsKnown
<1>8. AddOnce' /\ DeleteAfterAdd'
  BY <1>t, <1>1 DEF AddOnce, DeleteAfterAdd, NoReq
<1>9. \A g \in Hid : Adding(g)' <=> Adding(g)
  <2> TAKE g \in Hid
  <2>1. (AddInCall(g)' <=> AddInCall(g)) /\ (AddQueued(g)' <=> AddQueued(g))
    BY <1>1 DEF AddInCall, AddQueued
  <2>2. ~AddInHand(g)' /\ ~AddInHand(g)
    BY <1>1, <1>2 DEF AddInHand, NoReq
  <2> QED
    BY <2>1, <2>2 DEF Adding
<1>10. InOnePlace'
  <2>1. hdlr_id' = hdlr_id
    BY <1>1
  <2>2. \A g \in Hid : Leaving(g)' <=> Leaving(g)
    BY <1>1 DEF Leaving
  <2> HIDE DEF h
  <2> QED
    BY <1>t, <1>3, <1>4, <1>5, <1>9, <2>1, <2>2, OneMoves
<1>11. OnTime'
  <2>1. \A g \in Hid : \/ DeletePending(g) => DeletePending(g)'
                       \/ destroyed'[g] /\ ~Registered(g)'
    <3> TAKE g \in Hid
    <3>1. req = [op |-> "delete", h |-> g] => g = h
      OBVIOUS
    <3>2. CASE g = h
      BY <1>3, <1>4, <1>5, <3>2
    <3>3. CASE g # h
      BY <1>1, <3>1, <3>3 DEF DeletePending
    <3> QED
      BY <3>2, <3>3
  <2>2. NextDrain' = NextDrain
    BY <1>1 DEF NextDrain
  <2>3. \A g \in Hid : /\ destroyed[g] => destroyed'[g]
                       /\ Registered(g) => Registered(g)' \/ destroyed'[g]
                       /\ ~Registered(g) => ~Registered(g)'
    <3> HIDE DEF h
    <3> QED
      BY <1>4, <1>5
  <2>4. limit' = limit /\ due' = due /\ known' = known
    BY <1>1
  <2> QED
    BY <1>t, <2>1, <2>2, <2>3, <2>4, StaysOnTime
<1>12. FoundInPlace'
  <2>1. opc'["app"] \in Finding => oph["app"] # h
    BY <1>1 DEF ChangeErase, AppHasFound, Finding
  <2>2. \A g \in Hid : destroyed[g] => destroyed'[g]
    <3> HIDE DEF h
    <3> QED
      BY <1>5
  <2>3. opc' = opc /\ oph' = oph
    BY <1>1
  <2> HIDE DEF h
  <2> QED
    BY <1>1, <1>4, <2>1, <2>2, <2>3, StaysInPlace
<1>13. CallInTime'
  BY <1>1 DEF CallInTime
<1> QED
  BY <1>4, <1>6, <1>7, <1>8, <1>10, <1>11, <1>12, <1>13 DEF KernelInv

-----------------------------------------------------------------------------
(* The theorems.                                                           *)

(* Before on() and start() are called nothing is anywhere.                 *)
LEMMA InitKernelInv ==
  ASSUME Init
  PROVE  KernelInv
<1> USE DEF Init
<1>1. (CHOOSE e \in Events : TRUE) \in Events
  BY EventsAssumption
<1>2. TypeOK
  <2>1. handlers \in [Events -> Seq(Hid)] /\ ev_id \in [Hid -> Events]
    <3>1. <<>> \in Seq(Hid)
      OBVIOUS
    <3>2. handlers \in [Events -> Seq(Hid)]
      BY <3>1
    <3> DEFINE any == CHOOSE e \in Events : TRUE
    <3>3. any \in Events /\ ev_id = [h \in Hid |-> any]
      BY <1>1
    <3> HIDE DEF any
    <3>4. ev_id \in [Hid -> Events]
      BY <3>3
    <3> QED
      BY <3>2, <3>4
  <2>2. hdlr_id \in 0 .. MaxHandlers /\ oph \in [Threads -> Hid \cup {0}]
    BY BoundsAssumption
  <2>3. msgs \in Seq(Requests) /\ evs \in Seq(Events)
    OBVIOUS
  <2>4. /\ opc \in [Threads -> OpPc]
        /\ limit \in [Hid -> Nat \cup {NoLimit}]
        /\ due \in [Hid -> Nat \cup {NoLimit}]
    BY DEF OpPc
  <2> QED
    BY <2>1, <2>2, <2>3, <2>4 DEF TypeOK, KernelPc
<1>3. CallsTyped /\ KernelPlace /\ RequestsKnown
  BY DEF CallsTyped, KernelPlace, RequestsKnown, Threads
<1>4. AddOnce /\ DeleteAfterAdd
  BY DEF AddOnce, DeleteAfterAdd, NoReq, Threads
<1>5. \A e \in Events : DOMAIN handlers[e] = {} /\ Vector(e) = {}
  <2> TAKE e \in Events
  <2>1. handlers[e] = <<>>
    OBVIOUS
  <2>2. DOMAIN handlers[e] = {}
    BY <2>1
  <2> QED
    BY <2>2 DEF Vector
<1>6. InOnePlace
  <2>1. \A h \in Hid : ~Registered(h)
    BY <1>1, <1>5 DEF Registered
  <2>2. \A h \in Hid : h > hdlr_id
    BY BoundsAssumption DEF Hid
  <2>3. \A h \in Hid : ~Adding(h)
    BY DEF Adding, AddInCall, AddQueued, AddInHand, NoReq, Threads
  <2> QED
    BY <2>1, <2>2, <2>3 DEF InOnePlace
<1>7. EnteredOnce
  BY <1>5 DEF EnteredOnce
<1>8. OnTime
  BY DEF OnTime
<1>9. FoundInPlace /\ CallInTime
  BY DEF FoundInPlace, CallInTime, Threads
<1> QED
  BY <1>2, <1>3, <1>4, <1>6, <1>7, <1>8, <1>9 DEF KernelInv

(* Every step of either thread keeps the invariant, or tears a vector.     *)
LEMMA NextKernelInv ==
  ASSUME KernelInv, [Next]_vars, ~torn'
  PROVE  KernelInv'
<1>1. CASE KernelThread
  BY <1>1, PullKeepsInv, LoopKeepsInv, TestActiveKeepsInv, TakeRequestKeepsInv,
     ChangeAddKeepsInv, ChangeDeleteNoneKeepsInv, ChangeDeleteKeepsInv,
     ChangeEraseKeepsInv DEF KernelThread
<1>2. ASSUME NEW t \in Threads, HandlerCall(t)
      PROVE  KernelInv'
  <2>1. ASSUME NEW e \in Events, On(t, e)
        PROVE  KernelInv'
    BY <2>1, OnKeepsInv
  <2>2. CASE OnPush(t)
    BY <2>2, OnPushKeepsInv
  <2>3. CASE DestroyPush(t)
    BY <2>3, DestroyPushKeepsInv
  <2>4. ASSUME NEW h \in Hid, Activate(t, h) \/ Deactivate(t, h) \/ Destroy(t, h)
        PROVE  KernelInv'
    BY <2>4, FlagsKeepInv
  <2>5. CASE ActivateSet(t) \/ DeactivateSet(t)
    <3>1. oph[t] \in Hid
      BY <2>5, BoundsAssumption
         DEF KernelInv, CallsTyped, TypeOK, Hid, ActivateSet, DeactivateSet
    <3> QED
      BY <2>5, <3>1, FlagsKeepInv
  <2> QED
    BY <1>2, <2>1, <2>2, <2>3, <2>4, <2>5 DEF HandlerCall
<1>3. CASE AppOnly
  BY <1>3, OnDirectKeepsInv, FindNoneKeepsInv, FindDirectKeepsInv,
     MarkDirectKeepsInv, EraseDirectKeepsInv, LifeKeepsInv DEF AppOnly
<1>4. CASE UNCHANGED vars
  <2>1. UNCHANGED <<handlers, handler_map, hdlr_id, ev_id, torn, active, destroyed,
                    running, msgs, kpc, evs, pos, last, cur, req, recv, main,
                    known, opc, oph, limit, due>>
    BY <1>4 DEF vars, hvars, evars, kvars, avars, ovars, histvars
  <2>2. Calm
    BY <2>1 DEF Calm, Quiet, NoneFound, NoneTested
  <2>3. TypeOK'
    BY <2>1 DEF KernelInv, TypeOK
  <2>4. CallsTyped' /\ KernelPlace' /\ RequestsKnown'
    BY <2>1 DEF KernelInv, CallsTyped, KernelPlace, RequestsKnown
  <2>5. NextDrain' <= NextDrain
    <3>1. recv \in Nat /\ NextDrain' = NextDrain
      BY <2>1 DEF KernelInv, TypeOK, NextDrain
    <3>2. NextDrain = recv \/ NextDrain = recv + 1
      BY DEF NextDrain
    <3> QED
      BY <3>1, <3>2
  <2> QED
    BY <2>2, <2>3, <2>4, <2>5, CalmKeeps
<1> QED
  BY <1>1, <1>2, <1>3, <1>4 DEF Next, Finished

(* A torn vector stays torn.                                               *)
LEMMA TornStays ==
  ASSUME torn, [Next]_vars
  PROVE  torn'
<1> USE DEF hvars, vars
<1>1. CASE KernelThread
  BY <1>1 DEF KernelThread, Boot, PullPkt, PullEnd, BeginEvent, EventsDone,
     EndOfHandlers, SkipHandler, TestActive, EnterCallback, LeaveCallback,
     TakeRequest, DrainDone, ChangeAdd, ChangeDeleteNone, ChangeDelete,
     ChangeErase, Stop
<1>2. ASSUME NEW t \in Threads, HandlerCall(t)
      PROVE  torn'
  BY <1>2 DEF HandlerCall, On, OnPush, Activate, Deactivate, Destroy,
     ActivateSet, DeactivateSet, DestroyPush
<1>3. CASE AppOnly
  BY <1>3 DEF AppOnly, OnDirect, FindNone, FindDirect, MarkDirect, EraseDirect,
     DirectTears, RaceCrash, Start, Join, JoinReturn, Halt, Cancelled, HaltReturn
<1> QED
  BY <1>1, <1>2, <1>3 DEF Next, Finished

(* The inductive invariant of the dispatcher, whatever calls the two       *)
(* threads make on Handler objects, and however they interleave, until     *)
(* both change one vector at the same time.                                *)
THEOREM KernelInvariant == Spec => [](torn \/ KernelInv)
<1>1. Init => KernelInv
  BY InitKernelInv
<1>2. (torn \/ KernelInv) /\ [Next]_vars => (torn \/ KernelInv)'
  <2> SUFFICES ASSUME torn \/ KernelInv, [Next]_vars, ~torn' PROVE KernelInv'
    OBVIOUS
  <2>1. ~torn
    BY TornStays
  <2> QED
    BY <2>1, NextKernelInv
<1> QED
  BY <1>1, <1>2, PTL DEF Spec

(* A handler is on its way into the tables, in its vector, or destroyed -  *)
(* exactly one of them, from on() to the end, but while delete_handler()   *)
(* is at work.                                                             *)
THEOREM HandlersHaveOneHome == Spec => []OneHome
<1>1. torn \/ KernelInv => OneHome
  BY DEF KernelInv, OneHome
<1> QED
  BY <1>1, KernelInvariant, PTL

(* No vector holds a handler twice or one of another event, so an event    *)
(* runs a callback once at most.                                           *)
THEOREM CallbacksRunOnce == Spec => []NoDuplicates
<1>1. torn \/ KernelInv => NoDuplicates
  BY DEF KernelInv, NoDuplicates
<1> QED
  BY <1>1, KernelInvariant, PTL

(* The requests that on() and destroy() queue are carried out by the drain *)
(* after the packet being dispatched, or the next one.                     *)
THEOREM RequestsAreApplied == Spec => []RequestsApplied
<1>1. ASSUME KernelInv
      PROVE  RequestsApplied
  <2> SUFFICES ASSUME NEW h \in Hid
               PROVE  /\ limit[h] # NoLimit /\ recv > limit[h] =>
                           destroyed[h] /\ ~Registered(h)
                      /\ due[h] # NoLimit /\ recv > due[h] =>
                           Registered(h) \/ destroyed[h]
    BY DEF RequestsApplied
  <2>1. recv \in Nat /\ limit[h] \in Nat \cup {NoLimit}
        /\ due[h] \in Nat \cup {NoLimit}
    BY <1>1 DEF KernelInv, TypeOK
  <2>2. NextDrain = recv \/ NextDrain = recv + 1
    BY DEF NextDrain
  <2>3. limit[h] # NoLimit => (destroyed[h] /\ ~Registered(h)) \/ NextDrain <= limit[h]
    BY <1>1 DEF KernelInv, OnTime
  <2>4. due[h] # NoLimit => Registered(h) \/ destroyed[h] \/ NextDrain <= due[h]
    BY <1>1 DEF KernelInv, OnTime
  <2>5. limit[h] # NoLimit /\ recv > limit[h] => destroyed[h] /\ ~Registered(h)
    BY <2>1, <2>2, <2>3
  <2>6. due[h] # NoLimit /\ recv > due[h] => Registered(h) \/ destroyed[h]
    BY <2>1, <2>2, <2>4
  <2> QED
    BY <2>5, <2>6
<1>2. torn \/ KernelInv => RequestsApplied
  BY <1>1 DEF RequestsApplied
<1> QED
  BY <1>2, KernelInvariant, PTL

(* After destroy() has returned no callback is started beyond the packet   *)
(* at whose drain the request is carried out: what the loop has found in   *)
(* the vector was not due before this packet, and a request that comes     *)
(* between is_active() and the call is due at this packet's own drain.     *)
THEOREM NoCallAfterDestroy == Spec => NotCalledAfterDestroy
<1> DEFINE Step == kpc = "call" /\ kpc' = "callback" /\ ~torn
                     => limit[cur] = NoLimit \/ recv <= limit[cur]
<1>1. torn \/ KernelInv => Step
  BY DEF KernelInv, CallInTime
<1>2. (torn \/ KernelInv) /\ [Next]_vars => [Step]_vars
  BY <1>1
<1> QED
  BY <1>2, KernelInvariant, PTL DEF Spec, NotCalledAfterDestroy
=============================================================================
