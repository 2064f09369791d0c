--------------------------- MODULE MsgQueueProofs ---------------------------
(***************************************************************************)
(* Proofs about the control channel, for any set of producing threads and  *)
(* any number of messages.                                                 *)
(***************************************************************************)
EXTENDS MsgQueue, TLAPS

-----------------------------------------------------------------------------
(* The inductive invariant behind the safety properties.                   *)

InPull == kpc \in {"test", "flag", "unlock", "threw"}

(* Who is inside the critical section holds the mutex.                     *)
MutexHeld ==
  /\ \A p \in Producers : ppc[p] # "idle" <=> lock = p
  /\ InPull <=> lock = Kernel

(* Once the kernel thread has seen has_msg_ set, it stays set and the      *)
(* queue stays filled until that thread itself pops.                       *)
PromiseKept == kpc \in {"lock", "test"} => has_msg /\ queue # <<>>

(* A producer about to set the flag has put its message into the queue.    *)
FlagDue == \A p \in Producers : ppc[p] = "flag" => queue # <<>>

HandEmpty == kpc \notin {"flag", "unlock"} => data = <<>>

QueueInv ==
  /\ TypeOK
  /\ MutexHeld
  /\ PromiseKept
  /\ FlagDue
  /\ HandEmpty
  /\ PullNeverThrows
  /\ FlagExact
  /\ ExactlyOnceInOrder

-----------------------------------------------------------------------------
(* Appending to the second of two sequences appends to the whole.          *)
LEMMA AppendToConcat ==
  ASSUME NEW d \in Seq(Msg), NEW c \in Seq(Msg), NEW m \in Msg
  PROVE  Append(d \o c, m) = d \o Append(c, m)
  OBVIOUS

(* Taking the head of the queue in hand keeps the whole history.           *)
LEMMA HeadInHand ==
  ASSUME NEW S, NEW a \in Seq(S), NEW c \in Seq(S), c # <<>>
  PROVE  a \o <<Head(c)>> \o Tail(c) = a \o <<>> \o c
  OBVIOUS

(* Handing over what is in hand keeps the whole history.                   *)
LEMMA HandOver ==
  ASSUME NEW S, NEW a \in Seq(S), NEW b \in Seq(S), NEW c \in Seq(S)
  PROVE  (a \o b) \o <<>> \o c = a \o b \o c
  OBVIOUS

(* The queue as its constructor leaves it.                                 *)
LEMMA InitQueueInv == Init => QueueInv
<1> SUFFICES ASSUME Init PROVE QueueInv OBVIOUS
<1> USE DEF Init
<1>1. TypeOK
  <2>1. <<>> \in Seq(Msg) OBVIOUS
  <2>2. /\ ppc \in [Producers -> {"idle", "append", "flag", "unlock"}]
        /\ count \in [Producers -> Nat]
    OBVIOUS
  <2> QED BY <2>1, <2>2 DEF TypeOK
<1>2. MutexHeld /\ PromiseKept /\ HandEmpty /\ FlagDue
  BY ProducersAssumption
  DEF MutexHeld, InPull, PromiseKept, HandEmpty, FlagDue, Kernel, Nobody
<1>3. PullNeverThrows /\ FlagExact BY DEF PullNeverThrows, FlagExact
<1>4. ExactlyOnceInOrder BY DEF ExactlyOnceInOrder
<1> QED BY <1>1, <1>2, <1>3, <1>4 DEF QueueInv

(* push() of any producer preserves the invariant.                         *)
LEMMA PushStep ==
  ASSUME QueueInv, NEW p \in Producers, Push(p)
  PROVE  QueueInv'
<1> USE ProducersAssumption DEF QueueInv, cvars
<1>1. CASE PushLock(p)
  <2> USE <1>1 DEF PushLock
  <2>1. TypeOK' BY DEF TypeOK
  <2>2. MutexHeld' BY DEF MutexHeld, InPull, TypeOK, Nobody, Kernel
  <2>3. /\ PromiseKept' /\ HandEmpty' /\ PullNeverThrows'
        /\ ExactlyOnceInOrder'
    BY DEF PromiseKept, HandEmpty, PullNeverThrows, ExactlyOnceInOrder
  <2>4. FlagExact' /\ FlagDue'
    BY DEF FlagExact, FlagDue, TypeOK, MutexHeld, Nobody
  <2> QED BY <2>1, <2>2, <2>3, <2>4
<1>2. CASE PushBack(p)
  <2> USE <1>2 DEF PushBack
  <2>1. <<p, count[p]>> \in Msg BY DEF TypeOK, Msg
  <2>2. TypeOK' BY <2>1 DEF TypeOK
  <2>3. queue' # <<>> BY DEF TypeOK
  <2>4. MutexHeld' BY DEF MutexHeld, InPull, TypeOK
  <2>5. PromiseKept' /\ HandEmpty' /\ PullNeverThrows'
    BY <2>3 DEF PromiseKept, HandEmpty, PullNeverThrows
  <2>6. FlagExact' /\ FlagDue' BY <2>3 DEF FlagExact, FlagDue, TypeOK
  <2>7. ExactlyOnceInOrder'
    <3> DEFINE m == <<p, count[p]>>
               d == pulled \o data
    <3>1. d \in Seq(Msg) /\ queue \in Seq(Msg) /\ m \in Msg
      BY <2>1 DEF TypeOK
    <3>2. pushed = d \o queue /\ pushed' = Append(pushed, m)
      BY DEF ExactlyOnceInOrder
    <3>3. (pulled \o data \o queue)' = d \o Append(queue, m) OBVIOUS
    <3> HIDE DEF d, m
    <3>4. Append(d \o queue, m) = d \o Append(queue, m)
      BY <3>1, AppendToConcat
    <3> QED BY <3>2, <3>3, <3>4 DEF ExactlyOnceInOrder
  <2> QED BY <2>2, <2>4, <2>5, <2>6, <2>7
<1>3. CASE PushFlag(p)
  <2> USE <1>3 DEF PushFlag
  <2>1. TypeOK' BY DEF TypeOK
  <2>2. MutexHeld' BY DEF MutexHeld, InPull, TypeOK
  <2>3. /\ PromiseKept' /\ HandEmpty' /\ PullNeverThrows'
        /\ ExactlyOnceInOrder'
    BY DEF PromiseKept, HandEmpty, PullNeverThrows, ExactlyOnceInOrder
  <2>4. FlagExact' /\ FlagDue' BY DEF FlagExact, FlagDue, TypeOK
  <2> QED BY <2>1, <2>2, <2>3, <2>4
<1>4. CASE PushUnlock(p)
  <2> USE <1>4 DEF PushUnlock
  <2>1. TypeOK' BY DEF TypeOK
  <2>2. MutexHeld' BY DEF MutexHeld, InPull, TypeOK, Nobody, Kernel
  <2>3. /\ PromiseKept' /\ HandEmpty' /\ PullNeverThrows'
        /\ ExactlyOnceInOrder'
    BY DEF PromiseKept, HandEmpty, PullNeverThrows, ExactlyOnceInOrder
  <2>4. FlagExact' /\ FlagDue' BY DEF FlagExact, FlagDue, TypeOK, MutexHeld
  <2> QED BY <2>1, <2>2, <2>3, <2>4
<1> QED BY <1>1, <1>2, <1>3, <1>4 DEF Push

(* The loop of the kernel thread preserves the invariant.                  *)
LEMMA PullStep ==
  ASSUME QueueInv, Packet \/ SourceEnds \/ Drain
  PROVE  QueueInv'
<1> USE ProducersAssumption DEF QueueInv, pvars
<1>6. CASE Packet \/ SourceEnds \/ NoMsg
  <2>1. /\ UNCHANGED <<queue, has_msg, lock, ppc, count, pushed, data, pulled>>
        /\ kpc \in {"pkt", "poll"} /\ kpc' \in {"pkt", "poll", "ended"}
    BY <1>6 DEF Packet, SourceEnds, NoMsg
  <2>2. TypeOK' BY <2>1 DEF TypeOK
  <2>3. MutexHeld' BY <2>1 DEF MutexHeld, InPull
  <2> QED BY <2>1, <2>2, <2>3
          DEF PromiseKept, HandEmpty, PullNeverThrows, FlagExact, FlagDue,
              ExactlyOnceInOrder
<1>1. CASE HasMsg
  BY <1>1 DEF HasMsg, TypeOK, MutexHeld, InPull, PromiseKept, HandEmpty,
              PullNeverThrows, FlagExact, FlagDue,
              ExactlyOnceInOrder
<1>2. CASE PullLock
  <2> USE <1>2 DEF PullLock
  <2>1. TypeOK' BY DEF TypeOK
  <2>2. MutexHeld' BY DEF MutexHeld, InPull, TypeOK, Nobody, Kernel
  <2> QED BY <2>1, <2>2 DEF PromiseKept, HandEmpty, PullNeverThrows,
                            FlagExact, FlagDue, ExactlyOnceInOrder
<1>3. CASE PullFront
  <2> USE <1>3 DEF PullFront
  <2>1. queue # <<>> BY DEF PromiseKept
  <2>2. Head(queue) \in Msg /\ Tail(queue) \in Seq(Msg) BY <2>1 DEF TypeOK
  <2>3. data = <<>> BY DEF HandEmpty
  <2>4. TypeOK' BY <2>1, <2>2 DEF TypeOK
  <2>5. MutexHeld' BY <2>1 DEF MutexHeld, InPull
  <2>6. PromiseKept' /\ HandEmpty' /\ PullNeverThrows'
    BY <2>1 DEF PromiseKept, HandEmpty, PullNeverThrows
  <2>7. FlagExact' /\ FlagDue'
    BY <2>1, <2>5 DEF FlagExact, FlagDue, PromiseKept, MutexHeld, InPull, Kernel
  <2>8. ExactlyOnceInOrder'
    BY <2>1, <2>3, HeadInHand DEF ExactlyOnceInOrder, TypeOK
  <2> QED BY <2>4, <2>5, <2>6, <2>7, <2>8
<1>4. CASE PullFlag
  <2> USE <1>4 DEF PullFlag
  <2>1. TypeOK' BY DEF TypeOK
  <2>2. MutexHeld' BY DEF MutexHeld, InPull
  <2>3. FlagExact' /\ FlagDue' BY DEF FlagExact, FlagDue
  <2> QED BY <2>1, <2>2, <2>3 DEF PromiseKept, HandEmpty, PullNeverThrows,
                                  ExactlyOnceInOrder
<1>5. CASE PullUnlock
  <2> USE <1>5 DEF PullUnlock
  <2>1. TypeOK' BY DEF TypeOK
  <2>2. MutexHeld' BY DEF MutexHeld, InPull, Nobody, Kernel
  <2>3. ExactlyOnceInOrder' BY HandOver DEF ExactlyOnceInOrder, TypeOK
  <2> QED BY <2>1, <2>2, <2>3 DEF PromiseKept, HandEmpty, PullNeverThrows,
                                  FlagExact, FlagDue
<1> QED BY <1>1, <1>2, <1>3, <1>4, <1>5, <1>6 DEF Drain

(* The invariant holds in every state of every behaviour.                  *)
THEOREM QueueInvariant == Spec => []QueueInv
<1>1. QueueInv /\ UNCHANGED vars => QueueInv'
  BY DEF vars, pvars, cvars, QueueInv, TypeOK, MutexHeld, InPull, PromiseKept,
         HandEmpty, PullNeverThrows, FlagExact, FlagDue, ExactlyOnceInOrder
<1>2. QueueInv /\ [Next]_vars => QueueInv'
  BY <1>1, PushStep, PullStep DEF Next, Finished
<1> QED BY InitQueueInv, <1>2, PTL DEF Spec

(* The kernel thread, the only one that pulls, never meets the exception   *)
(* that would leave the mutex locked.                                      *)
THEOREM PullDoesNotThrow == Spec => []PullNeverThrows
<1>1. QueueInv => PullNeverThrows BY DEF QueueInv
<1> QED BY <1>1, QueueInvariant, PTL

(* The unlocked has_msg() test is right whenever it is made.               *)
THEOREM FlagNeverWrong == Spec => []FlagExact
<1>1. QueueInv => FlagExact BY DEF QueueInv
<1> QED BY <1>1, QueueInvariant, PTL

(* Requests come out exactly once and in the order they went in.           *)
THEOREM PulledInOrder == Spec => []ExactlyOnceInOrder
<1>1. QueueInv => ExactlyOnceInOrder BY DEF QueueInv
<1> QED BY <1>1, QueueInvariant, PTL

-----------------------------------------------------------------------------
(* The refinement: the control channel implements the queue of MsgFifo.  A *)
(* message is in it from the moment that push() sets has_msg_ until pull() *)
(* pops it.                                                                *)

AtFlag == \E p \in Producers : ppc[p] = "flag"
Visible == IF AtFlag THEN SubSeq(queue, 1, Len(queue) - 1) ELSE queue
Requests == INSTANCE MsgFifo WITH
  Messages <- Msg, waiting <- Visible, taken <- pulled \o data

(* A producer that has not set the flag yet finds it set only for messages *)
(* before its own.                                                         *)
FlagOfOthers == AtFlag => (has_msg <=> Len(queue) >= 2)

(* Nobody is between push_back and the flag while another has the mutex.   *)
LEMMA FlagLocked ==
  ASSUME QueueInv, AtFlag
  PROVE  /\ lock \in Producers /\ ppc[lock] = "flag"
         /\ \A p \in Producers : p # lock => ppc[p] = "idle"
         /\ ~InPull
<1>1. PICK p \in Producers : ppc[p] = "flag" BY DEF AtFlag
<1>2. lock = p BY <1>1 DEF QueueInv, MutexHeld
<1> QED BY <1>1, <1>2, ProducersAssumption DEF QueueInv, MutexHeld

(* push() sees to it, and no other step disturbs it.                       *)
LEMMA FlagOfOthersStep ==
  ASSUME QueueInv, FlagOfOthers, [Next]_vars
  PROVE  FlagOfOthers'
<1> USE DEF FlagOfOthers
<1>1. ASSUME NEW p \in Producers, PushBack(p) PROVE FlagOfOthers'
  <2>1. lock = p /\ ~AtFlag
    BY <1>1, FlagLocked DEF PushBack, QueueInv, MutexHeld
  <2>2. kpc # "flag"
    BY <2>1, ProducersAssumption DEF QueueInv, MutexHeld, InPull
  <2>3. has_msg <=> queue # <<>>
    BY <2>1, <2>2 DEF QueueInv, FlagExact, AtFlag
  <2>4. queue \in Seq(Msg) /\ <<p, count[p]>> \in Msg
    BY DEF QueueInv, TypeOK, Msg
  <2>5. Len(queue') = Len(queue) + 1 /\ has_msg' = has_msg
    BY <1>1, <2>4 DEF PushBack
  <2>6. Len(queue) \in Nat /\ (queue # <<>> <=> Len(queue) # 0)
    BY <2>4
  <2> QED BY <2>3, <2>5, <2>6
<1>2. ASSUME NEW p \in Producers, PushLock(p) \/ PushFlag(p) \/ PushUnlock(p)
      PROVE  FlagOfOthers'
  <2>1. ppc \in [Producers -> {"idle", "append", "flag", "unlock"}]
    BY DEF QueueInv, TypeOK
  <2>2. CASE PushFlag(p)
    <3>1. AtFlag /\ lock = p
      BY <2>2 DEF PushFlag, AtFlag, QueueInv, MutexHeld
    <3>2. ~AtFlag'
      BY <2>1, <2>2, <3>1, FlagLocked DEF PushFlag, AtFlag
    <3> QED BY <3>2
  <2>3. CASE PushLock(p) \/ PushUnlock(p)
    <3>1. AtFlag' => AtFlag
      BY <2>1, <2>3 DEF PushLock, PushUnlock, AtFlag
    <3> QED BY <2>3, <3>1 DEF PushLock, PushUnlock
  <2> QED BY <1>2, <2>2, <2>3
<1>3. CASE Packet \/ SourceEnds \/ NoMsg \/ HasMsg \/ PullLock \/ PullUnlock
  BY <1>3 DEF Packet, SourceEnds, NoMsg, HasMsg, PullLock, PullUnlock, pvars,
              AtFlag
<1>4. CASE PullFront \/ PullFlag
  <2>1. InPull BY <1>4 DEF PullFront, PullFlag, InPull
  <2>2. ~AtFlag BY <2>1, FlagLocked
  <2> QED BY <1>4, <2>2 DEF PullFront, PullFlag, pvars, AtFlag
<1>5. CASE UNCHANGED vars
  BY <1>5 DEF vars, pvars, AtFlag
<1> QED BY <1>1, <1>2, <1>3, <1>4, <1>5 DEF Next, Push, Drain, Finished

(* The invariant of the flag, in full.                                     *)
LEMMA FlagOfOthersHolds == Spec => [](QueueInv /\ FlagOfOthers)
<1>1. Init => FlagOfOthers BY DEF Init, FlagOfOthers, AtFlag
<1>2. QueueInv /\ FlagOfOthers /\ [Next]_vars => FlagOfOthers'
  BY FlagOfOthersStep
<1> QED BY <1>1, <1>2, QueueInvariant, PTL DEF Spec

(* Without its last element, a sequence is empty only when it had no other. *)
LEMMA OthersLeft ==
  ASSUME NEW S, NEW q \in Seq(S), q # <<>>
  PROVE  SubSeq(q, 1, Len(q) - 1) # <<>> <=> Len(q) >= 2
<1>1. PICK n \in Nat : n = Len(q) /\ n >= 1 OBVIOUS
<1>2. PICK t : t = SubSeq(q, 1, n - 1) OBVIOUS
<1>3. Len(t) = n - 1 BY <1>1, <1>2
<1>4. CASE n = 1
  BY <1>1, <1>4
<1>5. CASE n >= 2
  <2>1. n - 1 # 0 BY <1>5
  <2>2. Len(<<>>) = 0 OBVIOUS
  <2>3. t # <<>> BY <1>3, <2>1, <2>2, Zenon
  <2> QED BY <1>1, <1>2, <1>5, <2>3
<1> QED BY <1>1, <1>4, <1>5

(* A drain goes on exactly as long as there is a message.                  *)
TestIsExact == kpc = "poll" => (has_msg <=> Visible # <<>>)

(* has_msg(), tested without the lock, is an exact test of the queue that  *)
(* push() and pull() implement: the drain after a packet leaves no message *)
(* behind whose push() had come to set the flag.                           *)
THEOREM TestNeverWrong == Spec => []TestIsExact
<1>1. ASSUME QueueInv, FlagOfOthers PROVE TestIsExact
  <2> SUFFICES ASSUME kpc = "poll" PROVE has_msg <=> Visible # <<>>
    BY DEF TestIsExact
  <2>1. queue \in Seq(Msg) BY <1>1 DEF QueueInv, TypeOK
  <2>2. CASE AtFlag
    <3>1. queue # <<>> BY <1>1, <2>2 DEF AtFlag, QueueInv, FlagDue
    <3>2. Visible = SubSeq(queue, 1, Len(queue) - 1) BY <2>2 DEF Visible
    <3>3. PICK q \in Seq(Msg) : q = queue BY <2>1
    <3>4. SubSeq(q, 1, Len(q) - 1) # <<>> <=> Len(q) >= 2
      BY <3>1, <3>3, OthersLeft
    <3>5. has_msg <=> Len(queue) >= 2 BY <1>1, <2>2 DEF FlagOfOthers
    <3> QED BY <3>2, <3>3, <3>4, <3>5
  <2>3. CASE ~AtFlag
    BY <1>1, <2>3 DEF QueueInv, FlagExact, AtFlag, Visible
  <2> QED BY <2>2, <2>3
<1>2. QueueInv /\ FlagOfOthers => TestIsExact BY <1>1
<1> QED BY <1>2, FlagOfOthersHolds, PTL

(* A sequence is its last element appended to the others.                  *)
LEMMA LastAppended ==
  ASSUME NEW S, NEW q \in Seq(S), q # <<>>
  PROVE  /\ q[Len(q)] \in S
         /\ q = Append(SubSeq(q, 1, Len(q) - 1), q[Len(q)])
  OBVIOUS

(* ... and without it, the others.                                         *)
LEMMA LastRemoved ==
  ASSUME NEW S, NEW q \in Seq(S), NEW m \in S
  PROVE  SubSeq(Append(q, m), 1, Len(Append(q, m)) - 1) = q
  OBVIOUS

(* Setting the flag puts, popping takes, everything else is left to the    *)
(* threads.                                                                *)
LEMMA QueueStepRefines ==
  ASSUME QueueInv, [Next]_vars
  PROVE  [Requests!QNext]_Requests!qvars
<1>t. queue \in Seq(Msg) /\ data \in Seq(Msg) /\ pulled \in Seq(Msg)
      /\ ppc \in [Producers -> {"idle", "append", "flag", "unlock"}]
  BY DEF QueueInv, TypeOK
<1>1. ASSUME NEW p \in Producers, PushBack(p)
      PROVE  UNCHANGED <<Visible, pulled \o data>>
  <2>1. ~AtFlag
    BY <1>1, FlagLocked DEF PushBack, QueueInv, MutexHeld
  <2>2. AtFlag' BY <1>1, <1>t DEF PushBack, AtFlag
  <2>3. <<p, count[p]>> \in Msg BY DEF QueueInv, TypeOK, Msg
  <2>4. Visible' = SubSeq(queue', 1, Len(queue') - 1) BY <2>2 DEF Visible
  <2>5. Visible' = queue BY <1>1, <1>t, <2>3, <2>4, LastRemoved DEF PushBack
  <2> QED BY <1>1, <2>1, <2>5 DEF Visible, PushBack, cvars
<1>2. ASSUME NEW p \in Producers, PushFlag(p)
      PROVE  \E m \in Msg : Requests!Put(m)
  <2>1. AtFlag BY <1>2 DEF PushFlag, AtFlag
  <2>2. lock = p BY <1>2 DEF PushFlag, QueueInv, MutexHeld
  <2>3. ~AtFlag'
    BY <1>2, <1>t, <2>1, <2>2, FlagLocked DEF PushFlag, AtFlag
  <2>4. queue # <<>> BY <2>1 DEF AtFlag, QueueInv, FlagDue
  <2>5. Visible' = Append(Visible, queue[Len(queue)]) /\ queue[Len(queue)] \in Msg
    BY <1>2, <1>t, <2>1, <2>3, <2>4, LastAppended DEF PushFlag, Visible
  <2> QED BY <1>2, <2>5 DEF PushFlag, cvars, Requests!Put
<1>3. CASE PullFront
  <2>1. InPull BY <1>3 DEF PullFront, InPull
  <2>2. ~AtFlag BY <2>1, FlagLocked
  <2>3. ~AtFlag' BY <1>3, <2>2 DEF PullFront, pvars, AtFlag
  <2>4. queue # <<>> BY <1>3 DEF PullFront, QueueInv, PromiseKept
  <2>5. data = <<>> BY <1>3 DEF PullFront, QueueInv, HandEmpty
  <2>6. /\ Visible = queue /\ Visible' = Tail(queue)
        /\ (pulled \o data)' = pulled \o <<Head(queue)>>
    BY <1>3, <2>2, <2>3, <2>4 DEF PullFront, Visible
  <2>7. /\ pulled \o <<Head(queue)>> = Append(pulled, Head(queue))
        /\ pulled \o <<>> = pulled
    BY <1>t, <2>4
  <2>8. Requests!Take BY <2>4, <2>5, <2>6, <2>7 DEF Requests!Take
  <2> QED BY <2>8 DEF Requests!QNext
<1>4. CASE PullUnlock
  <2>1. Visible' = Visible BY <1>4 DEF PullUnlock, pvars, Visible, AtFlag
  <2>2. (pulled \o data)' = (pulled \o data) \o <<>> BY <1>4 DEF PullUnlock
  <2>3. (pulled \o data) \o <<>> = pulled \o data BY <1>t
  <2> QED BY <2>1, <2>2, <2>3 DEF Requests!qvars
<1>5. CASE \/ Packet \/ SourceEnds \/ NoMsg
            \/ HasMsg \/ PullLock \/ PullFlag
  BY <1>5 DEF Packet, SourceEnds, NoMsg, HasMsg, PullLock, PullFlag, pvars, Visible, AtFlag, Requests!qvars
<1>6. ASSUME NEW p \in Producers, PushLock(p) \/ PushUnlock(p)
      PROVE  UNCHANGED <<Visible, pulled \o data>>
  <2>1. AtFlag' <=> AtFlag
    BY <1>6, <1>t DEF PushLock, PushUnlock, AtFlag
  <2> QED BY <1>6, <2>1 DEF PushLock, PushUnlock, Visible, cvars
<1>7. CASE UNCHANGED vars
  BY <1>7 DEF vars, pvars, cvars, Visible, AtFlag, Requests!qvars
<1> QED BY <1>1, <1>2, <1>3, <1>4, <1>5, <1>6, <1>7
        DEF Next, Push, Drain, Finished, Requests!QNext, Requests!qvars

(* The mutex, the flag and the deque implement the queue of requests that  *)
(* Kernel works with, for any set of producing threads.                    *)
THEOREM QueueImplementsFifo == Spec => Requests!QSpec
<1>1. Init => Requests!QInit
  <2> SUFFICES ASSUME Init PROVE Requests!QInit OBVIOUS
  <2>1. Visible = <<>> BY DEF Init, Visible, AtFlag
  <2>2. pulled \o data = <<>> BY DEF Init
  <2> QED BY <2>1, <2>2 DEF Requests!QInit
<1>2. QueueInv /\ [Next]_vars => [Requests!QNext]_Requests!qvars
  BY QueueStepRefines
<1> QED BY <1>1, <1>2, QueueInvariant, PTL DEF Spec, Requests!QSpec
=============================================================================
