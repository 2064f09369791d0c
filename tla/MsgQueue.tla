------------------------------ MODULE MsgQueue ------------------------------
(***************************************************************************)
(* The control channel of PacketMachine: MsgQueue<ChangeRequest*> of       *)
(* channel.hpp.  Any thread of the application pushes requests; only the   *)
(* kernel thread pulls them, after a packet and as long as has_msg() says  *)
(* so, which it tests without taking the lock.  pull() throws on an empty  *)
(* queue and leaves the mutex locked: the flag must never promise too much. *)
(***************************************************************************)
EXTENDS Integers, Sequences

CONSTANTS Producers,    \* the threads that push
          MaxMsgs       \* bound: messages each of them pushes

Kernel == "kernel"
Nobody == "nobody"      \* the holder of a free mutex

ASSUME ProducersAssumption == Kernel \notin Producers /\ Nobody \notin Producers
ASSUME MaxMsgsAssumption == MaxMsgs \in Nat

VARIABLES
  queue,     \* queue_, of messages <<producer, number>>
  has_msg,   \* has_msg_
  lock,      \* lock_: who holds the mutex
  ppc,       \* where each producer is in push()
  count,     \* how many messages each producer has pushed or is pushing
  kpc,       \* where the kernel thread is in its loop over the packets
  data,      \* its local data: <<>> or the one message pull() took
  pushed,    \* history: messages in the order of their push_back
  pulled     \* history: messages pull() returned

pvars == <<ppc, count, pushed>>
cvars == <<kpc, data, pulled>>
vars == <<queue, has_msg, lock, pvars, cvars>>

Msg == Producers \X Nat

Init ==
  /\ queue = <<>>
  /\ has_msg = FALSE
  /\ lock = Nobody
  /\ ppc = [p \in Producers |-> "idle"]
  /\ count = [p \in Producers |-> 0]
  /\ kpc = "pkt"
  /\ data = <<>>
  /\ pushed = <<>>
  /\ pulled = <<>>

-----------------------------------------------------------------------------
(* push(), called by a producer.                                           *)

\* pthread_mutex_lock
PushLock(p) ==
  /\ ppc[p] = "idle"
  /\ count[p] < MaxMsgs
  /\ lock = Nobody
  /\ lock' = p
  /\ count' = [count EXCEPT ![p] = @ + 1]
  /\ ppc' = [ppc EXCEPT ![p] = "append"]
  /\ UNCHANGED <<queue, has_msg, pushed, cvars>>

\* queue_.push_back(data)
PushBack(p) ==
  /\ ppc[p] = "append"
  /\ queue' = Append(queue, <<p, count[p]>>)
  /\ pushed' = Append(pushed, <<p, count[p]>>)
  /\ ppc' = [ppc EXCEPT ![p] = "flag"]
  /\ UNCHANGED <<has_msg, lock, count, cvars>>

\* has_msg_ = true
PushFlag(p) ==
  /\ ppc[p] = "flag"
  /\ has_msg' = TRUE
  /\ ppc' = [ppc EXCEPT ![p] = "unlock"]
  /\ UNCHANGED <<queue, lock, count, pushed, cvars>>

\* pthread_mutex_unlock
PushUnlock(p) ==
  /\ ppc[p] = "unlock"
  /\ lock' = Nobody
  /\ ppc' = [ppc EXCEPT ![p] = "idle"]
  /\ UNCHANGED <<queue, has_msg, count, pushed, cvars>>

Push(p) == PushLock(p) \/ PushBack(p) \/ PushFlag(p) \/ PushUnlock(p)

-----------------------------------------------------------------------------
(* The kernel thread: one packet after the other, and while (has_msg())    *)
(* pull() after each.                                                      *)

(* pkt_channel_->pull() returned a packet, which has been decoded and      *)
(* dispatched.                                                             *)
Packet ==
  /\ kpc = "pkt"
  /\ kpc' = "poll"
  /\ UNCHANGED <<queue, has_msg, lock, pvars, data, pulled>>

\* pkt_channel_->pull() returned nullptr: nothing is polled any more
SourceEnds ==
  /\ kpc = "pkt"
  /\ kpc' = "ended"
  /\ UNCHANGED <<queue, has_msg, lock, pvars, data, pulled>>

NoMsg ==
  /\ kpc = "poll"
  /\ ~has_msg
  /\ kpc' = "pkt"
  /\ UNCHANGED <<queue, has_msg, lock, pvars, data, pulled>>

HasMsg ==
  /\ kpc = "poll"
  /\ has_msg
  /\ kpc' = "lock"
  /\ UNCHANGED <<queue, has_msg, lock, pvars, data, pulled>>

PullLock ==
  /\ kpc = "lock"
  /\ lock = Nobody
  /\ lock' = Kernel
  /\ kpc' = "test"
  /\ UNCHANGED <<queue, has_msg, pvars, data, pulled>>

\* Mutant: back() and pop_back() instead of front() and pop_front().
PullBack ==
  /\ kpc = "test"
  /\ kpc' = IF queue = <<>> THEN "threw" ELSE "flag"
  /\ data' = IF queue = <<>> THEN data ELSE <<queue[Len(queue)]>>
  /\ queue' = IF queue = <<>> THEN queue ELSE SubSeq(queue, 1, Len(queue) - 1)
  /\ UNCHANGED <<has_msg, lock, pvars, pulled>>

(* An empty queue: throw, with the mutex held.  Otherwise front() and      *)
(* pop_front().                                                            *)
PullFront ==
  /\ kpc = "test"
  /\ kpc' = IF queue = <<>> THEN "threw" ELSE "flag"
  /\ data' = IF queue = <<>> THEN data ELSE <<Head(queue)>>
  /\ queue' = IF queue = <<>> THEN queue ELSE Tail(queue)
  /\ UNCHANGED <<has_msg, lock, pvars, pulled>>

\* Mutant: the flag is never taken back.
PullFlagKept ==
  /\ kpc = "flag"
  /\ kpc' = "unlock"
  /\ UNCHANGED <<queue, has_msg, lock, pvars, data, pulled>>

\* Mutant: the flag is taken back though messages remain.
PullFlagDropped ==
  /\ kpc = "flag"
  /\ has_msg' = FALSE
  /\ kpc' = "unlock"
  /\ UNCHANGED <<queue, lock, pvars, data, pulled>>

PullFlag ==
  /\ kpc = "flag"
  /\ has_msg' = IF queue = <<>> THEN FALSE ELSE has_msg
  /\ kpc' = "unlock"
  /\ UNCHANGED <<queue, lock, pvars, data, pulled>>

\* unlock and return data
PullUnlock ==
  /\ kpc = "unlock"
  /\ lock' = Nobody
  /\ pulled' = pulled \o data
  /\ data' = <<>>
  /\ kpc' = "poll"
  /\ UNCHANGED <<queue, has_msg, pvars>>

Drain == NoMsg \/ HasMsg \/ PullLock \/ PullFront \/ PullFlag \/ PullUnlock

(* Every producer is done and the kernel thread has ended.                 *)
Finished ==
  /\ \A p \in Producers : ppc[p] = "idle" /\ count[p] = MaxMsgs
  /\ kpc = "ended"
  /\ UNCHANGED vars

Next ==
  \/ \E p \in Producers : Push(p)
  \/ Packet
  \/ SourceEnds
  \/ Drain
  \/ Finished

Spec == Init /\ [][Next]_vars

(* A thread inside push(), and the kernel thread inside its drain loop,    *)
(* run on.  Nothing is assumed of the source: another packet may never     *)
(* come.                                                                   *)
Fairness ==
  /\ WF_vars(Drain)
  /\ \A p \in Producers : WF_vars(PushBack(p) \/ PushFlag(p) \/ PushUnlock(p))

FairSpec == Spec /\ Fairness

-----------------------------------------------------------------------------
(* Properties.                                                             *)

(* Every variable keeps its type.                                          *)
TypeOK ==
  /\ queue \in Seq(Msg)
  /\ has_msg \in BOOLEAN
  /\ lock \in Producers \cup {Kernel, Nobody}
  /\ ppc \in [Producers -> {"idle", "append", "flag", "unlock"}]
  /\ count \in [Producers -> Nat]
  /\ kpc \in {"pkt", "poll", "lock", "test", "flag", "unlock", "threw", "ended"}
  /\ data \in Seq(Msg)
  /\ pushed \in Seq(Msg)
  /\ pulled \in Seq(Msg)

(* pull() never throws: between has_msg(), tested without the lock, and    *)
(* the locked test for an empty queue nobody else takes the message.       *)
PullNeverThrows == kpc # "threw"

(* The flag is right whenever the kernel thread may test it: it promises a *)
(* message only if there is one, and a message whose push() has got past   *)
(* the flag is never hidden.                                               *)
FlagExact ==
  /\ has_msg /\ kpc # "flag" => queue # <<>>
  /\ queue # <<>> /\ (\A p \in Producers : ppc[p] # "flag") => has_msg

(* Requests come out exactly once and in the order they went in, whichever *)
(* threads pushed them.                                                    *)
ExactlyOnceInOrder == pushed = pulled \o data \o queue

(* As long as packets keep coming, a request that was pushed is pulled:    *)
(* the kernel thread polls after a packet, and only then.                  *)
EachMsgPulled ==
  []<><<Packet>>_vars =>
    \A p \in Producers, n \in 1 .. MaxMsgs :
      (\E i \in DOMAIN queue : queue[i] = <<p, n>>)
        ~> (\E i \in DOMAIN pulled : pulled[i] = <<p, n>>)
=============================================================================
