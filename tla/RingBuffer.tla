----------------------------- MODULE RingBuffer -----------------------------
(***************************************************************************)
(* The packet channel of PacketMachine: the lock-free ring                 *)
(* RingBuffer<Packet> of channel.hpp, driven by its two threads: the       *)
(* capture thread Input::thread_main (packetmachine.cc) that fills slots,  *)
(* and the decoding thread Kernel::thread_main (kernel.cc) that empties    *)
(* them.  There is no lock: the threads only share the two index atomics,  *)
(* the flag eos_ and the Packet objects, so every access to one of those   *)
(* is a step of its own.                                                   *)
(*                                                                         *)
(* A wait loop (usleep and test again) changes nothing and is a stuttering *)
(* step, as is a read that returns Capture::NONE.                          *)
(***************************************************************************)
EXTENDS Integers, Sequences

CONSTANTS RingSize,   \* ring_size_; 0xfff in the code
          MaxPkts     \* bound: packets the capture source delivers

(* With one slot next(i) = i, and retain() would wait for ever.            *)
ASSUME RingSizeAssumption == RingSize \in Nat /\ RingSize >= 2
ASSUME MaxPktsAssumption == MaxPkts \in Nat

VARIABLES
  push_idx,   \* push_idx_, written by the capture thread only
  pull_idx,   \* pull_idx_, written by the decoding thread only
  ring,       \* ring_: index -> Packet object (a pointer)
  eos,        \* eos_, a plain bool that is written once
  mem,        \* contents of each Packet object: a packet number, or Torn
  ipc,        \* where the capture thread is
  ipkt,       \* its local pkt
  sent,       \* history: packets published by push()
  kpc,        \* where the decoding thread is
  kpkt,       \* its local pkt
  recv_pkt    \* recv_pkt_

ivars == <<ipc, ipkt, sent>>
kvars == <<kpc, kpkt, recv_pkt>>
vars == <<push_idx, pull_idx, ring, eos, mem, ivars, kvars>>

Index == 0 .. RingSize - 1

(* The packets are numbered 1, 2, ... in the order the source delivers     *)
(* them.  Torn is an object whose bytes are no packet: not yet written, or *)
(* half copied by Packet::store.                                           *)
Torn == 0

(* "terminated" is std::terminate: an exception left Input::thread_main,   *)
(* and the whole process is gone.                                          *)
InputPc == {"new", "retain", "read", "copy", "push", "publish", "exit",
            "error", "done", "report", "throw", "terminated", "cancelled"}
KernelPc == {"new", "pull", "eos", "take", "advance", "recv", "decode",
             "ended", "cancelled"}


next(idx) == (idx + 1) % RingSize

(* The threads are at the given places; everything else is as the          *)
(* constructor RingBuffer() leaves it.                                     *)
InitAt(ip, kp) ==
  /\ push_idx = 0
  /\ pull_idx = 0
  /\ ring = [i \in Index |-> i]
  /\ eos = FALSE
  /\ mem = [o \in Index |-> Torn]
  /\ ipc = ip
  /\ ipkt = 0
  /\ sent = 0
  /\ kpc = kp
  /\ kpkt = 0
  /\ recv_pkt = 0

Init == InitAt("retain", "pull")

-----------------------------------------------------------------------------
(* The capture thread: Input::thread_main.                                 *)

\* Mutant: retain() does not wait for the reader.
RetainNoWait ==
  /\ ipc = "retain"
  /\ ipkt' = ring[next(push_idx)]
  /\ ipc' = "read"
  /\ UNCHANGED <<push_idx, pull_idx, ring, eos, mem, sent, kvars>>

\* Mutant: retain() hands out the slot published last.
RetainLast ==
  /\ ipc = "retain"
  /\ next(push_idx) # pull_idx
  /\ ipkt' = ring[push_idx]
  /\ ipc' = "read"
  /\ UNCHANGED <<push_idx, pull_idx, ring, eos, mem, sent, kvars>>

(* retain(): the slot after push_idx_, once the reader is not in it.       *)
Retain ==
  /\ ipc = "retain"
  /\ next(push_idx) # pull_idx
  /\ ipkt' = ring[next(push_idx)]
  /\ ipc' = "read"
  /\ UNCHANGED <<push_idx, pull_idx, ring, eos, mem, sent, kvars>>

(* cap_->read(pkt): pcap has a packet, and Packet::store starts to copy it *)
(* into the retained object.                                               *)
ReadStart ==
  /\ ipc = "read"
  /\ sent < MaxPkts
  /\ mem' = [mem EXCEPT ![ipkt] = Torn]
  /\ ipc' = "copy"
  /\ UNCHANGED <<push_idx, pull_idx, ring, eos, ipkt, sent, kvars>>

(* The copy is complete and read() returns Capture::OK.                    *)
ReadOk ==
  /\ ipc = "copy"
  /\ mem' = [mem EXCEPT ![ipkt] = sent + 1]
  /\ ipc' = "push"
  /\ UNCHANGED <<push_idx, pull_idx, ring, eos, ipkt, sent, kvars>>

(* read() returns Capture::EXIT: the source is at its end.                 *)
ReadExit ==
  /\ ipc = "read"
  /\ ipc' = "exit"
  /\ UNCHANGED <<push_idx, pull_idx, ring, eos, mem, ipkt, sent, kvars>>

(* read() returns Capture::ERROR: pcap failed, or store() got no memory.   *)
ReadError ==
  /\ ipc \in {"read", "copy"}
  /\ ipc' = "error"
  /\ UNCHANGED <<push_idx, pull_idx, ring, eos, mem, ipkt, sent, kvars>>

\* Mutant: push() stores into the slot before the one it publishes.
PushSlotBefore ==
  /\ ipc = "push"
  /\ ring' = [ring EXCEPT ![push_idx] = ipkt]
  /\ ipc' = "publish"
  /\ UNCHANGED <<push_idx, pull_idx, eos, mem, ipkt, sent, kvars>>

(* push(), first half: the pointer goes into the slot ...                  *)
PushSlot ==
  /\ ipc = "push"
  /\ ring' = [ring EXCEPT ![next(push_idx)] = ipkt]
  /\ ipc' = "publish"
  /\ UNCHANGED <<push_idx, pull_idx, eos, mem, ipkt, sent, kvars>>

\* Mutant: the index does not wrap.
PushPublishNoWrap ==
  /\ ipc = "publish"
  /\ push_idx' = push_idx + 1
  /\ sent' = sent + 1
  /\ ipc' = "retain"
  /\ UNCHANGED <<pull_idx, ring, eos, mem, ipkt, kvars>>

(* ... second half: and the slot is published by advancing push_idx_.      *)
PushPublish ==
  /\ ipc = "publish"
  /\ push_idx' = next(push_idx)
  /\ sent' = sent + 1
  /\ ipc' = "retain"
  /\ UNCHANGED <<pull_idx, ring, eos, mem, ipkt, kvars>>

(* close(), after which the thread returns or goes on to throw.            *)
Close ==
  /\ ipc \in {"exit", "error"}
  /\ eos' = TRUE
  /\ ipc' = IF ipc = "exit" THEN "done" ELSE "report"
  /\ UNCHANGED <<push_idx, pull_idx, ring, mem, ipkt, sent, kvars>>

(* The RunTimeError is made from cap_->error(): the capture thread uses    *)
(* its own object and the source once more, after the close().             *)
Report ==
  /\ ipc = "report"
  /\ ipc' = "throw"
  /\ UNCHANGED <<push_idx, pull_idx, ring, eos, mem, ipkt, sent, kvars>>

(* Thrown in thread_main, it meets no catch.                               *)
Throw ==
  /\ ipc = "throw"
  /\ ipc' = "terminated"
  /\ UNCHANGED <<push_idx, pull_idx, ring, eos, mem, ipkt, sent, kvars>>

InputNext == \/ Retain \/ ReadStart \/ ReadOk \/ ReadExit \/ ReadError
             \/ PushSlot \/ PushPublish \/ Close \/ Report \/ Throw

-----------------------------------------------------------------------------
(* The decoding thread: the pull loop of Kernel::thread_main.              *)

Alive == ipc # "terminated"

\* Mutant: eos_ is looked at before the ring is empty.
PullEmptyOrClosed ==
  /\ Alive
  /\ kpc = "pull"
  /\ next(pull_idx) = next(push_idx) \/ eos
  /\ kpc' = "eos"
  /\ UNCHANGED <<push_idx, pull_idx, ring, eos, mem, ivars, kpkt, recv_pkt>>

(* pull(): the loop test finds the ring empty, and goes on to test eos_.   *)
PullEmpty ==
  /\ Alive
  /\ kpc = "pull"
  /\ next(pull_idx) = next(push_idx)
  /\ kpc' = "eos"
  /\ UNCHANGED <<push_idx, pull_idx, ring, eos, mem, ivars, kpkt, recv_pkt>>

\* Mutant: takes without testing for an empty ring.
PullUntested ==
  /\ Alive
  /\ kpc = "pull"
  /\ kpc' = "take"
  /\ UNCHANGED <<push_idx, pull_idx, ring, eos, mem, ivars, kpkt, recv_pkt>>

(* The loop test finds something to take.                                  *)
PullReady ==
  /\ Alive
  /\ kpc = "pull"
  /\ next(pull_idx) # next(push_idx)
  /\ kpc' = "take"
  /\ UNCHANGED <<push_idx, pull_idx, ring, eos, mem, ivars, kpkt, recv_pkt>>

\* Mutant: pull() does not return when the ring is closed.
PullClosedIgnored ==
  /\ Alive
  /\ kpc = "eos"
  /\ eos
  /\ kpc' = "pull"
  /\ UNCHANGED <<push_idx, pull_idx, ring, eos, mem, ivars, kpkt, recv_pkt>>

(* closed(): pull() returns nullptr and the loop of thread_main ends.      *)
PullClosed ==
  /\ Alive
  /\ kpc = "eos"
  /\ eos
  /\ kpc' = "ended"
  /\ UNCHANGED <<push_idx, pull_idx, ring, eos, mem, ivars, kpkt, recv_pkt>>

\* Mutant: after the sleep a packet is taken without a second test.
PullWaitOnce ==
  /\ Alive
  /\ kpc = "eos"
  /\ ~eos
  /\ kpc' = "take"
  /\ UNCHANGED <<push_idx, pull_idx, ring, eos, mem, ivars, kpkt, recv_pkt>>

\* Mutant: sleeps until the ring is closed.
PullWaitClosed ==
  /\ Alive
  /\ kpc = "eos"
  /\ ~eos
  /\ UNCHANGED vars

(* Not closed: sleep, and test again.                                      *)
PullWait ==
  /\ Alive
  /\ kpc = "eos"
  /\ ~eos
  /\ kpc' = "pull"
  /\ UNCHANGED <<push_idx, pull_idx, ring, eos, mem, ivars, kpkt, recv_pkt>>

\* Mutant: reads the slot of the packet before.
PullSlotBefore ==
  /\ Alive
  /\ kpc = "take"
  /\ kpkt' = ring[pull_idx]
  /\ kpc' = "advance"
  /\ UNCHANGED <<push_idx, pull_idx, ring, eos, mem, ivars, recv_pkt>>

(* pkt = ring_[n] ...                                                      *)
PullSlot ==
  /\ Alive
  /\ kpc = "take"
  /\ kpkt' = ring[next(pull_idx)]
  /\ kpc' = "advance"
  /\ UNCHANGED <<push_idx, pull_idx, ring, eos, mem, ivars, recv_pkt>>

(* ... pull_idx_ = n: this releases the slot of the packet before.         *)
PullAdvance ==
  /\ Alive
  /\ kpc = "advance"
  /\ pull_idx' = next(pull_idx)
  /\ kpc' = "recv"
  /\ UNCHANGED <<push_idx, ring, eos, mem, ivars, kpkt, recv_pkt>>

(* recv_pkt_ += 1, and the decoder starts to read the packet's bytes.      *)
Receive ==
  /\ Alive
  /\ kpc = "recv"
  /\ recv_pkt' = recv_pkt + 1
  /\ kpc' = "decode"
  /\ UNCHANGED <<push_idx, pull_idx, ring, eos, mem, ivars, kpkt>>

(* Decoding and the event handlers are done with the packet.               *)
Decoded ==
  /\ Alive
  /\ kpc = "decode"
  /\ kpc' = "pull"
  /\ UNCHANGED <<push_idx, pull_idx, ring, eos, mem, ivars, kpkt, recv_pkt>>

KernelNext == \/ PullEmpty \/ PullReady \/ PullClosed \/ PullWait
              \/ PullSlot \/ PullAdvance \/ Receive \/ Decoded

(* Both threads have left: nothing more happens.                           *)
Finished ==
  /\ ipc = "terminated" \/ (ipc = "done" /\ kpc = "ended")
  /\ UNCHANGED vars

Next == InputNext \/ KernelNext \/ Finished

Spec == Init /\ [][Next]_vars

(* The scheduler runs both threads.  Nothing forces the capture source:    *)
(* a read() may return Capture::NONE for ever, so neither ReadStart nor    *)
(* the end of the source is fair.  The handlers that run inside Decoded    *)
(* are assumed to return.                                                  *)
Fairness ==
  /\ WF_vars(KernelNext)
  /\ WF_vars(Retain \/ ReadOk \/ PushSlot \/ PushPublish \/ Close \/ Report \/ Throw)

FairSpec == Spec /\ Fairness

-----------------------------------------------------------------------------
(* Properties.                                                             *)

(* Every variable keeps its type; in particular next() never leaves the    *)
(* ring, and the locals point at Packet objects of the ring.               *)
TypeOK ==
  /\ push_idx \in Index
  /\ pull_idx \in Index
  /\ ring \in [Index -> Index]
  /\ eos \in BOOLEAN
  /\ mem \in [Index -> Nat]
  /\ ipc \in InputPc
  /\ ipkt \in Index
  /\ sent \in Nat
  /\ kpc \in KernelPc
  /\ kpkt \in Index
  /\ recv_pkt \in Nat

(* Packets taken out of the ring, counted from the advance of pull_idx_.   *)
Taken == IF kpc = "recv" THEN recv_pkt + 1 ELSE recv_pkt

(* How many times next() leads from one index to another.                  *)
Gap(from, to) == IF to >= from THEN to - from ELSE to - from + RingSize

(* How far slot i is ahead of the reader's slot, going round the ring.     *)
Distance(i) == Gap(pull_idx, i)

InputHolds == ipc \in {"read", "copy", "push", "publish"}
KernelHolds == kpc \in {"advance", "recv", "decode"}

(* The object that retain() handed to the capture thread and the one that  *)
(* pull() handed to the decoder are never the same, though no lock guards  *)
(* them: only the reader's slot pull_idx_ is kept out of retain().         *)
NoSlotRace == InputHolds /\ KernelHolds => ipkt # kpkt

(* The k-th packet the decoder works on is the k-th packet of the source,  *)
(* whole, and stays so until the handlers have returned: pull() neither    *)
(* skips, repeats nor reorders, and nobody overwrites it meanwhile.        *)
PacketIntact == kpc \in {"recv", "decode"} => mem[kpkt] = Taken

(* The distance between the two indices is the number of packets under way *)
(* (full is never mistaken for empty), so at most RingSize - 1 wait.       *)
BacklogIsDistance == sent - Taken = Distance(push_idx)

(* push() stores back the very pointer retain() took from that slot: no    *)
(* Packet object is ever in two slots (and deleted twice by ~RingBuffer).  *)
NoAliasing == \A i, j \in Index : ring[i] = ring[j] => i = j

(* While the decoder has a packet, or a published packet waits for it, no  *)
(* step writes into that object.                                           *)
OwnedIsStable ==
  [][\A i \in Index :
        /\ Distance(i) <= Distance(push_idx)
        /\ i = pull_idx => kpc \in {"recv", "decode"}
        => mem'[ring[i]] = mem[ring[i]]]_vars

(* close() wakes the decoder: once eos_ is set the kernel thread ends (or  *)
(* the process is gone).  Machine::join() relies on it.                    *)
CloseEndsKernel == eos ~> (kpc = "ended" \/ ~Alive)

(* retain() does not wait for ever: a full ring is emptied.                *)
RetainReturns == ipc = "retain" ~> ipc = "read"

(* Unless the decoder was between its two tests - ring empty, then eos_ -  *)
(* when the source ended, every packet that was pushed gets decoded.       *)
DrainedOutsideWindow ==
  (ipc = "done" /\ kpc \notin {"eos", "ended"}) ~> (recv_pkt = sent)

(* The ring as a queue: the contents of the slots after the reader's one.  *)
Pending == [k \in 1 .. (sent - Taken) |-> mem[ring[(pull_idx + k) % RingSize]]]

(* The packet the decoder works on, and how far the channel has come.      *)
Out == IF kpc \in {"recv", "decode"} THEN mem[kpkt] ELSE Torn
Status == IF ~Alive THEN "crashed"
          ELSE IF kpc = "ended" THEN "ended"
          ELSE IF eos THEN "closed" ELSE "open"

Fifo == INSTANCE PktFifo WITH
  Capacity <- RingSize - 1, queue <- Pending, put <- sent,
  out <- Out, status <- Status

(* The ring implements the bounded first-in first-out channel of PktFifo,  *)
(* the consumer's progress included.                                       *)
ImplementsFifo == Fifo!FFairSpec

(* What test/Channel.cc and test/Machine.cc expect of every run that ends  *)
(* normally: as many packets are received as were sent.                    *)
NoPacketLost == ipc = "done" /\ kpc = "ended" => recv_pkt = sent
=============================================================================
