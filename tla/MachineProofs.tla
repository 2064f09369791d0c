--------------------------- MODULE MachineProofs ---------------------------
(***************************************************************************)
(* Proof that neither thread is left running when join() or halt() has     *)
(* returned, that what holds of the packet channel holds from start() to   *)
(* whatever ends the threads, and that join(timeout) waits for the time it *)
(* was given.                                                              *)
(***************************************************************************)
EXTENDS Machine, RingBufferProofs, TLAPS

-----------------------------------------------------------------------------
(* The inductive invariant behind ThreadsGone: who may have cancelled whom *)
(* at which point of the application's life.                               *)

NotYetStarted ==
  /\ main = "config" <=> kpc = "new"
  /\ main \in {"config", "starting"} => ipc = "new"

CancelOrder ==
  /\ kpc = "cancelled" => kcancel
  /\ kcancel => main \in {"haltKernel", "halted", "deleted"}
  /\ ipc = "cancelled" => icancel
  /\ main = "haltKernel" => InputEnded
  /\ main = "joinKernel" => InputEnded \/ expired

MachineInv == EosAfterClose /\ NotYetStarted /\ CancelOrder /\ ThreadsGone

-----------------------------------------------------------------------------
(* A machine as it is constructed: no thread, nothing cancelled.           *)
LEMMA InitMachineInv == MachineInit => MachineInv
BY DEF MachineInit, InitAt, MachineInv, EosAfterClose, NotYetStarted, CancelOrder,
       ThreadsGone, InputEnded, KernelEnded

(* The calls of the application's thread.                                  *)
LEMMA MainKeepsInv ==
  ASSUME MachineInv,
         \/ AddSource \/ StartKernel \/ StartInput \/ CallJoin
         \/ \E now \in Clocks, timeout \in Timeouts : CallTimedJoin(now, timeout)
         \/ JoinInput \/ JoinTimeout \/ JoinAbort \/ JoinKernel
         \/ HaltInput \/ HaltKernel \/ HaltReturn \/ Delete
  PROVE  MachineInv'
<1> USE DEF MachineInv, EosAfterClose, NotYetStarted, CancelOrder, ThreadsGone,
            InputEnded, KernelEnded, Alive, Up, vars, ivars, kvars
<1>1. CASE AddSource BY <1>1 DEF AddSource
<1>2. CASE StartKernel BY <1>2 DEF StartKernel
<1>3. CASE StartInput BY <1>3 DEF StartInput
<1>4. CASE CallJoin BY <1>4 DEF CallJoin
<1>5. CASE JoinInput BY <1>5 DEF JoinInput
<1>6. CASE JoinTimeout BY <1>6 DEF JoinTimeout
<1>7. CASE JoinKernel BY <1>7 DEF JoinKernel
<1>8. CASE HaltInput BY <1>8 DEF HaltInput
<1>9. CASE HaltKernel BY <1>9 DEF HaltKernel
<1>10. CASE HaltReturn BY <1>10 DEF HaltReturn
<1>11. CASE Delete BY <1>11 DEF Delete
<1>12. CASE \E now \in Clocks, timeout \in Timeouts : CallTimedJoin(now, timeout)
  BY <1>12 DEF CallTimedJoin
<1>13. CASE JoinAbort BY <1>13 DEF JoinAbort
<1> QED BY <1>1, <1>2, <1>3, <1>4, <1>5, <1>6, <1>7, <1>8, <1>9, <1>10, <1>11,
           <1>12, <1>13

(* The two threads, cancelled or not.                                      *)
LEMMA ThreadsKeepInv ==
  ASSUME MachineInv,
         CancelInput \/ CancelKernel \/ InputStep \/ ReportFreed \/ KernelStep
  PROVE  MachineInv'
<1> USE DEF MachineInv, EosAfterClose, NotYetStarted, CancelOrder, ThreadsGone,
            InputEnded, KernelEnded, Alive, Up, vars, ivars, kvars, mvars
<1>1. CASE CancelInput BY <1>1 DEF CancelInput
<1>2. CASE CancelKernel BY <1>2 DEF CancelKernel
<1>3. CASE InputStep
  BY <1>3 DEF InputStep, InputNext, Retain, ReadStart, ReadOk, ReadExit,
              ReadError, PushSlot, PushPublish, Close, Report, Throw
<1>5. CASE ReportFreed BY <1>5 DEF ReportFreed
<1>4. CASE KernelStep
  BY <1>4 DEF KernelStep, KernelNext, PullEmpty, PullReady, PullClosed,
              PullWait, PullSlot, PullAdvance, Receive, Decoded
<1> QED BY <1>1, <1>2, <1>3, <1>4, <1>5

(* The invariant holds in every state of every behaviour.                  *)
THEOREM MachineInvariant == MachineSpec => []MachineInv
<1>1. MachineInv /\ [MachineNext]_allvars => MachineInv'
  <2> SUFFICES ASSUME MachineInv, [MachineNext]_allvars PROVE MachineInv' OBVIOUS
  <2>1. CASE MachineOver \/ UNCHANGED allvars
    BY <2>1 DEF MachineOver, allvars, vars, ivars, kvars, mvars, MachineInv,
                EosAfterClose, NotYetStarted, CancelOrder, ThreadsGone,
                InputEnded, KernelEnded
  <2>2. CASE MachineNext /\ ~MachineOver
    BY <2>2, MainKeepsInv, ThreadsKeepInv DEF MachineNext
  <2> QED BY <2>1, <2>2
<1> QED BY InitMachineInv, <1>1, PTL DEF MachineSpec

(* When join() or halt() has returned, both threads have ended - but that  *)
(* after an expired timeout and a failed read the capture thread, past its *)
(* close(), may still be on its way to the end of the process.             *)
THEOREM NoThreadOutlives == MachineSpec => []ThreadsGone
<1>1. MachineInv => ThreadsGone BY DEF MachineInv
<1> QED BY MachineInvariant, <1>1, PTL

-----------------------------------------------------------------------------
(* The packet channel through the life of the machine: what is proved of   *)
(* the two threads in RingBufferProofs holds while they are started,       *)
(* waited for and cancelled.                                               *)

(* The calls of the application that do not touch the channel.             *)
Elsewhere ==
  \/ AddSource \/ CallJoin
  \/ \E now \in Clocks, timeout \in Timeouts : CallTimedJoin(now, timeout)
  \/ JoinInput \/ JoinTimeout \/ JoinAbort \/ JoinKernel
  \/ HaltInput \/ HaltKernel \/ HaltReturn \/ Delete
  \/ MachineOver \/ UNCHANGED allvars

(* A step of the machine is a step of a thread, a start or a cancellation, *)
(* or leaves the channel alone.                                            *)
LEMMA StepKinds ==
  ASSUME [MachineNext]_allvars
  PROVE  \/ [Next]_vars
         \/ StartKernel \/ StartInput \/ CancelInput \/ CancelKernel
         \/ ReportFreed
<1>1. CASE Elsewhere
  <2>1. UNCHANGED vars
    BY <1>1
    DEF Elsewhere, AddSource, CallJoin, CallTimedJoin, JoinInput, JoinTimeout,
        JoinAbort, JoinKernel, HaltInput, HaltKernel, HaltReturn, Delete,
        MachineOver, allvars
  <2> QED BY <2>1
<1>2. CASE InputStep \/ KernelStep
  BY <1>2 DEF InputStep, KernelStep, Next
<1> QED BY <1>1, <1>2 DEF MachineNext, Elsewhere

(* Starting a thread, cancelling it where it can be cancelled, and the     *)
(* read of freed memory after the close() keep the invariant of the        *)
(* channel.                                                                *)
LEMMA LifeKeepsRing ==
  ASSUME RingInv, MachineInv,
         \/ StartKernel \/ StartInput \/ CancelInput \/ CancelKernel
         \/ ReportFreed
  PROVE  RingInv'
<1> USE DEF MachineInv, NotYetStarted, RingInv
<1>1. /\ UNCHANGED <<push_idx, pull_idx, ring, eos, mem, ipkt, sent, kpkt, recv_pkt>>
      /\ \/ kpc = "new" /\ kpc' = "pull" /\ ipc' = ipc
         \/ ipc = "new" /\ ipc' = "retain" /\ kpc' = kpc
         \/ ipc \in {"read", "retain"} /\ ipc' = "cancelled" /\ kpc' = kpc
         \/ kpc \in {"decode", "eos"} /\ kpc' = "cancelled" /\ ipc' = ipc
         \/ /\ ipc = "report" /\ ipc' \in {"throw", "terminated"}
            /\ kpc' = kpc
  BY DEF StartKernel, StartInput, CancelInput, CancelKernel, ReportFreed,
         ivars, kvars
<1>2. TypeOK' BY <1>1 DEF TypeOK, InputPc, KernelPc
<1>3. Taken' = Taken /\ \A i : Distance(i)' = Distance(i)
  BY <1>1 DEF Taken, Distance
<1>4. EosAfterClose' BY <1>1 DEF EosAfterClose
<1>5. SlotsInPlace' BY <1>1 DEF SlotsInPlace
<1>6. InputSlot' /\ InputContent'
  BY <1>1 DEF InputSlot, InputContent, InputHolds
<1>7. KernelReady' /\ KernelSlot'
  BY <1>1, <1>3 DEF KernelReady, KernelSlot
<1>8. Distance(push_idx)' = Distance(push_idx)
  BY <1>1 DEF Distance
<1>9. BacklogIsDistance'
  BY <1>1, <1>3, <1>8 DEF BacklogIsDistance
<1>10. WindowContent'
  BY <1>1, <1>3, <1>8 DEF WindowContent
<1> QED BY <1>2, <1>4, <1>5, <1>6, <1>7, <1>9, <1>10

(* The invariant of the channel holds through the life of the machine.     *)
THEOREM ChannelInvariant == MachineSpec => []RingInv
<1>1. MachineInit => RingInv
  BY InitRingInv DEF MachineInit
<1>2. RingInv /\ MachineInv /\ [MachineNext]_allvars => RingInv'
  <2> SUFFICES ASSUME RingInv, MachineInv, [MachineNext]_allvars PROVE RingInv'
    OBVIOUS
  <2>1. CASE [Next]_vars
    BY <2>1, InputKeepsRing, KernelKeepsRing, StutterKeepsRing DEF Next, Finished
  <2> QED BY <2>1, StepKinds, LifeKeepsRing
<1> QED BY <1>1, <1>2, MachineInvariant, PTL DEF MachineSpec

(* Whenever the threads are started, and wherever join() and halt() find   *)
(* them: no packet is in both threads' hands, and the decoder works on the *)
(* packets of the source, whole and in order.                              *)
THEOREM PacketsSafeThroughLife == MachineSpec => [](NoSlotRace /\ PacketIntact)
<1>1. RingInv => NoSlotRace /\ PacketIntact
  BY RaceFreeFromInv, IntactFromInv
<1> QED BY <1>1, ChannelInvariant, PTL

(* No step of the machine writes into a packet that waits for the decoder  *)
(* or is with it; a cancelled thread leaves it as it is.                   *)
THEOREM OwnedStableThroughLife == MachineSpec => OwnedIsStable
<1>1. RingInv /\ [MachineNext]_allvars => [KeepsOwned]_vars
  <2> SUFFICES ASSUME RingInv, [MachineNext]_allvars PROVE KeepsOwned OBVIOUS
  <2>1. CASE [Next]_vars BY <2>1, OwnedStep
  <2>2. CASE \/ StartKernel \/ StartInput \/ CancelInput \/ CancelKernel
             \/ ReportFreed
    <3>1. mem' = mem
      BY <2>2 DEF StartKernel, StartInput, CancelInput, CancelKernel, ReportFreed
    <3> QED BY <3>1 DEF KeepsOwned
  <2> QED BY <2>1, <2>2, StepKinds
<1>2. OwnedIsStable <=> [][KeepsOwned]_vars BY DEF OwnedIsStable, KeepsOwned
<1> QED BY <1>1, <1>2, ChannelInvariant, PTL DEF MachineSpec

(* While retain() waits for a free slot - with a cancellation pending or   *)
(* not - the kernel thread is there, and its next test finds a packet.     *)
ReaderServes ==
  ipc = "retain" /\ next(push_idx) = pull_idx =>
    /\ kpc \notin {"new", "ended", "cancelled"}
    /\ next(pull_idx) # next(push_idx)

(* The two wait loops never wait for each other, and halt(), which cancels *)
(* the capture thread first, never leaves it without a reader: what        *)
(* RetainReturns and HaltReturns need beside the fairness of the threads.  *)
THEOREM NeverBothWait == MachineSpec => []ReaderServes
<1>1. ASSUME RingInv, MachineInv PROVE ReaderServes
  <2> SUFFICES ASSUME ipc = "retain", next(push_idx) = pull_idx
               PROVE  /\ kpc \notin {"new", "ended", "cancelled"}
                      /\ next(pull_idx) # next(push_idx)
    BY DEF ReaderServes
  <2>1. kpc \notin {"new", "ended", "cancelled"}
    BY <1>1 DEF MachineInv, EosAfterClose, NotYetStarted, CancelOrder,
                ThreadsGone, InputEnded
  <2>2. push_idx \in Index /\ pull_idx \in Index BY <1>1 DEF RingInv, TypeOK
  <2>3. next(pull_idx) # next(push_idx) BY <2>2, NextInIndex, NextInjective
  <2> QED BY <2>1, <2>3
<1>2. RingInv /\ MachineInv => ReaderServes BY <1>1
<1> QED BY <1>2, ChannelInvariant, MachineInvariant, PTL

(* A start is no step of the queue; nor is a cancellation, but where it    *)
(* takes the kernel thread out of a callback: it lets go of the packet.    *)
(* The read of freed memory is none, or the crash.                         *)
LEMMA LifeRefines ==
  ASSUME RingInv, MachineInv,
         \/ StartKernel \/ StartInput \/ CancelInput \/ CancelKernel
         \/ ReportFreed
  PROVE  [Fifo!FNext]_Fifo!fvars
<1> USE DEF MachineInv, NotYetStarted, RingInv
<1>1. /\ UNCHANGED <<push_idx, pull_idx, ring, eos, mem, ipkt, sent, kpkt, recv_pkt>>
      /\ \/ kpc = "new" /\ kpc' = "pull" /\ ipc' = ipc
         \/ ipc = "new" /\ ipc' = "retain" /\ kpc' = kpc
         \/ ipc \in {"read", "retain"} /\ ipc' = "cancelled" /\ kpc' = kpc
         \/ Alive /\ kpc = "eos" /\ kpc' = "cancelled" /\ ipc' = ipc
         \/ Alive /\ kpc = "decode" /\ kpc' = "cancelled" /\ ipc' = ipc
         \/ ipc = "report" /\ ipc' = "throw" /\ kpc' = kpc
         \/ ipc = "report" /\ ipc' = "terminated" /\ kpc' = kpc
  BY DEF StartKernel, StartInput, CancelInput, CancelKernel, ReportFreed,
         ivars, kvars, Up
<1>2. Pending' = Pending
  <2>1. Taken' = Taken BY <1>1 DEF Taken
  <2> QED BY <1>1, <2>1 DEF Pending
<1>6. CASE ipc = "report" /\ ipc' = "terminated" /\ kpc' = kpc
  <2>1. Out' = Out BY <1>1, <1>6 DEF Out
  <2>2. Status \in {"closed", "ended"} /\ Status' = "crashed"
    BY <1>6 DEF Status, Alive, EosAfterClose
  <2> QED BY <1>1, <1>2, <2>1, <2>2 DEF Fifo!FNext, Fifo!Crash
<1>3. Status' = Status \/ (ipc = "report" /\ ipc' = "terminated" /\ kpc' = kpc)
  BY <1>1 DEF Status, Alive
<1>4. CASE Alive /\ kpc = "decode" /\ kpc' = "cancelled" /\ ipc' = ipc
  <2>1. Out # Torn
    BY <1>4, IntactFromInv DEF Out, PacketIntact, KernelSlot, Torn, Taken, TypeOK
  <2>2. Out' = Torn BY <1>4 DEF Out
  <2>3. Status \in {"open", "closed"} /\ Status' = Status
    BY <1>3, <1>4 DEF Status
  <2> QED BY <1>1, <1>2, <2>1, <2>2, <2>3
          DEF Fifo!FNext, Fifo!Release, Fifo!NoPkt, Torn
<1>5. CASE ~(Alive /\ kpc = "decode" /\ kpc' = "cancelled" /\ ipc' = ipc)
  <2>1. Out' = Out BY <1>1, <1>5 DEF Out
  <2> QED BY <1>1, <1>2, <1>3, <1>6, <2>1 DEF Fifo!fvars
<1> QED BY <1>4, <1>5

(* From its construction to its deletion the machine moves packets from    *)
(* the source to the callbacks as the bounded first-in first-out channel   *)
(* of PktFifo does, whichever way the threads end.                         *)
THEOREM MachineImplementsFifo == MachineSpec => Fifo!FSpec
<1>1. MachineInit => Fifo!FInit
  BY InitRefines DEF MachineInit
<1>2. RingInv /\ RingInv' /\ MachineInv /\ [MachineNext]_allvars
        => [Fifo!FNext]_Fifo!fvars
  BY StepKinds, StepRefines, LifeRefines
<1> QED BY <1>1, <1>2, ChannelInvariant, MachineInvariant, PTL
        DEF MachineSpec, Fifo!FSpec

-----------------------------------------------------------------------------
(* The time given to join().                                               *)

(* The carry moves whole seconds and loses none, for any BILLION.          *)
LEMMA CarryIsExact ==
  ASSUME NEW n \in Nat
  PROVE  /\ n \div BILLION \in Nat
         /\ n % BILLION \in 0 .. BILLION - 1
         /\ (n \div BILLION) * BILLION + (n % BILLION) = n
BY TimeAssumption

(* What Thread::join() computes is the time asked for, valid but for one   *)
(* sum of nanoseconds.                                                     *)
LEMMA DeadlineIsExact ==
  ASSUME NEW now \in Clocks, NEW timeout \in Timeouts
  PROVE  LET time == Deadline(now, timeout)
         IN /\ InNsec(time) = InNsec(now) + InNsec(timeout)
            /\ ValidTime(time) \/ time.nsec = BILLION
<1> DEFINE nsec == now.nsec + timeout.nsec
           sec == now.sec + timeout.sec
<1>1. now.nsec \in Nat /\ timeout.nsec \in Nat /\ now.sec \in Nat /\ timeout.sec \in Nat
      /\ BILLION \in Nat
  BY TimeAssumption DEF Times
<1>2. nsec \in Nat /\ sec \in Nat
  BY <1>1
<1>3. sec * BILLION = now.sec * BILLION + timeout.sec * BILLION
  BY <1>1
<1>4. sec * BILLION + nsec = InNsec(now) + InNsec(timeout)
  BY <1>1, <1>3 DEF InNsec
<1>5. CASE nsec > BILLION
  <2> DEFINE q == nsec \div BILLION
             r == nsec % BILLION
  <2>1. q \in Nat /\ r \in 0 .. BILLION - 1 /\ q * BILLION + r = nsec
    BY <1>2, CarryIsExact
  <2>2. Deadline(now, timeout) = [sec |-> sec + q, nsec |-> r]
    BY <1>5 DEF Deadline
  <2> HIDE DEF q, r
  <2>3. (sec + q) * BILLION = sec * BILLION + q * BILLION
    BY <1>1, <1>2, <2>1
  <2>4. sec * BILLION \in Nat /\ q * BILLION \in Nat
    BY <1>1, <1>2, <2>1
  <2>5. (sec + q) * BILLION + r = sec * BILLION + nsec
    BY <2>1, <2>3, <2>4
  <2> QED BY <1>1, <1>4, <2>1, <2>2, <2>5 DEF InNsec, ValidTime
<1>6. CASE ~(nsec > BILLION)
  <2>1. Deadline(now, timeout) = [sec |-> sec, nsec |-> nsec]
    BY <1>6 DEF Deadline
  <2>2. nsec < BILLION \/ nsec = BILLION
    BY <1>1, <1>2, <1>6
  <2> QED BY <1>4, <2>1, <2>2 DEF InNsec, ValidTime
<1> QED BY <1>5, <1>6

(* join(timeout) waits until the time asked for.                           *)
THEOREM JoinWaitsAsAsked == MachineSpec => []TimedJoinExact
<1>1. MachineInit => TimedJoinExact
  BY DEF MachineInit, TimedJoinExact
<1>2. TimedJoinExact /\ [MachineNext]_allvars => TimedJoinExact'
  <2> SUFFICES ASSUME TimedJoinExact, [MachineNext]_allvars PROVE TimedJoinExact'
    OBVIOUS
  <2> USE DEF TimedJoinExact, InNsec, ValidTime
  <2>1. CASE \E now \in Clocks, timeout \in Timeouts : CallTimedJoin(now, timeout)
    BY <2>1, DeadlineIsExact DEF CallTimedJoin
  <2>2. CASE JoinAbort
    BY <2>2 DEF JoinAbort, timevars
  <2>3. CASE \/ AddSource \/ StartKernel \/ StartInput \/ CallJoin \/ JoinInput
             \/ JoinTimeout \/ JoinKernel \/ HaltInput \/ HaltKernel
             \/ HaltReturn \/ Delete
    BY <2>3 DEF AddSource, StartKernel, StartInput, CallJoin, JoinInput,
                JoinTimeout, JoinKernel, HaltInput, HaltKernel, HaltReturn,
                Delete, timevars
  <2>4. CASE \/ CancelInput \/ CancelKernel \/ InputStep \/ ReportFreed
             \/ KernelStep \/ MachineOver \/ UNCHANGED allvars
    BY <2>4 DEF CancelInput, CancelKernel, InputStep, ReportFreed, KernelStep,
                MachineOver, allvars, mvars, timevars
  <2> QED BY <2>1, <2>2, <2>3, <2>4 DEF MachineNext
<1> QED BY <1>1, <1>2, PTL DEF MachineSpec

(* Where the assertion of thread.cc:59 fails (AssertionHolds), the         *)
(* nanoseconds have added up to exactly one second, which the carry at     *)
(* thread.cc:54 leaves in place.                                           *)
AbortCause ==
  /\ main = "timedJoin" => ValidTime(tv) \/ tv.nsec = BILLION
  /\ main = "aborted" => tv.nsec = BILLION

(* join(timeout) fails its assertion for no other sum of clock and timeout. *)
THEOREM AbortsOnWholeSecond == MachineSpec => []AbortCause
<1>1. MachineInit => AbortCause
  BY DEF MachineInit, AbortCause
<1>2. AbortCause /\ [MachineNext]_allvars => AbortCause'
  <2> SUFFICES ASSUME AbortCause, [MachineNext]_allvars PROVE AbortCause'
    OBVIOUS
  <2> USE DEF AbortCause, ValidTime
  <2>1. CASE \E now \in Clocks, timeout \in Timeouts : CallTimedJoin(now, timeout)
    BY <2>1, DeadlineIsExact DEF CallTimedJoin
  <2>2. CASE JoinAbort
    BY <2>2 DEF JoinAbort, timevars
  <2>3. CASE \/ AddSource \/ StartKernel \/ StartInput \/ CallJoin \/ JoinInput
             \/ JoinTimeout \/ JoinKernel \/ HaltInput \/ HaltKernel
             \/ HaltReturn \/ Delete
    BY <2>3 DEF AddSource, StartKernel, StartInput, CallJoin, JoinInput,
                JoinTimeout, JoinKernel, HaltInput, HaltKernel, HaltReturn,
                Delete, timevars
  <2>4. CASE \/ CancelInput \/ CancelKernel \/ InputStep \/ ReportFreed
             \/ KernelStep \/ MachineOver \/ UNCHANGED allvars
    BY <2>4 DEF CancelInput, CancelKernel, InputStep, ReportFreed, KernelStep,
                MachineOver, allvars, mvars, timevars
  <2> QED BY <2>1, <2>2, <2>3, <2>4 DEF MachineNext
<1> QED BY <1>1, <1>2, PTL DEF MachineSpec
=============================================================================
