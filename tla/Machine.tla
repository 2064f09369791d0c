------------------------------- MODULE Machine -------------------------------
(***************************************************************************)
(* The life of a Machine (packetmachine.cc): configuring the data source,  *)
(* start(), join() with and without a timeout, halt() and the destructor,  *)
(* composed with the two threads of RingBuffer that start() creates.       *)
(*                                                                         *)
(* Thread::stop() is pthread_cancel() and pthread_join().  Cancellation is *)
(* deferred: a thread with a pending request ends at its next cancellation *)
(* point.  usleep() is one, in the wait loops of retain() and pull();      *)
(* pcap_next_ex() and a callback may contain one.                          *)
(*                                                                         *)
(* Assertions are compiled in: no build type of CMakeLists.txt defines     *)
(* NDEBUG.                                                                 *)
(*                                                                         *)
(* A call out of its order (start() twice, join() or halt() before start() *)
(* or after the threads were joined) is undefined behaviour of the library *)
(* and is not part of the model.                                           *)
(***************************************************************************)
EXTENDS RingBuffer

CONSTANTS
  BILLION,   \* nanoseconds in a second
  Clocks,    \* readings of CLOCK_REALTIME
  Timeouts   \* timeouts an application may give to join()

Times == [sec : Nat, nsec : Nat]

ASSUME TimeAssumption ==
  /\ BILLION \in Nat \ {0}
  /\ Clocks \subseteq [sec : Nat, nsec : 0 .. BILLION - 1]
  /\ Timeouts \subseteq Times

VARIABLES
  source,    \* cap_ is set
  main,      \* where the application's thread is
  icancel,   \* a cancellation request is pending for the capture thread
  kcancel,   \* ... and for the kernel thread
  expired,   \* a join() has given up waiting for the capture thread
  tv,        \* the time until which join() waits for input_
  until      \* history: the same in nanoseconds, as it should be

NoTime == [sec |-> 0, nsec |-> 0]
NoEnd == 0
timevars == <<tv, until>>
mvars == <<source, main, icancel, kcancel, expired, timevars>>
allvars == <<vars, mvars>>

MachineInit ==
  /\ InitAt("new", "new")
  /\ source = FALSE
  /\ main = "config"
  /\ icancel = FALSE
  /\ kcancel = FALSE
  /\ expired = FALSE
  /\ tv = NoTime
  /\ until = NoEnd

(* pthread_join() returns once the thread has ended, in whatever way.      *)
InputEnded == ipc \in {"done", "cancelled"}
KernelEnded == kpc \in {"ended", "cancelled"}

-----------------------------------------------------------------------------
(* The application's thread.  Nothing happens after std::terminate.        *)

(* add_pcapdev(), add_pcapfile(): a second source is refused, and one that *)
(* cannot be opened leaves the machine as it was.                          *)
AddSource ==
  /\ main = "config"
  /\ ~source
  /\ source' = TRUE
  /\ UNCHANGED <<vars, main, icancel, kcancel, expired, timevars>>

(* start(): refused without a source; the kernel thread comes first ...    *)
StartKernel ==
  /\ main = "config"
  /\ source
  /\ kpc' = "pull"
  /\ main' = "starting"
  /\ UNCHANGED <<push_idx, pull_idx, ring, eos, mem, ivars, kpkt, recv_pkt,
                 source, icancel, kcancel, expired, timevars>>

(* ... then the capture thread.                                            *)
StartInput ==
  /\ Alive
  /\ main = "starting"
  /\ ipc' = "retain"
  /\ main' = "running"
  /\ UNCHANGED <<push_idx, pull_idx, ring, eos, mem, ipkt, sent, kvars, source,
                 icancel, kcancel, expired, timevars>>

CallJoin ==
  /\ Alive
  /\ main = "running"
  /\ main' = "joinInput"
  /\ UNCHANGED <<vars, source, icancel, kcancel, expired, timevars>>

\* Mutant: the nanoseconds are carried over, but not taken off.
Deadline_kept(now, timeout) ==
  LET nsec == now.nsec + timeout.nsec
      sec == now.sec + timeout.sec
  IN IF nsec > BILLION THEN [sec |-> sec + nsec \div BILLION, nsec |-> nsec]
     ELSE [sec |-> sec, nsec |-> nsec]

(* Thread::join(timeout): the time at which the wait ends.                 *)
Deadline(now, timeout) ==
  LET nsec == now.nsec + timeout.nsec
      sec == now.sec + timeout.sec
  IN IF nsec > BILLION
     THEN [sec |-> sec + nsec \div BILLION, nsec |-> nsec % BILLION]
     ELSE [sec |-> sec, nsec |-> nsec]

InNsec(time) == time.sec * BILLION + time.nsec

CallTimedJoin(now, timeout) ==
  /\ Alive
  /\ main = "running"
  /\ tv' = Deadline(now, timeout)
  /\ until' = InNsec(now) + InNsec(timeout)
  /\ main' = "timedJoin"
  /\ UNCHANGED <<vars, source, icancel, kcancel, expired>>

(* input_->join() returns when the thread has ended ...                    *)
JoinInput ==
  /\ Alive
  /\ main \in {"joinInput", "timedJoin"}
  /\ InputEnded
  /\ main' = "joinKernel"
  /\ UNCHANGED <<vars, source, icancel, kcancel, expired, timevars>>

(* pthread_timedjoin_np() takes a time whose nanoseconds are below one     *)
(* second, and answers EINVAL otherwise.                                   *)
ValidTime(time) == time.nsec < BILLION

(* ... or when the time is over: the outcome is not looked at.             *)
JoinTimeout ==
  /\ Alive
  /\ main = "timedJoin"
  /\ ~InputEnded
  /\ ValidTime(tv)
  /\ expired' = TRUE
  /\ main' = "joinKernel"
  /\ UNCHANGED <<vars, source, icancel, kcancel, timevars>>

(* assert(r == 0 || r == ETIMEDOUT) aborts the process.                    *)
JoinAbort ==
  /\ Alive
  /\ main = "timedJoin"
  /\ ~InputEnded
  /\ ~ValidTime(tv)
  /\ main' = "aborted"
  /\ UNCHANGED <<vars, source, icancel, kcancel, expired, timevars>>

\* Mutant: join() gives up on the kernel thread as well.
JoinKernelAnyway ==
  /\ Alive
  /\ main = "joinKernel"
  /\ main' = "joined"
  /\ UNCHANGED <<vars, source, icancel, kcancel, expired, timevars>>

(* kernel_->join(), always without a timeout.                              *)
JoinKernel ==
  /\ Alive
  /\ main = "joinKernel"
  /\ KernelEnded
  /\ main' = "joined"
  /\ UNCHANGED <<vars, source, icancel, kcancel, expired, timevars>>

(* halt(): input_->stop() cancels and waits, then kernel_->stop() does.    *)
HaltInput ==
  /\ Alive
  /\ main = "running"
  /\ icancel' = TRUE
  /\ main' = "haltInput"
  /\ UNCHANGED <<vars, source, kcancel, expired, timevars>>

\* Mutant: the kernel thread is waited for, but not cancelled.
HaltKernelNoCancel ==
  /\ Alive
  /\ main = "haltInput"
  /\ InputEnded
  /\ main' = "haltKernel"
  /\ UNCHANGED <<vars, source, icancel, kcancel, expired, timevars>>

HaltKernel ==
  /\ Alive
  /\ main = "haltInput"
  /\ InputEnded
  /\ kcancel' = TRUE
  /\ main' = "haltKernel"
  /\ UNCHANGED <<vars, source, icancel, expired, timevars>>

HaltReturn ==
  /\ Alive
  /\ main = "haltKernel"
  /\ KernelEnded
  /\ main' = "halted"
  /\ UNCHANGED <<vars, source, icancel, kcancel, expired, timevars>>

(* ~Machine() deletes cap_ and input_, though the capture thread may still *)
(* use them (see ReportFreed).                                             *)
Delete ==
  /\ Alive
  /\ main \in {"joined", "halted"}
  /\ main' = "deleted"
  /\ UNCHANGED <<vars, source, icancel, kcancel, expired, timevars>>

-----------------------------------------------------------------------------
(* Cancellation.                                                           *)

Up == Alive /\ main # "aborted"

CancelInput ==
  /\ Up
  /\ icancel
  /\ ipc = "read" \/ (ipc = "retain" /\ next(push_idx) = pull_idx)
  /\ ipc' = "cancelled"
  /\ UNCHANGED <<push_idx, pull_idx, ring, eos, mem, ipkt, sent, kvars, mvars>>

CancelKernel ==
  /\ Up
  /\ kcancel
  /\ kpc = "decode" \/ (kpc = "eos" /\ ~eos)
  /\ kpc' = "cancelled"
  /\ UNCHANGED <<push_idx, pull_idx, ring, eos, mem, ivars, kpkt, recv_pkt,
                 mvars>>

(* cap_->error() where cap_ and input_ are freed memory: some bytes of it  *)
(* are thrown, or the process crashes at once.                             *)
ReportFreed ==
  /\ Up
  /\ main = "deleted"
  /\ ipc = "report"
  /\ ipc' \in {"throw", "terminated"}
  /\ UNCHANGED <<push_idx, pull_idx, ring, eos, mem, ipkt, sent, kvars, mvars>>

(* A thread does not come back from a usleep() with a request pending.     *)
InputStep ==
  Up /\ InputNext /\ (ipc = "report" => main # "deleted") /\ UNCHANGED mvars
KernelStep ==
  Up /\ KernelNext /\ (kpc = "eos" /\ ~eos => ~kcancel) /\ UNCHANGED mvars

(* Deleted, or the process is gone.                                        *)
MachineOver == (~Up \/ main = "deleted") /\ UNCHANGED allvars

MachineNext ==
  \/ AddSource \/ StartKernel \/ StartInput
  \/ CallJoin \/ \E now \in Clocks, timeout \in Timeouts : CallTimedJoin(now, timeout)
  \/ JoinInput \/ JoinTimeout \/ JoinAbort \/ JoinKernel
  \/ HaltInput \/ HaltKernel \/ HaltReturn \/ Delete
  \/ CancelInput \/ CancelKernel
  \/ InputStep \/ ReportFreed \/ KernelStep
  \/ MachineOver

MachineSpec == MachineInit /\ [][MachineNext]_allvars

(* The scheduler runs every thread; a call in progress is carried on, and  *)
(* the time given to join() comes.  A capture thread that keeps reading    *)
(* comes to a system call in the end.                                      *)
Scheduling ==
  /\ WF_allvars(KernelStep)
  /\ WF_allvars(\/ InputStep /\ (\/ Retain \/ ReadOk \/ PushSlot \/ PushPublish
                                 \/ Close \/ Report \/ Throw)
                \/ ReportFreed)
  /\ WF_allvars(\/ StartInput \/ HaltKernel \/ HaltReturn
                \/ JoinInput \/ JoinTimeout \/ JoinAbort \/ JoinKernel)
  /\ SF_allvars(CancelInput)
  /\ WF_allvars(CancelKernel)

(* A capture file is read on, to its end.                                  *)
FileSource == WF_allvars(Up /\ (ReadStart \/ ReadExit) /\ UNCHANGED mvars)

MachineFairSpec == MachineSpec /\ Scheduling

-----------------------------------------------------------------------------
(* Properties.                                                             *)

(* Once join() or halt() has returned, both threads have ended, so that    *)
(* the Machine can be deleted - with one exception.  A join() whose time   *)
(* has expired returns once the kernel thread, which is waited for, has    *)
(* ended.  By then the capture thread has closed the channel; but if a     *)
(* read failed, it may be on its way from there to the end of the process, *)
(* with cap_->error() still to come (packetmachine.cc:72).                 *)
ThreadsGone ==
  main \in {"joined", "halted", "deleted"} =>
    /\ KernelEnded
    /\ InputEnded \/ (expired /\ ipc \in {"report", "throw", "terminated"})

(* halt() returns, however little the source delivers and however full the *)
(* ring is: both wait loops can be cancelled.                              *)
HaltReturns == main = "haltInput" ~> (main = "halted" \/ ~Alive)

(* join() on a capture file returns, with and without a timeout.           *)
JoinReturns ==
  FileSource =>
    (main \in {"joinInput", "timedJoin"} ~> (main = "joined" \/ ~Up))

(* join(timeout) waits for exactly the time it was given: what the carry   *)
(* takes from the nanoseconds it adds to the seconds.                      *)
TimedJoinExact ==
  main \in {"timedJoin", "aborted"} => InNsec(tv) = until

-----------------------------------------------------------------------------
(* Contradicted by the code.                                               *)

(* thread.cc:59, assert(r == 0 || r == ETIMEDOUT): waiting for a thread    *)
(* with a timeout succeeds or times out.                                   *)
AssertionHolds == main # "aborted"
=============================================================================
