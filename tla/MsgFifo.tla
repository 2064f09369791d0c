------------------------------ MODULE MsgFifo ------------------------------
(***************************************************************************)
(* What the control channel promises, with no mutex, flag or deque: a      *)
(* queue that any thread puts messages into and one thread takes them from *)
(* in order, each in one step.  It is the queue of requests that Kernel    *)
(* works with.                                                             *)
(***************************************************************************)
EXTENDS Sequences

CONSTANT Messages

VARIABLES waiting,   \* messages put and not taken: what has_msg() tells of
          taken      \* messages taken, in their order

qvars == <<waiting, taken>>

QInit == waiting = <<>> /\ taken = <<>>

Put(m) ==
  /\ waiting' = Append(waiting, m)
  /\ UNCHANGED taken

Take ==
  /\ waiting # <<>>
  /\ taken' = Append(taken, Head(waiting))
  /\ waiting' = Tail(waiting)

QNext == (\E m \in Messages : Put(m)) \/ Take

QSpec == QInit /\ [][QNext]_qvars
=============================================================================
