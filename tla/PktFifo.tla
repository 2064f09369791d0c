------------------------------- MODULE PktFifo -------------------------------
(***************************************************************************)
(* What the packet channel promises, with no ring, indices or memory: a    *)
(* bounded first-in first-out queue of the numbered packets of one source. *)
(* The consumer holds at most one packet (out) at a time.  Once the source *)
(* has closed the queue the consumer may end - even with packets left in   *)
(* it, which is all that RingBuffer::pull guarantees.                      *)
(***************************************************************************)
EXTENDS Integers, Sequences

CONSTANT Capacity

VARIABLES queue,   \* packets published and not yet taken
          put,     \* how many packets were ever published
          out,     \* the packet the consumer works on, or NoPkt
          status   \* "open", "closed", "ended" (consumer left), "crashed"

fvars == <<queue, put, out, status>>

NoPkt == 0

FInit == /\ queue = <<>>
         /\ put = 0
         /\ out = NoPkt
         /\ status = "open"

Put == /\ status = "open"
       /\ Len(queue) < Capacity
       /\ queue' = Append(queue, put + 1)
       /\ put' = put + 1
       /\ UNCHANGED <<out, status>>

Get == /\ status \in {"open", "closed"}
       /\ out = NoPkt
       /\ queue # <<>>
       /\ out' = Head(queue)
       /\ queue' = Tail(queue)
       /\ UNCHANGED <<put, status>>

Release == /\ status \in {"open", "closed"}
           /\ out # NoPkt
           /\ out' = NoPkt
           /\ UNCHANGED <<queue, put, status>>

CloseQueue == /\ status = "open"
              /\ status' = "closed"
              /\ UNCHANGED <<queue, put, out>>

End == /\ status = "closed"
       /\ out = NoPkt
       /\ status' = "ended"
       /\ UNCHANGED <<queue, put, out>>

(* The source failed: the process goes down with it.                       *)
Crash == /\ status \in {"closed", "ended"}
         /\ status' = "crashed"
         /\ UNCHANGED <<queue, put, out>>

FNext == Put \/ Get \/ Release \/ CloseQueue \/ End \/ Crash

FSpec == FInit /\ [][FNext]_fvars

(* The consumer keeps serving: what is queued is taken, what is taken is   *)
(* released, and after the close it leaves.                                *)
FFairSpec == FSpec /\ WF_fvars(Get \/ Release \/ End)
=============================================================================
