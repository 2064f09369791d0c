-------------------------- MODULE RingBufferProofs --------------------------
(***************************************************************************)
(* Proofs about the packet channel for a ring of any size and a source of  *)
(* any length.                                                             *)
(***************************************************************************)
EXTENDS RingBuffer, TLAPS

-----------------------------------------------------------------------------
(* The inductive invariant behind the safety properties.                   *)

SlotsInPlace == \A i \in Index : ring[i] = i

InputSlot == InputHolds => ipkt = next(push_idx) /\ ipkt # pull_idx

InputContent == ipc \in {"push", "publish"} => mem[ipkt] = sent + 1

KernelReady == kpc \in {"take", "advance"} => push_idx # pull_idx

KernelSlot ==
  /\ kpc = "advance" => kpkt = next(pull_idx)
  /\ kpc \in {"recv", "decode"} => kpkt = pull_idx /\ Taken >= 1

(* Every slot from the reader's to the last published one has its packet   *)
(* (the reader's slot only once a first packet was taken).                 *)
WindowContent ==
  \A i \in Index :
    Distance(i) <= Distance(push_idx) /\ Taken + Distance(i) >= 1
      => mem[i] = Taken + Distance(i)

(* eos_ is set exactly when the capture thread has run close(), and the    *)
(* decoder leaves only after that.                                         *)
EosAfterClose ==
  /\ eos <=> ipc \in {"done", "report", "throw", "terminated"}
  /\ kpc = "ended" => eos

RingInv ==
  /\ TypeOK
  /\ EosAfterClose
  /\ SlotsInPlace
  /\ InputSlot
  /\ InputContent
  /\ KernelReady
  /\ KernelSlot
  /\ BacklogIsDistance
  /\ WindowContent

-----------------------------------------------------------------------------
(* next() of channel.hpp steps by one and wraps after the last slot.       *)
LEMMA NextValue ==
  ASSUME NEW i \in Index
  PROVE  next(i) = IF i = RingSize - 1 THEN 0 ELSE i + 1
  BY RingSizeAssumption DEF next, Index

(* next() never leaves the ring, and never stays where it is.              *)
LEMMA NextInIndex ==
  ASSUME NEW i \in Index
  PROVE  next(i) \in Index /\ next(i) # i
  BY RingSizeAssumption, NextValue DEF Index

(* next() is one to one: equal successors mean equal indices, so pull()'s  *)
(* test next(pull) = next(push) is a test for push = pull.                 *)
LEMMA NextInjective ==
  ASSUME NEW i \in Index, NEW j \in Index, next(i) = next(j)
  PROVE  i = j
  BY RingSizeAssumption, NextValue DEF Index

(* The gap from a slot round the ring to another is less than the ring,    *)
(* and is zero only from a slot to itself.                                 *)
LEMMA GapRange ==
  ASSUME NEW a \in Index, NEW i \in Index
  PROVE  /\ Gap(a, i) \in Nat
         /\ Gap(a, i) < RingSize
         /\ Gap(a, i) = 0 <=> i = a
  BY RingSizeAssumption DEF Gap, Index

(* Two slots at the same gap from a third are the same slot.               *)
LEMMA GapInjective ==
  ASSUME NEW a \in Index, NEW i \in Index, NEW j \in Index,
         Gap(a, i) = Gap(a, j)
  PROVE  i = j
  BY RingSizeAssumption DEF Gap, Index

(* Pushing widens the gap by one, unless it runs into the reader's slot.   *)
LEMMA GapPush ==
  ASSUME NEW a \in Index, NEW b \in Index, next(b) # a
  PROVE  Gap(a, next(b)) = Gap(a, b) + 1
  BY RingSizeAssumption, NextValue DEF Gap, Index

(* Pulling narrows the gap to every slot by one; the slot the reader left  *)
(* becomes the farthest.                                                   *)
LEMMA GapPull ==
  ASSUME NEW a \in Index, NEW i \in Index
  PROVE  Gap(next(a), i) = IF i = a THEN RingSize - 1 ELSE Gap(a, i) - 1
  BY RingSizeAssumption, NextValue DEF Gap, Index

(* The ring as the constructor leaves it, before or after the threads are  *)
(* started: nothing held, nothing pending.                                 *)
LEMMA InitRingInv ==
  ASSUME NEW ip \in {"new", "retain"}, NEW kp \in {"new", "pull"}, InitAt(ip, kp)
  PROVE  RingInv
<1> USE RingSizeAssumption DEF InitAt
<1>1. TypeOK
  <2>1. 0 \in Index BY DEF Index
  <2>2. ring \in [Index -> Index] /\ mem \in [Index -> Nat] BY DEF Torn
  <2> QED BY <2>1, <2>2 DEF TypeOK, InputPc, KernelPc
<1>2. SlotsInPlace BY DEF SlotsInPlace
<1>3. InputSlot /\ InputContent BY DEF InputSlot, InputContent, InputHolds
<1>4. KernelReady /\ KernelSlot BY DEF KernelReady, KernelSlot
<1>5. BacklogIsDistance
  <2>1. Taken = 0 BY DEF Taken
  <2>2. Distance(push_idx) = 0 BY DEF Distance, Gap
  <2> QED BY <2>1, <2>2 DEF BacklogIsDistance
<1>6. WindowContent
  BY <1>1, GapRange DEF WindowContent, TypeOK, Taken, Distance
<1>7. EosAfterClose BY DEF EosAfterClose
<1> QED BY <1>1, <1>2, <1>3, <1>4, <1>5, <1>6, <1>7 DEF RingInv

(* No step takes a variable out of its type.                              *)
LEMMA TypeStep == TypeOK /\ [Next]_vars => TypeOK'
<1> SUFFICES ASSUME TypeOK, [Next]_vars PROVE TypeOK' OBVIOUS
<1> USE NextInIndex DEF TypeOK
<1>1. CASE InputNext
  <2>1. CASE Retain BY <2>1 DEF Retain, kvars, InputPc
  <2>2. CASE ReadStart BY <2>2 DEF ReadStart, kvars, InputPc, Torn
  <2>3. CASE ReadOk BY <2>3 DEF ReadOk, kvars, InputPc
  <2>4. CASE ReadExit BY <2>4 DEF ReadExit, kvars, InputPc
  <2>5. CASE ReadError BY <2>5 DEF ReadError, kvars, InputPc
  <2>6. CASE PushSlot BY <2>6 DEF PushSlot, kvars, InputPc
  <2>7. CASE PushPublish BY <2>7 DEF PushPublish, kvars, InputPc
  <2>8. CASE Close BY <2>8 DEF Close, kvars, InputPc
  <2>9. CASE Report \/ Throw BY <2>9 DEF Report, Throw, kvars, InputPc
  <2> QED BY <1>1, <2>1, <2>2, <2>3, <2>4, <2>5, <2>6, <2>7, <2>8, <2>9
          DEF InputNext
<1>2. CASE KernelNext
  <2>1. CASE PullEmpty BY <2>1 DEF PullEmpty, ivars, KernelPc
  <2>2. CASE PullReady BY <2>2 DEF PullReady, ivars, KernelPc
  <2>3. CASE PullClosed BY <2>3 DEF PullClosed, ivars, KernelPc
  <2>4. CASE PullWait BY <2>4 DEF PullWait, ivars, KernelPc
  <2>5. CASE PullSlot BY <2>5 DEF PullSlot, ivars, KernelPc
  <2>6. CASE PullAdvance BY <2>6 DEF PullAdvance, ivars, KernelPc
  <2>7. CASE Receive BY <2>7 DEF Receive, ivars, KernelPc
  <2>8. CASE Decoded BY <2>8 DEF Decoded, ivars, KernelPc
  <2> QED BY <1>2, <2>1, <2>2, <2>3, <2>4, <2>5, <2>6, <2>7, <2>8
          DEF KernelNext
<1>3. CASE UNCHANGED vars BY <1>3 DEF vars, ivars, kvars
<1> QED BY <1>1, <1>2, <1>3 DEF Next, Finished

(* Every behaviour of the channel keeps its types: for every ring size the *)
(* indices stay in the ring and the locals point at Packet objects.        *)
THEOREM TypeCorrect == Spec => []TypeOK
<1>1. Init => TypeOK BY InitRingInv DEF Init, RingInv
<1> QED BY <1>1, TypeStep, PTL DEF Spec

-----------------------------------------------------------------------------
(* No step sets eos_ but close(), and none lets the decoder leave before.  *)
LEMMA EosStep == RingInv /\ [Next]_vars => EosAfterClose'
  BY DEF RingInv, EosAfterClose, Next, InputNext, KernelNext, Finished, vars,
         ivars, kvars, Retain, ReadStart, ReadOk, ReadExit, ReadError,
         PushSlot, PushPublish, Close, Report, Throw, PullEmpty, PullReady,
         PullClosed, PullWait, PullSlot, PullAdvance, Receive, Decoded

(* Steps of the capture thread preserve the invariant.                     *)
LEMMA InputKeepsRing == RingInv /\ InputNext => RingInv'
<1> SUFFICES ASSUME RingInv, InputNext PROVE RingInv' OBVIOUS
<1>t. TypeOK' /\ EosAfterClose' BY TypeStep, EosStep DEF RingInv, Next
<1>d. /\ push_idx \in Index /\ pull_idx \in Index
      /\ next(push_idx) \in Index
      /\ sent \in Nat /\ Taken \in Nat
      /\ \A i \in Index : Distance(i) \in Nat
  BY NextInIndex, GapRange DEF RingInv, TypeOK, Taken, Distance
<1>1. CASE Retain
  BY <1>1, <1>t, <1>d
  DEF Retain, kvars, RingInv, SlotsInPlace, InputSlot, InputContent,
      InputHolds, KernelReady, KernelSlot, BacklogIsDistance, WindowContent,
      Taken, Distance
<1>2. CASE ReadStart \/ ReadOk
  <2> USE <1>2 DEF ReadStart, ReadOk, kvars
  <2>1. ipkt = next(push_idx) /\ ipkt # pull_idx /\ ipkt \in Index
    BY <1>d DEF RingInv, InputSlot, InputHolds
  <2>2. InputContent' BY <2>1 DEF InputContent, RingInv, TypeOK
  <2>3. Distance(ipkt) = Distance(push_idx) + 1
    BY <1>d, <2>1, GapPush DEF Distance
  <2>4. WindowContent'
    <3> SUFFICES ASSUME NEW i \in Index,
                        Distance(i) <= Distance(push_idx),
                        Taken + Distance(i) >= 1
                 PROVE  mem'[i] = Taken + Distance(i)
      BY DEF WindowContent, Taken, Distance
    <3>1. i # ipkt BY <1>d, <2>3
    <3>2. mem'[i] = mem[i] BY <3>1 DEF RingInv, TypeOK
    <3> QED BY <3>2 DEF RingInv, WindowContent
  <2>5. /\ SlotsInPlace' /\ InputSlot' /\ KernelReady' /\ KernelSlot'
        /\ BacklogIsDistance'
    BY DEF RingInv, SlotsInPlace, InputSlot, InputHolds, KernelReady,
           KernelSlot, BacklogIsDistance, Taken, Distance
  <2> QED BY <1>t, <2>2, <2>4, <2>5 DEF RingInv
<1>3. CASE ReadExit \/ ReadError \/ Close \/ Report \/ Throw
  BY <1>3, <1>t
  DEF ReadExit, ReadError, Close, Report, Throw, kvars, RingInv, SlotsInPlace,
      InputSlot, InputContent, InputHolds, KernelReady, KernelSlot,
      BacklogIsDistance, WindowContent, Taken, Distance
<1>4. CASE PushSlot
  BY <1>4, <1>t
  DEF PushSlot, kvars, RingInv, TypeOK, SlotsInPlace, InputSlot,
      InputContent, InputHolds, KernelReady, KernelSlot, BacklogIsDistance,
      WindowContent, Taken, Distance
<1>5. CASE PushPublish
  <2> USE <1>5 DEF PushPublish, kvars
  <2>1. SlotsInPlace' BY DEF RingInv, SlotsInPlace
  <2>2. InputSlot' /\ InputContent'
    BY DEF InputSlot, InputContent, InputHolds
  <2>3. /\ ipkt = next(push_idx) /\ ipkt # pull_idx
        /\ mem[ipkt] = sent + 1
    BY DEF RingInv, InputSlot, InputContent, InputHolds
  <2>4. KernelReady' /\ KernelSlot'
    BY <2>3 DEF RingInv, KernelReady, KernelSlot, Taken
  <2>5. Distance(ipkt) = Distance(push_idx) + 1
    BY <1>d, <2>3, GapPush DEF Distance
  <2>6. /\ \A i : Distance(i)' = Distance(i)
        /\ Distance(push_idx)' = Distance(push_idx) + 1
        /\ Taken' = Taken
    BY <2>3, <2>5 DEF Distance, Taken
  <2>7. sent - Taken = Distance(push_idx) BY DEF RingInv, BacklogIsDistance
  <2>8. BacklogIsDistance'
    BY <1>d, <2>6, <2>7 DEF BacklogIsDistance
  <2>9. WindowContent'
    <3> SUFFICES ASSUME NEW i \in Index,
                        Distance(i) <= Distance(push_idx) + 1,
                        Taken + Distance(i) >= 1
                 PROVE  mem[i] = Taken + Distance(i)
      BY <2>6 DEF WindowContent
    <3>1. CASE i = ipkt BY <3>1, <1>d, <2>3, <2>5, <2>7
    <3>2. CASE i # ipkt
      <4>1. Distance(i) # Distance(push_idx) + 1
        BY <3>2, <1>d, <2>3, <2>5, GapInjective DEF Distance
      <4>2. Distance(i) <= Distance(push_idx) BY <1>d, <4>1
      <4> QED BY <4>2 DEF RingInv, WindowContent
    <3> QED BY <3>1, <3>2
  <2> QED BY <1>t, <2>1, <2>2, <2>4, <2>8, <2>9 DEF RingInv
<1> QED BY <1>1, <1>2, <1>3, <1>4, <1>5 DEF InputNext

(* Steps of the decoding thread preserve the invariant.                    *)
LEMMA KernelKeepsRing == RingInv /\ KernelNext => RingInv'
<1> SUFFICES ASSUME RingInv, KernelNext PROVE RingInv' OBVIOUS
<1>t. TypeOK' /\ EosAfterClose' BY TypeStep, EosStep DEF RingInv, Next
<1>d. /\ push_idx \in Index /\ pull_idx \in Index
      /\ next(pull_idx) \in Index
      /\ sent \in Nat /\ Taken \in Nat /\ recv_pkt \in Nat
      /\ \A i \in Index : Distance(i) \in Nat
  BY NextInIndex, GapRange DEF RingInv, TypeOK, Taken, Distance
<1>1. CASE PullEmpty \/ PullClosed \/ PullWait \/ Decoded
  BY <1>1, <1>t
  DEF PullEmpty, PullClosed, PullWait, Decoded, ivars, RingInv,
      SlotsInPlace, InputSlot, InputContent, InputHolds, KernelReady,
      KernelSlot, BacklogIsDistance, WindowContent, Taken, Distance
<1>2. CASE PullReady \/ PullSlot
  BY <1>2, <1>t, <1>d
  DEF PullReady, PullSlot, ivars, RingInv, SlotsInPlace, InputSlot,
      InputContent, InputHolds, KernelReady, KernelSlot, BacklogIsDistance,
      WindowContent, Taken, Distance
<1>3. CASE Receive
  <2> USE <1>3 DEF Receive, ivars
  <2>1. Taken' = Taken BY DEF Taken
  <2> QED
    BY <1>t, <2>1
    DEF RingInv, SlotsInPlace, InputSlot, InputContent, InputHolds,
        KernelReady, KernelSlot, BacklogIsDistance, WindowContent, Distance
<1>4. CASE PullAdvance
  <2> USE <1>4 DEF PullAdvance, ivars
  <2>1. SlotsInPlace' BY DEF RingInv, SlotsInPlace
  <2>2. Taken' = Taken + 1 BY DEF Taken
  <2>3. \A i \in Index :
          Distance(i)' = IF i = pull_idx THEN RingSize - 1 ELSE Distance(i) - 1
    BY <1>d, GapPull DEF Distance
  <2>4. push_idx # pull_idx BY DEF RingInv, KernelReady
  <2>5. InputSlot' /\ InputContent'
    <3>1. next(push_idx) # next(pull_idx) BY <1>d, <2>4, NextInjective
    <3> QED BY <3>1 DEF RingInv, InputSlot, InputContent, InputHolds
  <2>6. KernelReady' /\ KernelSlot'
    BY <1>d, <2>2 DEF RingInv, KernelReady, KernelSlot
  <2>7. Distance(push_idx)' = Distance(push_idx) - 1
    <3>1. Distance(push_idx)' = Gap(next(pull_idx), push_idx) BY DEF Distance
    <3> QED BY <1>d, <2>4, <3>1, GapPull DEF Distance
  <2>8. BacklogIsDistance'
    BY <1>d, <2>2, <2>7 DEF RingInv, BacklogIsDistance
  <2>9. WindowContent'
    <3> SUFFICES ASSUME NEW i \in Index,
                        Distance(i)' <= Distance(push_idx) - 1
                 PROVE  mem[i] = Taken + 1 + Distance(i)'
      BY <2>2, <2>7 DEF WindowContent
    <3>1. Distance(push_idx) < RingSize
      BY <1>d, GapRange DEF Distance
    <3>2. i # pull_idx BY <1>d, <2>3, <3>1, RingSizeAssumption
    <3>3. Distance(i)' = Distance(i) - 1 BY <2>3, <3>2
    <3>4. Distance(i) >= 1 BY <1>d, <3>2, GapRange DEF Distance
    <3>5. mem[i] = Taken + Distance(i)
      BY <1>d, <3>3, <3>4 DEF RingInv, WindowContent
    <3> QED BY <1>d, <3>3, <3>5
  <2> QED BY <1>t, <2>1, <2>5, <2>6, <2>8, <2>9 DEF RingInv
<1> QED BY <1>1, <1>2, <1>3, <1>4 DEF KernelNext

(* So does a step that leaves the channel alone.                           *)
LEMMA StutterKeepsRing == RingInv /\ UNCHANGED vars => RingInv'
  BY DEF vars, ivars, kvars, RingInv, TypeOK, SlotsInPlace, InputSlot,
         InputContent, InputHolds, KernelReady, KernelSlot,
         BacklogIsDistance, WindowContent, Taken, Distance, EosAfterClose

(* The invariant holds in every state of every behaviour.                  *)
THEOREM RingInvariant == Spec => []RingInv
<1>1. Init => RingInv BY InitRingInv DEF Init
<1>2. RingInv /\ [Next]_vars => RingInv'
  BY StutterKeepsRing, InputKeepsRing, KernelKeepsRing DEF Next, Finished
<1> QED BY <1>1, <1>2, PTL DEF Spec

-----------------------------------------------------------------------------
(* The slot after the last published one is neither the reader's nor the   *)
(* one it is about to advance to.                                          *)
LEMMA RaceFreeFromInv == ASSUME RingInv PROVE NoSlotRace
<1> SUFFICES ASSUME InputHolds, KernelHolds PROVE ipkt # kpkt
  BY DEF NoSlotRace
<1>1. ipkt = next(push_idx) /\ ipkt # pull_idx BY DEF RingInv, InputSlot
<1>2. CASE kpc = "advance"
  BY <1>1, <1>2, NextInjective
  DEF RingInv, TypeOK, KernelSlot, KernelReady
<1>3. CASE kpc \in {"recv", "decode"}
  BY <1>1, <1>3 DEF RingInv, KernelSlot
<1> QED BY <1>2, <1>3 DEF KernelHolds

(* The capture thread never has the decoder's packet in its hands, for a   *)
(* ring of any size: retain() and pull() need no lock.                     *)
THEOREM SlotRaceFree == Spec => []NoSlotRace
<1>1. RingInv => NoSlotRace BY RaceFreeFromInv
<1> QED BY <1>1, RingInvariant, PTL

(* The reader's slot has the packet the reader took last.                  *)
LEMMA IntactFromInv == ASSUME RingInv PROVE PacketIntact
<1> SUFFICES ASSUME kpc \in {"recv", "decode"}
             PROVE  mem[kpkt] = Taken
  BY DEF PacketIntact
<1>1. kpkt = pull_idx /\ Taken >= 1 /\ pull_idx \in Index
  BY DEF RingInv, TypeOK, KernelSlot
<1>2. Distance(pull_idx) = 0 BY <1>1, GapRange DEF Distance
<1>3. push_idx \in Index /\ Taken \in Nat BY DEF RingInv, TypeOK, Taken
<1>4. Distance(push_idx) >= 0 BY <1>1, <1>3, GapRange DEF Distance
<1>5. mem[pull_idx] = Taken + Distance(pull_idx)
  BY <1>1, <1>2, <1>3, <1>4 DEF RingInv, WindowContent
<1> QED BY <1>1, <1>2, <1>3, <1>5

(* The k-th packet decoded is the k-th packet captured, whole, from pull() *)
(* until its handlers have returned.                                       *)
THEOREM DecodesWholePacketsInOrder == Spec => []PacketIntact
<1>1. RingInv => PacketIntact BY IntactFromInv
<1> QED BY <1>1, RingInvariant, PTL

(* The indices account for every packet under way: full and empty cannot   *)
(* be mistaken for one another.                                            *)
THEOREM IndicesCountBacklog == Spec => []BacklogIsDistance
<1>1. RingInv => BacklogIsDistance BY DEF RingInv
<1> QED BY <1>1, RingInvariant, PTL

(* No Packet object is in two slots.                                       *)
THEOREM SlotsNotAliased == Spec => []NoAliasing
<1>1. RingInv => NoAliasing BY DEF RingInv, SlotsInPlace, NoAliasing
<1> QED BY <1>1, RingInvariant, PTL

(* What OwnedIsStable says of one step.                                    *)
KeepsOwned ==
  \A i \in Index :
    /\ Distance(i) <= Distance(push_idx)
    /\ i = pull_idx => kpc \in {"recv", "decode"}
    => mem'[ring[i]] = mem[ring[i]]

(* A thread writes into the object it retained, or into none.              *)
LEMMA OwnedStep == ASSUME RingInv, [Next]_vars PROVE KeepsOwned
<1> SUFFICES ASSUME NEW i \in Index, Distance(i) <= Distance(push_idx)
             PROVE  mem'[ring[i]] = mem[ring[i]]
  BY DEF KeepsOwned
<1>1. CASE ReadStart \/ ReadOk
  <2>1. ipkt = next(push_idx) /\ ipkt # pull_idx
    BY <1>1 DEF RingInv, InputSlot, InputHolds, ReadStart, ReadOk
  <2>2. push_idx \in Index /\ pull_idx \in Index BY DEF RingInv, TypeOK
  <2>3. Distance(ipkt) = Distance(push_idx) + 1
    BY <2>1, <2>2, GapPush DEF Distance
  <2>4. i # ipkt BY <2>2, <2>3, GapRange DEF Distance
  <2>5. ring[i] = i BY DEF RingInv, SlotsInPlace
  <2> QED BY <1>1, <2>4, <2>5 DEF ReadStart, ReadOk, RingInv, TypeOK
<1>2. CASE ~(ReadStart \/ ReadOk)
  <2>1. mem' = mem
    BY <1>2
    DEF Next, InputNext, KernelNext, Finished, vars, Retain, ReadExit,
        ReadError, PushSlot, PushPublish, Close, Report, Throw, PullEmpty,
        PullReady, PullClosed, PullWait, PullSlot, PullAdvance, Receive,
        Decoded
  <2> QED BY <2>1
<1> QED BY <1>1, <1>2

(* No step writes into a packet that waits for the decoder or is with it.  *)
THEOREM OwnedPacketsStable == Spec => OwnedIsStable
<1>1. RingInv /\ [Next]_vars => [KeepsOwned]_vars BY OwnedStep
<1>2. OwnedIsStable <=> [][KeepsOwned]_vars BY DEF OwnedIsStable, KeepsOwned
<1> QED BY <1>1, <1>2, RingInvariant, PTL DEF Spec

(* Once the source has ended the decoder comes to the test of eos_ only    *)
(* with every packet received, and receives none from there on.  So what   *)
(* is left in the ring at the end (NoPacketLost fails) was published after *)
(* a test that found it empty.                                             *)
DrainsFirst ==
  ipc = "done" =>
    /\ sent' = sent
    /\ kpc \notin {"eos", "ended"} /\ kpc' \in {"eos", "ended"} => recv_pkt' = sent'
    /\ kpc \in {"eos", "ended"} => recv_pkt' = recv_pkt /\ kpc' \in {"eos", "ended"}

(* The part of DrainedOutsideWindow that is about single steps: pull()     *)
(* loses packets in the window between its two tests only.                 *)
THEOREM LosesOnlyInWindow == Spec => [][DrainsFirst]_vars
<1>1. ASSUME RingInv, [Next]_vars PROVE [DrainsFirst]_vars
  <2> SUFFICES ASSUME ipc = "done", Next PROVE DrainsFirst
    BY <1>1 DEF DrainsFirst
  <2> USE DEF DrainsFirst
  <2>1. CASE InputNext
    BY <2>1 DEF InputNext, Retain, ReadStart, ReadOk, ReadExit, ReadError,
                PushSlot, PushPublish, Close, Report, Throw
  <2>2. CASE PullEmpty
    <3>1. push_idx = pull_idx
      BY <2>2, <1>1, NextInjective DEF PullEmpty, RingInv, TypeOK
    <3>2. sent - Taken = 0
      BY <1>1, <3>1, GapRange
      DEF RingInv, TypeOK, BacklogIsDistance, Distance
    <3>3. recv_pkt = sent
      BY <1>1, <2>2, <3>2 DEF RingInv, TypeOK, PullEmpty, Taken
    <3> QED BY <2>2, <3>3 DEF PullEmpty, ivars
  <2>3. CASE PullClosed \/ PullWait
    <3>1. eos BY <1>1 DEF RingInv, EosAfterClose
    <3> QED BY <2>3, <3>1 DEF PullClosed, PullWait, ivars
  <2>4. CASE PullReady \/ PullSlot \/ PullAdvance \/ Receive \/ Decoded
    BY <2>4 DEF PullReady, PullSlot, PullAdvance, Receive, Decoded, ivars
  <2>5. CASE UNCHANGED vars
    BY <2>5 DEF vars, ivars, kvars
  <2> QED BY <2>1, <2>2, <2>3, <2>4, <2>5 DEF Next, KernelNext, Finished
<1> QED BY <1>1, RingInvariant, PTL DEF Spec

-----------------------------------------------------------------------------
(* The refinement: the ring implements the queue of PktFifo.               *)

(* The n numbers that follow t.                                            *)
Count(t, n) == [k \in 1 .. n |-> t + k]

(* What Append, Head and Tail make of consecutive numbers.                 *)
LEMMA CountFacts ==
  ASSUME NEW t \in Nat, NEW n \in Nat
  PROVE  /\ Len(Count(t, n)) = n
         /\ Append(Count(t, n), t + n + 1) = Count(t, n + 1)
         /\ n # 0 => /\ Count(t, n) # <<>>
                     /\ Head(Count(t, n)) = t + 1
                     /\ Tail(Count(t, n)) = Count(t + 1, n - 1)
<1>1. Count(t, n) \in Seq(Nat) /\ Len(Count(t, n)) = n BY DEF Count
<1>2. Append(Count(t, n), t + n + 1) = Count(t, n + 1) BY DEF Count
<1>3. ASSUME n # 0 PROVE Count(t, n) # <<>> /\ Head(Count(t, n)) = t + 1
  BY <1>1, <1>3 DEF Count
<1>4. ASSUME n # 0 PROVE Tail(Count(t, n)) = Count(t + 1, n - 1)
  BY <1>1, <1>4 DEF Count
<1> QED BY <1>1, <1>2, <1>3, <1>4

(* Going k slots on from the reader's slot is the slot at gap k.           *)
LEMMA SlotAtGap ==
  ASSUME NEW a \in Index, NEW k \in Nat, k < RingSize
  PROVE  /\ (a + k) % RingSize \in Index
         /\ Gap(a, (a + k) % RingSize) = k
<1>1. (a + k) % RingSize = IF a + k < RingSize THEN a + k ELSE a + k - RingSize
  BY RingSizeAssumption DEF Index
<1> QED BY <1>1, RingSizeAssumption DEF Gap, Index

(* The slots between the indices hold consecutive packets, from the next   *)
(* one to be taken to the last one published.                              *)
LEMMA PendingIsCount ==
  ASSUME RingInv
  PROVE  /\ Taken \in Nat
         /\ sent - Taken \in Nat
         /\ sent - Taken < RingSize
         /\ Pending = Count(Taken, sent - Taken)
<1>1. /\ Taken \in Nat /\ sent \in Nat
      /\ push_idx \in Index /\ pull_idx \in Index
  BY DEF RingInv, TypeOK, Taken
<1>2. sent - Taken = Distance(push_idx) BY DEF RingInv, BacklogIsDistance
<1>3. sent - Taken \in Nat /\ sent - Taken < RingSize
  BY <1>1, <1>2, GapRange DEF Distance
<1>4. ASSUME NEW k \in 1 .. (sent - Taken)
      PROVE  mem[ring[(pull_idx + k) % RingSize]] = Taken + k
  <2> DEFINE i == (pull_idx + k) % RingSize
  <2>1. k \in Nat /\ k >= 1 /\ k <= sent - Taken /\ k < RingSize
    BY <1>3, RingSizeAssumption
  <2>2. i \in Index /\ Distance(i) = k
    BY <1>1, <2>1, SlotAtGap DEF Distance
  <2> HIDE DEF i
  <2>3. mem[i] = Taken + Distance(i)
    BY <1>1, <1>2, <2>1, <2>2 DEF RingInv, WindowContent
  <2>4. ring[i] = i BY <2>2 DEF RingInv, SlotsInPlace
  <2>5. mem[ring[i]] = Taken + k BY <2>2, <2>3, <2>4
  <2> QED BY <2>5 DEF i
<1>5. Pending = Count(Taken, sent - Taken) BY <1>4 DEF Pending, Count
<1> QED BY <1>1, <1>3, <1>5

(* The ring's initial state is the empty open queue.                       *)
LEMMA InitRefines ==
  ASSUME NEW ip \in {"new", "retain"}, NEW kp \in {"new", "pull"}, InitAt(ip, kp)
  PROVE  Fifo!FInit
<1>1. Taken = 0 /\ sent = 0 BY DEF InitAt, Taken
<1>2. Pending = <<>> BY <1>1 DEF Pending
<1> QED BY <1>1, <1>2
        DEF InitAt, Fifo!FInit, Fifo!NoPkt, Out, Torn, Status, Alive

(* Every step of the two threads is a step of the queue, or leaves it be:  *)
(* PushPublish puts, PullAdvance gets, Decoded releases, Close closes,     *)
(* PullClosed ends, Throw crashes.                                         *)
LEMMA StepRefines ==
  ASSUME RingInv, RingInv', [Next]_vars
  PROVE  [Fifo!FNext]_Fifo!fvars
<1> USE DEF RingInv
<1>p. /\ Taken \in Nat /\ sent - Taken \in Nat /\ sent - Taken < RingSize
      /\ Pending = Count(Taken, sent - Taken)
  BY PendingIsCount
<1>r. (/\ Taken \in Nat /\ sent - Taken \in Nat /\ sent - Taken < RingSize
       /\ Pending = Count(Taken, sent - Taken))'
  BY PendingIsCount, PTL
<1>q. /\ sent' - Taken' < RingSize
      /\ Pending' = Count(Taken', sent' - Taken')
  BY <1>r DEF Count
<1>z. sent \in Nat BY DEF TypeOK
<1>1. CASE PushPublish
  <2> USE <1>1 DEF PushPublish, kvars
  <2>1. Taken' = Taken /\ sent' = sent + 1 BY DEF Taken
  <2>2. Pending' = Count(Taken, sent - Taken + 1)
    BY <1>q, <2>1, <1>p, <1>z DEF Count
  <2>3. Pending' = Append(Pending, sent + 1)
    <3>1. Append(Count(Taken, sent - Taken), Taken + (sent - Taken) + 1)
            = Count(Taken, sent - Taken + 1)
      BY <1>p, CountFacts
    <3>2. Taken + (sent - Taken) + 1 = sent + 1 BY <1>p, <1>z
    <3> QED BY <1>p, <2>2, <3>1, <3>2
  <2>4. Len(Pending) < RingSize - 1
    <3>1. Len(Pending) = sent - Taken BY <1>p, CountFacts
    <3> QED BY <1>p, <1>q, <1>z, <2>1, <3>1, RingSizeAssumption
  <2>5. Status = "open" /\ Status' = "open"
    BY DEF Status, Alive, EosAfterClose
  <2>6. Out' = Out BY DEF Out
  <2> QED BY <2>1, <2>3, <2>4, <2>5, <2>6 DEF Fifo!FNext, Fifo!Put
<1>2. CASE PullAdvance
  <2> USE <1>2 DEF PullAdvance, ivars
  <2>1. Taken' = Taken + 1 /\ sent' = sent BY DEF Taken
  <2>2. sent - Taken # 0
    BY GapRange
    DEF KernelReady, BacklogIsDistance, Distance, TypeOK
  <2>3. Pending # <<>> /\ Head(Pending) = Taken + 1
    BY <1>p, <2>2, CountFacts
  <2>4. Pending' = Tail(Pending)
    <3>1. Tail(Count(Taken, sent - Taken)) = Count(Taken + 1, sent - Taken - 1)
      BY <1>p, <2>2, CountFacts
    <3>2. sent' - Taken' = sent - Taken - 1 BY <1>p, <1>z, <2>1
    <3> QED BY <1>p, <1>q, <2>1, <3>1, <3>2 DEF Count
  <2>5. Out = Torn BY DEF Out
  <2>6. Out' = Taken + 1
    <3>1. PacketIntact' BY <2>1, PTL, IntactFromInv
    <3> QED BY <2>1, <3>1 DEF PacketIntact, Out
  <2>7. Status \in {"open", "closed"} /\ Status' = Status BY DEF Status, Alive
  <2> QED
    BY <2>1, <2>3, <2>4, <2>5, <2>6, <2>7
    DEF Fifo!FNext, Fifo!Get, Fifo!NoPkt, Torn
<1>3. CASE Decoded
  <2> USE <1>3 DEF Decoded, ivars
  <2>1. Pending' = Pending /\ sent' = sent BY DEF Pending, Taken
  <2>2. Out # Torn
    BY IntactFromInv DEF Out, PacketIntact, KernelSlot, Torn, Taken, TypeOK
  <2>3. Out' = Torn BY DEF Out
  <2>4. Status \in {"open", "closed"} /\ Status' = Status BY DEF Status, Alive
  <2> QED BY <2>1, <2>2, <2>3, <2>4
          DEF Fifo!FNext, Fifo!Release, Fifo!NoPkt, Torn
<1>4. CASE Close
  <2> USE <1>4 DEF Close, kvars
  <2>1. Pending' = Pending /\ sent' = sent /\ Out' = Out
    BY DEF Pending, Taken, Out
  <2>2. Status = "open" /\ Status' = "closed"
    BY DEF Status, Alive, EosAfterClose
  <2> QED BY <2>1, <2>2 DEF Fifo!FNext, Fifo!CloseQueue
<1>5. CASE PullClosed
  <2> USE <1>5 DEF PullClosed, ivars
  <2>1. Pending' = Pending /\ sent' = sent BY DEF Pending, Taken
  <2>2. Out = Torn /\ Out' = Torn BY DEF Out
  <2>3. Status = "closed" /\ Status' = "ended" BY DEF Status, Alive
  <2> QED BY <2>1, <2>2, <2>3 DEF Fifo!FNext, Fifo!End, Fifo!NoPkt, Torn
<1>6. CASE Throw
  <2> USE <1>6 DEF Throw, kvars
  <2>1. Pending' = Pending /\ sent' = sent /\ Out' = Out
    BY DEF Pending, Taken, Out
  <2>2. Status \in {"closed", "ended"} /\ Status' = "crashed"
    BY DEF Status, Alive, EosAfterClose
  <2> QED BY <2>1, <2>2 DEF Fifo!FNext, Fifo!Crash
<1>7. CASE \/ Retain \/ ReadStart \/ ReadOk \/ ReadExit \/ ReadError
           \/ PushSlot \/ Report
  <2>1. sent' = sent /\ Taken' = Taken
    BY <1>7 DEF Retain, ReadStart, ReadOk, ReadExit, ReadError, PushSlot, Report,
                kvars, Taken
  <2>2. Pending' = Pending BY <1>p, <1>q, <2>1 DEF Count
  <2>3. Status' = Status
    BY <1>7 DEF Retain, ReadStart, ReadOk, ReadExit, ReadError, PushSlot, Report,
                kvars, Status, Alive
  <2>4. kpc' = kpc
    BY <1>7 DEF Retain, ReadStart, ReadOk, ReadExit, ReadError, PushSlot, Report,
                kvars
  <2>5. Out' = Out
    <3>1. PacketIntact BY IntactFromInv
    <3>2. PacketIntact' BY IntactFromInv, PTL
    <3> QED BY <2>1, <2>4, <3>1, <3>2 DEF PacketIntact, Out
  <2> QED BY <2>1, <2>2, <2>3, <2>5 DEF Fifo!fvars
<1>8. CASE PullEmpty \/ PullReady \/ PullWait \/ PullSlot \/ Receive
  <2>1. /\ sent' = sent /\ Taken' = Taken /\ Pending' = Pending
        /\ Out' = Out /\ Status' = Status
    BY <1>8 DEF PullEmpty, PullReady, PullWait, PullSlot, Receive, ivars,
                Taken, Pending, Out, Status, Alive
  <2> QED BY <2>1 DEF Fifo!fvars
<1>9. CASE UNCHANGED vars
  BY <1>9 DEF vars, ivars, kvars, Fifo!fvars, Pending, Taken, Out, Status,
              Alive
<1> QED BY <1>1, <1>2, <1>3, <1>4, <1>5, <1>6, <1>7, <1>8, <1>9
        DEF Next, InputNext, KernelNext, Finished

(* The lock-free ring implements the bounded first-in first-out channel.   *)
THEOREM RingImplementsFifo == Spec => Fifo!FSpec
<1>1. RingInv /\ RingInv' /\ [Next]_vars => [Fifo!FNext]_Fifo!fvars
  BY StepRefines
<1>2. Init => Fifo!FInit BY InitRefines DEF Init
<1> QED BY <1>1, <1>2, RingInvariant, PTL DEF Spec, Fifo!FSpec
=============================================================================
