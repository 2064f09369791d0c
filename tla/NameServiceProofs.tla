------------------------- MODULE NameServiceProofs -------------------------
(***************************************************************************)
(* Proofs about NameService: parse_label() stays inside the message and    *)
(* returns the name that the definition of compressed names gives,         *)
(* whatever the message holds and however long it is.                      *)
(***************************************************************************)
EXTENDS NameService, NatProofs, SequenceTheorems, TLAPS

(* The inductive invariant behind StaysInMessage.  Up to the first jump p  *)
(* only moves forwards from start; rp is behind the pointer that jumped.   *)
ReturnPoint == IF rp = Null THEN p >= start ELSE rp \in start + 1 .. Size
NameInv == TypeOK /\ StaysInMessage /\ ReturnPoint

(* Bytes are natural numbers.                                              *)
LEMMA BytesAreNumbers == Bytes \subseteq Nat
BY NameAssumption

(* The offset that a pointer holds is a natural number, however small the  *)
(* byte behind the mark.                                                   *)
LEMMA JumpType ==
  ASSUME NEW at \in 0 .. Size - 2, TypeOK, IsPtr(msg[at])
  PROVE  jmp(at) \in Nat
<1>1. /\ msg[at] \in Nat /\ msg[at] >= Mark
      /\ msg[at + 1] \in Nat
  <2>1. at \in 0 .. Size - 1 /\ at + 1 \in 0 .. Size - 1
    BY NameAssumption
  <2>2. msg[at] \in Bytes /\ msg[at + 1] \in Bytes
    BY <2>1 DEF TypeOK
  <2> QED BY <2>2, BytesAreNumbers DEF IsPtr
<1>2. Mark \in Nat /\ ByteMod \in Nat
  BY NameAssumption
<1>3. msg[at] - Mark \in Nat
  BY <1>1, <1>2
<1>4. \A m, n \in Nat : m * n \in Nat
  OBVIOUS
<1> QED BY <1>1, <1>2, <1>3, <1>4 DEF jmp

(* Behind the jump that an iteration may begin with, p has a byte and what *)
(* remains ends inside the message; the end of the name is known as soon   *)
(* as p has left the bytes behind start.                                   *)
LEMMA LandsInMessage ==
  ASSUME NameInv, Landed
  PROVE  /\ Here.p \in 0 .. Size - 1
         /\ Here.remain \in 1 .. Size - Here.p
         /\ IF Here.rp = Null THEN Here.p >= start
            ELSE Here.rp \in start + 1 .. Size
<1>1. p \in 0 .. Size - 1 /\ remain \in 1 .. Size - p /\ start \in Nat
  BY NameAssumption DEF NameInv, TypeOK, StaysInMessage, Landed, Reading
<1>2. CASE IsPtr(msg[p])
  <2>1. remain >= 2 /\ jmp(p) < total_len
    BY <1>2 DEF Landed, Reading
  <2>2. jmp(p) \in Nat
    BY <1>1, <1>2, <2>1, JumpType, NameAssumption DEF NameInv
  <2>3. Here = [p |-> jmp(p), remain |-> total_len - jmp(p),
                rp |-> IF rp = Null THEN p + 2 ELSE rp]
    BY <1>2 DEF Here
  <2>4. jmp(p) \in 0 .. Size - 1 /\ total_len - jmp(p) \in 1 .. Size - jmp(p)
    BY <2>1, <2>2, NameAssumption DEF total_len
  <2>5. rp = Null => p + 2 \in start + 1 .. Size
    BY <1>1, <2>1, NameAssumption DEF NameInv, ReturnPoint
  <2>6. rp # Null => rp \in start + 1 .. Size
    BY DEF NameInv, ReturnPoint
  <2>7. Here.rp # Null /\ Here.rp \in start + 1 .. Size
    <3>1. Here.rp \in start + 1 .. Size
      BY <2>3, <2>5, <2>6
    <3>2. start \in Nat /\ Size \in Nat
      BY <1>1, NameAssumption
    <3> QED BY <3>1, <3>2 DEF Null
  <2> QED BY <2>3, <2>4, <2>7
<1>3. CASE ~IsPtr(msg[p])
  BY <1>1, <1>3 DEF Here, NameInv, ReturnPoint
<1> QED BY <1>2, <1>3

-----------------------------------------------------------------------------
(* A name starts behind the header and inside the message.                 *)
LEMMA InitNameInv == Init => NameInv
BY NameAssumption DEF Init, NameInv, TypeOK, StaysInMessage, ReturnPoint, Null

(* A label is as long as its first byte says, which is less than remains.  *)
LEMMA LabelKeepsInv == ASSUME NameInv, Label PROVE NameInv'
<1>1. /\ Here.p \in 0 .. Size - 1
      /\ Here.remain \in 1 .. Size - Here.p
      /\ IF Here.rp = Null THEN Here.p >= start
         ELSE Here.rp \in start + 1 .. Size
  BY LandsInMessage DEF Label
<1>2. msg[Here.p] \in Nat
  <2>1. msg[Here.p] \in Bytes
    BY <1>1 DEF NameInv, TypeOK
  <2> QED BY <2>1, BytesAreNumbers
<1>3. Size \in Nat /\ start \in Nat /\ len \in Nat
  BY NameAssumption DEF NameInv, TypeOK
<1>4. /\ UNCHANGED <<msg, start, res>>
      /\ p' = Here.p + msg[Here.p] + 1
      /\ remain' = Here.remain - (msg[Here.p] + 1)
      /\ msg[Here.p] + 1 < Here.remain
      /\ rp' = Here.rp
      /\ len' = len + msg[Here.p]
  BY DEF Label
<1>5. TypeOK'
  BY <1>2, <1>3, <1>4 DEF NameInv, TypeOK
<1>6. StaysInMessage'
  <2>1. p' \in 0 .. Size /\ remain' \in 0 .. Size - p'
    BY <1>1, <1>2, <1>3, <1>4
  <2> QED BY <2>1, <1>4 DEF NameInv, StaysInMessage
<1>7. ReturnPoint'
  BY <1>1, <1>2, <1>3, <1>4 DEF ReturnPoint
<1> QED BY <1>5, <1>6, <1>7 DEF NameInv

(* A name that was read ends behind its first byte, inside the message.    *)
LEMMA EndsBehindName == ASSUME NameInv, EndOfName PROVE res' \in start + 1 .. Size
<1>1. /\ Here.p \in 0 .. Size - 1
      /\ IF Here.rp = Null THEN Here.p >= start
         ELSE Here.rp \in start + 1 .. Size
  BY LandsInMessage DEF EndOfName
<1>2. (IF Here.rp = Null THEN Here.p + 1 ELSE Here.rp) \in start + 1 .. Size
  BY <1>1, NameAssumption DEF NameInv, TypeOK
<1> QED BY <1>2 DEF EndOfName, return

(* Every way to return: the result is NULL or behind the name.             *)
LEMMA ReturnKeepsInv ==
  ASSUME NameInv,
         NameTooLong \/ OutOfBytes \/ BadPointer \/ EndOfName \/ LabelTooLong
  PROVE  NameInv'
<1>1. CASE EndOfName
  BY <1>1, EndsBehindName
     DEF EndOfName, return, NameInv, TypeOK, StaysInMessage, ReturnPoint
<1>2. CASE NameTooLong \/ OutOfBytes \/ BadPointer \/ LabelTooLong
  BY <1>2 DEF NameTooLong, OutOfBytes, BadPointer, LabelTooLong, return, NameInv,
              TypeOK, StaysInMessage, ReturnPoint
<1> QED BY <1>1, <1>2

(* The inductive invariant of parse_label().                               *)
THEOREM NameInvariant == Spec => []NameInv
<1>1. NameInv /\ [Next]_vars => NameInv'
  <2> SUFFICES ASSUME NameInv, [Next]_vars PROVE NameInv' OBVIOUS
  <2>1. CASE Iterate
    BY <2>1, LabelKeepsInv, ReturnKeepsInv DEF Iterate
  <2>2. CASE Returned \/ UNCHANGED vars
    BY <2>2 DEF Returned, vars, NameInv, TypeOK, StaysInMessage, ReturnPoint
  <2> QED BY <2>1, <2>2 DEF Next
<1> QED BY InitNameInv, <1>1, PTL DEF Spec

(* parse_label() reads no byte outside the message, and the name it has    *)
(* read ends behind its first byte and inside the message, for every       *)
(* message: ns_decode() goes forward and stays within its bytes.           *)
THEOREM ReadsOnlyTheMessage == Spec => []StaysInMessage
<1>1. NameInv => StaysInMessage BY DEF NameInv
<1> QED BY NameInvariant, <1>1, PTL

(* Why the loop ends, cycles of pointers included: an iteration returns or *)
(* adds a label to len, which it has found below max_len.  Returns is the  *)
(* temporal statement, which TLC checks.                                   *)
THEOREM IterationsAreBounded ==
  Spec => [][res' = Running => len < max_len /\ len' > len]_vars
<1>1. NameInv /\ [Next]_vars => [res' = Running => len < max_len /\ len' > len]_vars
  <2> SUFFICES ASSUME NameInv, Next, res' = Running
               PROVE  (len < max_len /\ len' > len) \/ UNCHANGED vars
    OBVIOUS
  <2>1. CASE Label
    <3>1. Here.p \in 0 .. Size - 1
      BY <2>1, LandsInMessage DEF Label
    <3>2. msg[Here.p] \in Nat /\ len \in Nat
      BY <3>1, BytesAreNumbers DEF NameInv, TypeOK
    <3>3. len < max_len /\ msg[Here.p] # 0 /\ len' = len + msg[Here.p]
      BY <2>1 DEF Label, Landed, Reading
    <3> QED BY <3>2, <3>3
  <2>2. CASE NameTooLong \/ OutOfBytes \/ BadPointer \/ EndOfName \/ LabelTooLong
    <3>1. res' = Null \/ res' \in start + 1 .. Size
      BY <2>2, EndsBehindName
         DEF NameTooLong, OutOfBytes, BadPointer, LabelTooLong, return
    <3> QED BY <3>1, NameAssumption DEF NameInv, TypeOK, Null, Running
  <2> QED BY <2>1, <2>2 DEF Next, Iterate, Returned
<1> QED BY NameInvariant, <1>1, PTL DEF Spec

-----------------------------------------------------------------------------
(* The definition of compressed names is a recursive function: that there  *)
(* is one, by the approximations to it.                                    *)

(* No name has no label.                                                   *)
NoNames == [lim \in Limits |-> [pos \in Nat |-> Bad]]

(* The first n + 1 of Names.                                               *)
FirstNames(f, n) ==
  /\ f = [i \in 0 .. n |-> f[i]]
  /\ f[0] = NoNames
  /\ \A i \in 1 .. n : f[i] = NamesFrom(f[i - 1])

(* There are so many of them, for every n ...                              *)
LEMMA FirstNamesExist == \A n \in Nat : \E f : FirstNames(f, n)
<1> DEFINE T == {n \in Nat : \E f : FirstNames(f, n)}
<1>1. 0 \in T
  <2> DEFINE f == [i \in 0 .. 0 |-> NoNames]
  <2>1. f = [i \in 0 .. 0 |-> f[i]] /\ f[0] = NoNames /\ 1 .. 0 = {}
    OBVIOUS
  <2> HIDE DEF f
  <2>2. FirstNames(f, 0)
    BY <2>1 DEF FirstNames
  <2> QED
    BY <2>2
<1>2. ASSUME NEW n \in T
      PROVE  n + 1 \in T
  <2>1. PICK f : FirstNames(f, n)
    OBVIOUS
  <2> DEFINE g == [i \in 0 .. n + 1 |-> IF i = n + 1 THEN NamesFrom(f[n]) ELSE f[i]]
  <2>2. n \in Nat
    OBVIOUS
  <2>3. g = [i \in 0 .. n + 1 |-> g[i]] /\ g[n + 1] = NamesFrom(f[n])
        /\ \A i \in 0 .. n : g[i] = f[i]
    BY <2>2
  <2> HIDE DEF g
  <2>4. g[0] = NoNames
    <3>1. 0 \in 0 .. n
      BY <2>2
    <3>2. f[0] = NoNames
      BY <2>1 DEF FirstNames
    <3> QED
      BY <2>3, <3>1, <3>2
  <2>5. ASSUME NEW i \in 1 .. n + 1
        PROVE  g[i] = NamesFrom(g[i - 1])
    <3>1. CASE i = n + 1
      <4>1. i - 1 = n /\ n \in 0 .. n
        BY <2>2, <3>1
      <4> QED
        BY <2>3, <3>1, <4>1
    <3>2. CASE i # n + 1
      <4>1. i \in 1 .. n /\ i \in 0 .. n /\ i - 1 \in 0 .. n
        BY <2>2, <3>2
      <4> QED
        BY <2>1, <2>3, <4>1 DEF FirstNames
    <3> QED
      BY <3>1, <3>2
  <2>6. FirstNames(g, n + 1)
    BY <2>3, <2>4, <2>5 DEF FirstNames
  <2> QED
    BY <2>2, <2>6
<1> HIDE DEF T
<1>3. T = Nat
  <2>1. T \in SUBSET Nat
    BY DEF T
  <2> QED
    BY <1>1, <1>2, <2>1, NatAll
<1> QED
  BY <1>3 DEF T

(* ... and they agree.                                                     *)
LEMMA FirstNamesAgree ==
  ASSUME NEW n \in Nat, NEW k \in Nat, NEW f, NEW g,
         FirstNames(f, n), FirstNames(g, k)
  PROVE  \A i \in Nat : i <= n /\ i <= k => f[i] = g[i]
<1> DEFINE T == {i \in Nat : i <= n /\ i <= k => f[i] = g[i]}
<1>1. 0 \in T
  BY DEF FirstNames
<1>2. ASSUME NEW i \in T
      PROVE  i + 1 \in T
  <2> SUFFICES ASSUME i + 1 <= n, i + 1 <= k
               PROVE  f[i + 1] = g[i + 1]
    OBVIOUS
  <2>1. i \in Nat /\ i + 1 \in 1 .. n /\ i + 1 \in 1 .. k /\ (i + 1) - 1 = i
    OBVIOUS
  <2>2. f[i] = g[i]
    BY <2>1
  <2>3. f[i + 1] = NamesFrom(f[i]) /\ g[i + 1] = NamesFrom(g[i])
    BY <2>1 DEF FirstNames
  <2> QED
    BY <2>2, <2>3
<1> HIDE DEF T
<1>3. T = Nat
  <2>1. T \in SUBSET Nat
    BY DEF T
  <2> QED
    BY <1>1, <1>2, <2>1, NatAll
<1> QED
  BY <1>3 DEF T

(* So Names is what its definition says.                                   *)
LEMMA NamesDef ==
  /\ Names[0] = NoNames
  /\ \A n \in Nat : Names[n + 1] = NamesFrom(Names[n])
<1> DEFINE F(n) == CHOOSE f : FirstNames(f, n)
           w == [n \in Nat |-> F(n)[n]]
           step(f) == [n \in Nat |-> IF n = 0 THEN NoNames ELSE NamesFrom(f[n - 1])]
<1>1. \A n \in Nat : FirstNames(F(n), n)
  BY FirstNamesExist
<1> HIDE DEF F
<1>2. ASSUME NEW n \in Nat
      PROVE  w[n] = IF n = 0 THEN NoNames ELSE NamesFrom(w[n - 1])
  <2>1. CASE n = 0
    BY <1>1, <2>1 DEF FirstNames
  <2>2. CASE n # 0
    <3>1. n \in 1 .. n /\ n - 1 \in Nat /\ n - 1 <= n /\ n - 1 <= n - 1
      BY <2>2
    <3>2. FirstNames(F(n), n) /\ FirstNames(F(n - 1), n - 1)
      BY <1>1, <3>1
    <3>3. F(n)[n - 1] = F(n - 1)[n - 1]
      BY <3>1, <3>2, FirstNamesAgree
    <3>4. F(n)[n] = NamesFrom(F(n)[n - 1])
      BY <3>1, <3>2 DEF FirstNames
    <3> QED
      BY <2>2, <3>1, <3>3, <3>4
  <2> QED
    BY <2>1, <2>2
<1>3. w = step(w)
  <2>1. w = [n \in Nat |-> w[n]]
    OBVIOUS
  <2> HIDE DEF w
  <2> QED
    BY <1>2, <2>1
<1> HIDE DEF w
<1>4. Names = CHOOSE f : f = step(f)
  BY DEF Names, NoNames
<1>5. Names = step(Names)
  BY <1>3, <1>4
<1>6. \A n \in Nat : Names[n] = IF n = 0 THEN NoNames ELSE NamesFrom(Names[n - 1])
  BY <1>5
<1> HIDE DEF step
<1>7. ASSUME NEW n \in Nat
      PROVE  Names[n + 1] = NamesFrom(Names[n])
  <2>1. n + 1 \in Nat /\ n + 1 # 0 /\ (n + 1) - 1 = n
    OBVIOUS
  <2> QED
    BY <1>6, <2>1
<1> QED
  BY <1>6, <1>7

-----------------------------------------------------------------------------
(* What the definition says of a name.                                     *)
NameRec ==
  [ok : BOOLEAN, labels : Seq(Nat \X Nat), size : Nat, end : Int, chain : BOOLEAN]

(* The message ends within its bytes, at either limit.                     *)
LEMMA LimitsType ==
  /\ Limits \subseteq 0 .. Size
  /\ Size \in Limits /\ total_len \in Limits
  /\ total_len \in Nat /\ Size \in Nat
BY NameAssumption DEF Limits, total_len

(* The bytes before a limit.                                               *)
LEMMA ByteAt ==
  ASSUME TypeOK, NEW lim \in Limits, NEW pos \in Nat, pos < lim
  PROVE  /\ pos \in 0 .. Size - 1 /\ msg[pos] \in Nat
         /\ IsPtr(msg[pos]) /\ pos + 1 < lim => jmp(pos) \in Nat
<1>1. lim \in 0 .. Size /\ Size \in Nat
  BY LimitsType
<1>2. pos \in 0 .. Size - 1
  BY <1>1
<1>3. msg[pos] \in Nat
  <2>1. msg[pos] \in Bytes
    BY <1>2 DEF TypeOK
  <2> QED
    BY <2>1, BytesAreNumbers
<1>4. IsPtr(msg[pos]) /\ pos + 1 < lim => jmp(pos) \in Nat
  <2>1. pos + 1 < lim => pos \in 0 .. Size - 2
    BY <1>1
  <2> QED
    BY <2>1, JumpType
<1> QED
  BY <1>2, <1>3, <1>4

(* No name.                                                                *)
LEMMA BadType == Bad \in NameRec
<1>1. <<>> \in Seq(Nat \X Nat) /\ Null \in Int
  BY DEF Null
<1> QED
  BY <1>1 DEF Bad, NameRec

(* What follows a zero byte, a label and a pointer, and where there is no  *)
(* name.                                                                   *)
LEMMA NamesAt ==
  ASSUME NEW n \in Nat, NEW lim \in Limits, NEW pos \in Nat
  PROVE  LET N == Names[n + 1][lim][pos]
         IN /\ pos >= lim => N = Bad
            /\ pos < lim /\ msg[pos] = 0 => N = Ended(pos + 1)
            /\ pos < lim /\ msg[pos] # 0 /\ ~IsPtr(msg[pos]) =>
                 N = WithLabel(Names[n][lim][pos + msg[pos] + 1], pos + 1, msg[pos])
            /\ pos < lim /\ msg[pos] # 0 /\ IsPtr(msg[pos]) /\ pos + 1 >= lim => N = Bad
            /\ pos < lim /\ msg[pos] # 0 /\ IsPtr(msg[pos]) /\ pos + 1 < lim =>
                 N = WithPointer(Names[n][total_len][jmp(pos)], pos + 2,
                                 jmp(pos) < total_len /\ IsPtr(msg[jmp(pos)]))
<1> DEFINE N == Names[n + 1][lim][pos]
           rest == Names[n]
<1>1. lim \in Nat
  BY LimitsType
<1>2. N = NamesFrom(rest)[lim][pos]
  BY NamesDef
<1> HIDE DEF N, rest
<1>3. N = IF pos >= lim THEN Bad
          ELSE IF msg[pos] = 0 THEN Ended(pos + 1)
          ELSE IF ~IsPtr(msg[pos])
          THEN WithLabel(rest[lim][pos + msg[pos] + 1], pos + 1, msg[pos])
          ELSE IF pos + 1 >= lim THEN Bad
          ELSE WithPointer(rest[total_len][jmp(pos)], pos + 2,
                           jmp(pos) < total_len /\ IsPtr(msg[jmp(pos)]))
  BY <1>2 DEF NamesFrom
<1>4. (pos < lim <=> ~(pos >= lim)) /\ (pos + 1 < lim <=> ~(pos + 1 >= lim))
  BY <1>1
<1>5. pos >= lim => N = Bad
  BY <1>3
<1>6. pos < lim /\ msg[pos] = 0 => N = Ended(pos + 1)
  BY <1>3, <1>4
<1>7. pos < lim /\ msg[pos] # 0 /\ ~IsPtr(msg[pos]) =>
        N = WithLabel(rest[lim][pos + msg[pos] + 1], pos + 1, msg[pos])
  BY <1>3, <1>4
<1>8. pos < lim /\ msg[pos] # 0 /\ IsPtr(msg[pos]) /\ pos + 1 >= lim => N = Bad
  BY <1>3, <1>4
<1>9. pos < lim /\ msg[pos] # 0 /\ IsPtr(msg[pos]) /\ pos + 1 < lim =>
        N = WithPointer(rest[total_len][jmp(pos)], pos + 2,
                        jmp(pos) < total_len /\ IsPtr(msg[jmp(pos)]))
  BY <1>3, <1>4
<1> QED
  BY <1>5, <1>6, <1>7, <1>8, <1>9 DEF N, rest

(* The root of a name.                                                     *)
LEMMA EndedParts ==
  ASSUME NEW pos \in Int
  PROVE  /\ Ended(pos) \in NameRec
         /\ Ended(pos).ok /\ Ended(pos).labels = <<>> /\ Ended(pos).size = 0
         /\ Ended(pos).end = pos /\ ~Ended(pos).chain
<1>1. Bad.labels = <<>> /\ Bad.size = 0 /\ ~Bad.chain
  BY DEF Bad
<1> QED
  BY <1>1, BadType DEF Ended, NameRec

(* A label before a name.                                                  *)
LEMMA WithLabelParts ==
  ASSUME NEW r \in NameRec, NEW pos \in Nat, NEW n \in Nat
  PROVE  /\ WithLabel(r, pos, n) \in NameRec
         /\ WithLabel(r, pos, n).ok = r.ok
         /\ WithLabel(r, pos, n).labels = << <<pos, n>> >> \o r.labels
         /\ WithLabel(r, pos, n).size = r.size + n
         /\ WithLabel(r, pos, n).end = r.end
         /\ WithLabel(r, pos, n).chain = r.chain
<1> DEFINE R == WithLabel(r, pos, n)
           l == << <<pos, n>> >> \o r.labels
<1>1. r.labels \in Seq(Nat \X Nat) /\ r.size \in Nat
  BY DEF NameRec
<1>2. l \in Seq(Nat \X Nat)
  <2>1. << <<pos, n>> >> \in Seq(Nat \X Nat)
    OBVIOUS
  <2> QED
    BY <1>1, <2>1
<1>3. R = [r EXCEPT !.labels = l, !.size = r.size + n]
  BY DEF NameRec, WithLabel
<1>4. r.size + n \in Nat
  BY <1>1
<1> HIDE DEF l, R
<1>5. R \in NameRec /\ R.ok = r.ok /\ R.labels = l /\ R.size = r.size + n
      /\ R.end = r.end /\ R.chain = r.chain
  BY <1>2, <1>3, <1>4 DEF NameRec
<1> QED
  BY <1>5 DEF R, l

(* A pointer before a name.                                                *)
LEMMA WithPointerParts ==
  ASSUME NEW r \in NameRec, NEW pos \in Int, NEW chain \in BOOLEAN
  PROVE  /\ WithPointer(r, pos, chain) \in NameRec
         /\ WithPointer(r, pos, chain).ok = r.ok
         /\ WithPointer(r, pos, chain).labels = r.labels
         /\ WithPointer(r, pos, chain).size = r.size
         /\ WithPointer(r, pos, chain).end = pos
         /\ WithPointer(r, pos, chain).chain = (r.chain \/ chain)
BY DEF NameRec, WithPointer

(* All of Names are names.                                                 *)
LEMMA NamesType ==
  ASSUME TypeOK
  PROVE  \A n \in Nat : \A lim \in Limits : \A pos \in Nat :
           Names[n][lim][pos] \in NameRec
<1> DEFINE T == {n \in Nat : \A lim \in Limits : \A pos \in Nat :
                   Names[n][lim][pos] \in NameRec}
<1>1. 0 \in T
  <2>1. \A lim \in Limits : \A pos \in Nat : Names[0][lim][pos] = Bad
    BY NamesDef DEF NoNames
  <2> QED
    BY <2>1, BadType
<1>2. ASSUME NEW n \in T
      PROVE  n + 1 \in T
  <2>1. n \in Nat /\ \A lim \in Limits : \A pos \in Nat : Names[n][lim][pos] \in NameRec
    OBVIOUS
  <2>2. ASSUME NEW lim \in Limits, NEW pos \in Nat
        PROVE  Names[n + 1][lim][pos] \in NameRec
    <3> DEFINE N == Names[n + 1][lim][pos]
               m == msg[pos]
               c == jmp(pos) < total_len /\ IsPtr(msg[jmp(pos)])
    <3>1. /\ pos >= lim => N = Bad
          /\ pos < lim /\ m = 0 => N = Ended(pos + 1)
          /\ pos < lim /\ m # 0 /\ ~IsPtr(m) =>
               N = WithLabel(Names[n][lim][pos + m + 1], pos + 1, m)
          /\ pos < lim /\ m # 0 /\ IsPtr(m) /\ pos + 1 >= lim => N = Bad
          /\ pos < lim /\ m # 0 /\ IsPtr(m) /\ pos + 1 < lim =>
               N = WithPointer(Names[n][total_len][jmp(pos)], pos + 2, c)
      BY <2>1, NamesAt
    <3>2. lim \in Nat
      BY LimitsType
    <3>3. CASE pos >= lim
      BY <3>1, <3>3, BadType
    <3>4. CASE pos < lim /\ m = 0
      <4>1. pos + 1 \in Int
        OBVIOUS
      <4> QED
        BY <3>1, <3>4, <4>1, EndedParts
    <3>5. CASE pos < lim /\ m # 0 /\ ~IsPtr(m)
      <4>1. m \in Nat
        BY <3>5, ByteAt
      <4>2. pos + m + 1 \in Nat /\ pos + 1 \in Nat
        BY <4>1
      <4>3. Names[n][lim][pos + m + 1] \in NameRec
        BY <2>1, <4>2
      <4>4. \A a \in Nat : WithLabel(Names[n][lim][pos + m + 1], a, m) \in NameRec
        <5> HIDE DEF m
        <5> QED
          BY <4>1, <4>3, WithLabelParts
      <4> QED
        BY <3>1, <3>5, <4>2, <4>4
    <3>6. CASE pos < lim /\ m # 0 /\ IsPtr(m) /\ pos + 1 < lim
      <4>1. jmp(pos) \in Nat
        BY <3>6, ByteAt
      <4>2. Names[n][total_len][jmp(pos)] \in NameRec
        BY <2>1, <4>1, LimitsType
      <4>3. c \in BOOLEAN /\ pos + 2 \in Int
        OBVIOUS
      <4> HIDE DEF N, c
      <4> QED
        BY <3>1, <3>6, <4>2, <4>3, WithPointerParts DEF N
    <3>7. CASE pos < lim /\ m # 0 /\ IsPtr(m) /\ pos + 1 >= lim
      BY <3>1, <3>7, BadType
    <3> QED
      BY <3>2, <3>3, <3>4, <3>5, <3>6, <3>7
  <2> QED
    BY <2>1, <2>2
<1> HIDE DEF T
<1>3. T = Nat
  <2>1. T \in SUBSET Nat
    BY DEF T
  <2> QED
    BY <1>1, <1>2, <2>1, NatAll
<1> QED
  BY <1>3 DEF T

-----------------------------------------------------------------------------
(* parse_label() is at the name of n labels and pointers at p, and what it *)
(* has read so far comes before it.                                        *)
Follows(n) ==
  LET r == Names[n][p + remain][p]
  IN /\ p + remain \in Limits
     /\ n >= 2 * (max_len - len) + 2
     /\ NameAt.ok = r.ok
     /\ NameAt.labels = s \o r.labels
     /\ NameAt.size = len + r.size
     /\ NameAt.end = IF rp = Null THEN r.end ELSE rp
     /\ NameAt.chain = r.chain

(* The inductive invariant behind MatchesDefinition.                       *)
MatchInv ==
  /\ MatchesDefinition
  /\ res = Running => NameAt.chain \/ \E n \in Nat : Follows(n)
  /\ s \in Seq(Nat \X Nat)

(* The name that is asked for, by the definition.                          *)
LEMMA NameAtType ==
  ASSUME TypeOK
  PROVE  NameAt \in NameRec
<1>1. 2 * max_len + 2 \in Nat /\ start \in Nat
  BY NameAssumption DEF TypeOK
<1> QED
  BY <1>1, NamesType, LimitsType DEF NameAt

(* It is there, before anything is read.                                   *)
LEMMA InitMatchInv ==
  ASSUME Init
  PROVE  MatchInv
<1>1. TypeOK
  BY InitNameInv DEF NameInv
<1>2. /\ p = start /\ remain = Size - start /\ rp = Null /\ len = 0
      /\ s = <<>> /\ res = Running /\ start \in Nat
  BY NameAssumption DEF Init
<1>3. p + remain = Size
  BY <1>2, LimitsType
<1> DEFINE k == 2 * max_len + 2
           r == Names[k][p + remain][p]
<1>4. NameAt = r /\ k \in Nat /\ k >= 2 * (max_len - len) + 2
  BY <1>2, <1>3, NameAssumption DEF NameAt
<1>5. r \in NameRec
  BY <1>1, <1>4, NameAtType
<1>6. r.labels \in Seq(Nat \X Nat) /\ r.size \in Nat
  BY <1>5 DEF NameRec
<1>7. <<>> \o r.labels = r.labels /\ 0 + r.size = r.size
  <2> HIDE DEF r
  <2> QED
    BY <1>6
<1>8. Follows(k)
  <2> HIDE DEF k
  <2> QED
    BY <1>2, <1>3, <1>4, <1>7, LimitsType DEF Follows
<1>9. MatchesDefinition
  BY <1>2 DEF MatchesDefinition
<1> QED
  BY <1>2, <1>4, <1>8, <1>9 DEF MatchInv

(* The definition does not change with the local variables.                *)
LEMMA NameAtStays ==
  ASSUME UNCHANGED <<msg, start>>
  PROVE  NameAt' = NameAt /\ Names' = Names
<1>1. Names' = Names
  BY DEF Names, NamesFrom, jmp, IsPtr, Bad, Ended, WithLabel, WithPointer
<1> QED
  BY <1>1 DEF NameAt

(* Names without a place left, in any number of labels.                    *)
LEMMA NamesBeyond ==
  ASSUME NEW n \in Nat, n > 0, NEW lim \in Limits, NEW pos \in Nat, pos >= lim
  PROVE  Names[n][lim][pos] = Bad /\ ~Bad.ok
<1>1. n - 1 \in Nat /\ (n - 1) + 1 = n
  OBVIOUS
<1>2. Names[(n - 1) + 1][lim][pos] = Bad
  BY <1>1, NamesAt
<1> QED
  BY <1>1, <1>2 DEF Bad

(* A byte that begins a pointer ends no name.                              *)
LEMMA PointerIsNotZero ==
  ASSUME NEW b \in Nat, IsPtr(b)
  PROVE  b # 0
BY NameAssumption DEF IsPtr

(* Where a running parse_label() is, and which name it is at.              *)
LEMMA FollowsParts ==
  ASSUME NameInv, NEW n \in Nat, Follows(n), len < max_len
  PROVE  /\ p \in Nat /\ remain \in Nat /\ p + remain \in Limits
         /\ n - 1 \in Nat /\ (n - 1) + 1 = n
         /\ n - 1 >= 2 * (max_len - len) + 1 /\ n - 1 > 2
         /\ len \in Nat /\ max_len \in Nat
         /\ Names[n][p + remain][p] \in NameRec
<1>1. p \in Nat /\ remain \in Nat /\ len \in Nat /\ max_len \in Nat
  BY NameAssumption DEF NameInv, TypeOK, StaysInMessage
<1>2. p + remain \in Limits /\ n >= 2 * (max_len - len) + 2
  BY DEF Follows
<1>3. /\ n - 1 \in Nat /\ (n - 1) + 1 = n
      /\ n - 1 >= 2 * (max_len - len) + 1 /\ n - 1 > 2
  BY <1>1, <1>2
<1>4. Names[n][p + remain][p] \in NameRec
  BY <1>1, <1>2, NamesType DEF NameInv
<1> QED
  BY <1>1, <1>2, <1>3, <1>4

(* The name at the place where an iteration reads a length: the one at p,  *)
(* or the one that the pointer at p leads to.                              *)
LandedAt(k) ==
  LET r == Names[k][Here.p + Here.remain][Here.p]
  IN /\ Here.p + Here.remain \in Limits /\ Here.p \in Nat /\ Here.remain \in Nat
     /\ Here.remain >= 1 /\ ~IsPtr(msg[Here.p])
     /\ k > 2 /\ k >= 2 * (max_len - len) + 1
     /\ r \in NameRec
     /\ NameAt.ok = r.ok
     /\ NameAt.labels = s \o r.labels
     /\ NameAt.size = len + r.size
     /\ NameAt.end = IF Here.rp = Null THEN r.end ELSE Here.rp
     /\ NameAt.chain = r.chain

(* Unless a pointer leads to a pointer, the iteration reads a length.      *)
LEMMA LandsAtName ==
  ASSUME NameInv, Landed, NEW n \in Nat, Follows(n), ~NameAt.chain
  PROVE  \E k \in Nat : LandedAt(k)
<1> DEFINE r == Names[n][p + remain][p]
<1>t. TypeOK
  BY DEF NameInv
<1>1. /\ len < max_len /\ remain >= 1
      /\ IsPtr(msg[p]) => remain >= 2 /\ jmp(p) < total_len
  BY DEF Landed, Reading
<1>2. /\ p \in Nat /\ remain \in Nat /\ p + remain \in Limits
      /\ n - 1 \in Nat /\ (n - 1) + 1 = n
      /\ n - 1 >= 2 * (max_len - len) + 1 /\ n - 1 > 2
      /\ len \in Nat /\ max_len \in Nat
      /\ r \in NameRec
  BY <1>1, FollowsParts
<1>3. /\ NameAt.ok = r.ok
      /\ NameAt.labels = s \o r.labels
      /\ NameAt.size = len + r.size
      /\ NameAt.end = IF rp = Null THEN r.end ELSE rp
      /\ NameAt.chain = r.chain
  BY DEF Follows
<1>4. CASE ~IsPtr(msg[p])
  <2>1. Here.p = p /\ Here.remain = remain /\ Here.rp = rp
    BY <1>4 DEF Here
  <2>2. n > 2 /\ n >= 2 * (max_len - len) + 1
    BY <1>2
  <2>3. LandedAt(n)
    BY <1>1, <1>2, <1>3, <1>4, <2>1, <2>2 DEF LandedAt
  <2> QED
    BY <2>3
<1>5. CASE IsPtr(msg[p])
  <2> DEFINE q == Names[n - 1][total_len][jmp(p)]
             c == jmp(p) < total_len /\ IsPtr(msg[jmp(p)])
  <2>1. /\ p < p + remain /\ p + 1 < p + remain
    BY <1>1, <1>2, <1>5
  <2>2. jmp(p) \in Nat /\ msg[p] \in Nat
    BY <1>t, <1>2, <1>5, <2>1, ByteAt
  <2>3. msg[p] # 0
    BY <1>5, <2>2, PointerIsNotZero
  <2>4. r = WithPointer(q, p + 2, c)
    <3>1. Names[(n - 1) + 1][p + remain][p] = WithPointer(q, p + 2, c)
      BY <1>2, <1>5, <2>1, <2>3, NamesAt
    <3> QED
      BY <1>2, <3>1
  <2>5. q \in NameRec /\ c \in BOOLEAN /\ p + 2 \in Int
    BY <1>t, <1>2, <2>2, NamesType, LimitsType
  <2>6. /\ r.ok = q.ok /\ r.labels = q.labels /\ r.size = q.size
        /\ r.end = p + 2 /\ r.chain = (q.chain \/ c)
    <3> HIDE DEF r, q, c
    <3> QED
      BY <2>4, <2>5, WithPointerParts
  <2>7. ~c /\ r.chain = q.chain
    <3>1. q.chain \in BOOLEAN
      BY <2>5 DEF NameRec
    <3> HIDE DEF c, r, q
    <3> QED
      BY <1>3, <2>5, <2>6, <3>1
  <2>8. /\ Here.p = jmp(p) /\ Here.remain = total_len - jmp(p)
        /\ Here.rp = IF rp = Null THEN p + 2 ELSE rp
    BY <1>5 DEF Here
  <2>9. /\ Here.p + Here.remain = total_len /\ Here.remain \in Nat
        /\ Here.remain >= 1
    BY <1>1, <1>5, <2>2, <2>8, LimitsType
  <2>10. NameAt.end = IF Here.rp = Null THEN q.end ELSE Here.rp
    <3>1. p + 2 # Null
      BY <1>2 DEF Null
    <3> HIDE DEF r, q
    <3> QED
      BY <1>3, <2>6, <2>8, <3>1
  <2>11. ~IsPtr(msg[Here.p])
    BY <1>1, <1>5, <2>7, <2>8
  <2>12. LandedAt(n - 1)
    <3>1. q = Names[n - 1][Here.p + Here.remain][Here.p]
      BY <2>8, <2>9
    <3> HIDE DEF r, q, c
    <3> QED
      BY <1>2, <1>3, <2>2, <2>5, <2>6, <2>7, <2>8, <2>9, <2>10, <2>11, <3>1, LimitsType
         DEF LandedAt
  <2> QED
    BY <1>2, <2>12
<1> QED
  BY <1>4, <1>5

(* The name at a label, and the one behind it.                             *)
LEMMA LabelAt ==
  ASSUME NameInv, NEW k \in Nat, LandedAt(k), msg[Here.p] # 0
  PROVE  LET m == msg[Here.p]
             lim == Here.p + Here.remain
             q == Names[k - 1][lim][Here.p + m + 1]
         IN /\ m \in Nat /\ q \in NameRec /\ k - 1 \in Nat /\ k - 1 > 0
            /\ lim \in Limits /\ lim \in Nat /\ Here.p + m + 1 \in Nat
            /\ Here.p + 1 \in Nat
            /\ Names[k][lim][Here.p] = WithLabel(q, Here.p + 1, m)
<1> DEFINE h == Here.p
           m == msg[h]
           lim == h + Here.remain
           q == Names[k - 1][lim][h + m + 1]
<1>t. TypeOK
  BY DEF NameInv
<1>1. /\ lim \in Limits /\ h \in Nat /\ Here.remain \in Nat /\ Here.remain >= 1
      /\ ~IsPtr(m) /\ k > 2
  BY DEF LandedAt
<1>2. lim \in Nat /\ h < lim
  BY <1>1
<1>3. m \in Nat
  <2> HIDE DEF h, lim
  <2> QED
    BY <1>t, <1>1, <1>2, ByteAt
<1>4. k - 1 \in Nat /\ (k - 1) + 1 = k /\ k - 1 > 0
  BY <1>1
<1>5. h + m + 1 \in Nat /\ h + 1 \in Nat
  BY <1>1, <1>3
<1>6. q \in NameRec
  <2> HIDE DEF h, lim, m
  <2> QED
    BY <1>t, <1>1, <1>4, <1>5, NamesType
<1>7. Names[(k - 1) + 1][lim][h] = WithLabel(q, h + 1, m)
  <2>1. msg[h] # 0
    OBVIOUS
  <2> HIDE DEF h, lim
  <2> QED
    BY <1>1, <1>2, <1>4, <2>1, NamesAt
<1> QED
  BY <1>1, <1>2, <1>3, <1>4, <1>5, <1>6, <1>7

(* A byte of zero: the definition has the labels that were read, and the   *)
(* end that parse_label() returns.                                         *)
LEMMA EndMatches ==
  ASSUME NameInv, MatchInv, EndOfName, ~NameAt.chain
  PROVE  NameAt.ok /\ NameAt.size < max_len /\ res' = NameAt.end /\ s = NameAt.labels
<1>1. /\ Landed /\ msg[Here.p] = 0 /\ res = Running /\ len < max_len
      /\ res' = IF Here.rp = Null THEN Here.p + 1 ELSE Here.rp
  BY DEF EndOfName, Landed, Reading, return
<1>2. PICK n \in Nat : Follows(n)
  BY <1>1 DEF MatchInv
<1>3. PICK k \in Nat : LandedAt(k)
  BY <1>1, <1>2, LandsAtName
<1> DEFINE h == Here.p
           lim == h + Here.remain
           r == Names[k][lim][h]
<1>4. /\ lim \in Limits /\ h \in Nat /\ Here.remain \in Nat /\ Here.remain >= 1
      /\ k > 2
      /\ NameAt.ok = r.ok
      /\ NameAt.labels = s \o r.labels
      /\ NameAt.size = len + r.size
      /\ NameAt.end = IF Here.rp = Null THEN r.end ELSE Here.rp
  BY <1>3 DEF LandedAt
<1>5. lim \in Nat /\ h < lim /\ k - 1 \in Nat /\ (k - 1) + 1 = k /\ h + 1 \in Int
  <2>1. PICK a \in Nat, b \in Nat : a = h /\ b = Here.remain /\ b >= 1
    BY <1>4, Zenon
  <2>2. a + b \in Nat /\ a < a + b /\ a + 1 \in Int
    BY <2>1
  <2>3. k > 2
    BY <1>4, Zenon
  <2>4. k - 1 \in Nat /\ (k - 1) + 1 = k
    BY <2>3
  <2> QED
    BY <2>1, <2>2, <2>4, Zenon
<1>6. Names[(k - 1) + 1][lim][h] = Ended(h + 1)
  <2>1. msg[h] = 0
    BY <1>1
  <2> HIDE DEF h, lim
  <2> QED
    BY <1>4, <1>5, <2>1, NamesAt
<1>7. r = Ended(h + 1)
  BY <1>5, <1>6
<1>8. r.ok /\ r.labels = <<>> /\ r.size = 0 /\ r.end = h + 1
  <2> HIDE DEF r, h
  <2> QED
    BY <1>5, <1>7, EndedParts
<1>9. len \in Nat /\ s \in Seq(Nat \X Nat)
  BY DEF NameInv, TypeOK, MatchInv
<1>10. s \o <<>> = s /\ len + 0 = len
  BY <1>9
<1> HIDE DEF r
<1> QED
  BY <1>1, <1>4, <1>8, <1>10

(* Every other way to return: there is no such name, or it is too long.    *)
LEMMA FailureMatches ==
  ASSUME NameInv, MatchInv, ~NameAt.chain,
         NameTooLong \/ OutOfBytes \/ BadPointer \/ LabelTooLong
  PROVE  ~(NameAt.ok /\ NameAt.size < max_len) /\ res' = Null
<1>t. TypeOK /\ p \in Nat /\ remain \in Nat /\ len \in Nat /\ max_len \in Nat
  BY NameAssumption DEF NameInv, TypeOK, StaysInMessage
<1>1. res = Running /\ res' = Null
  BY DEF NameTooLong, OutOfBytes, BadPointer, LabelTooLong, Landed, Reading, return
<1>2. PICK n \in Nat : Follows(n)
  BY <1>1 DEF MatchInv
<1> DEFINE lim == p + remain
           r == Names[n][lim][p]
<1>3. NameAt.ok = r.ok /\ NameAt.size = len + r.size /\ lim \in Limits
  BY <1>2 DEF Follows
<1>4. CASE NameTooLong
  <2>1. len >= max_len
    BY <1>4 DEF NameTooLong
  <2>2. r \in NameRec
    BY <1>t, <1>3, NamesType
  <2>3. r.size \in Nat
    BY <2>2 DEF NameRec
  <2> HIDE DEF r
  <2> QED
    BY <1>t, <1>1, <1>3, <2>1, <2>3
<1>5. CASE len < max_len
  <2>1. n - 1 \in Nat /\ (n - 1) + 1 = n /\ n - 1 > 2 /\ n > 0
    <3>1. n - 1 \in Nat /\ (n - 1) + 1 = n /\ n - 1 > 2
      BY <1>2, <1>5, FollowsParts
    <3> QED
      BY <3>1
  <2>2. CASE remain < 1
    <3>1. p >= lim
      BY <1>t, <2>2
    <3>2. r = Bad /\ ~Bad.ok
      <4> HIDE DEF lim
      <4> QED
        BY <1>t, <1>3, <2>1, <3>1, NamesBeyond
    <3> QED
      BY <1>1, <1>3, <3>2
  <2>3. CASE remain >= 1 /\ IsPtr(msg[p]) /\ remain < 2
    <3>1. p < lim /\ p + 1 >= lim
      BY <1>t, <2>3
    <3> HIDE DEF lim
    <3>2. msg[p] \in Nat
      BY <1>t, <1>3, <3>1, ByteAt
    <3>3. msg[p] # 0
      BY <2>3, <3>2, PointerIsNotZero
    <3>4. Names[(n - 1) + 1][lim][p] = Bad
      BY <1>t, <1>3, <2>1, <2>3, <3>1, <3>3, NamesAt
    <3> QED
      BY <1>1, <1>3, <2>1, <3>4 DEF Bad
  <2>4. CASE BadPointer
    <3>1. remain >= 2 /\ IsPtr(msg[p]) /\ jmp(p) >= total_len
      BY <2>4 DEF BadPointer, Reading
    <3>2. p < lim /\ p + 1 < lim
      BY <1>t, <3>1
    <3> DEFINE c == jmp(p) < total_len /\ IsPtr(msg[jmp(p)])
               q == Names[n - 1][total_len][jmp(p)]
    <3> HIDE DEF lim
    <3>3. jmp(p) \in Nat /\ msg[p] \in Nat
      BY <1>t, <1>3, <3>1, <3>2, ByteAt
    <3>4. msg[p] # 0
      BY <3>1, <3>3, PointerIsNotZero
    <3>5. Names[(n - 1) + 1][lim][p] = WithPointer(q, p + 2, c)
      BY <1>t, <1>3, <2>1, <3>1, <3>2, <3>4, NamesAt
    <3>6. q = Bad /\ ~Bad.ok
      <4>1. n - 1 > 0
        BY <2>1
      <4> QED
        BY <2>1, <3>1, <3>3, <4>1, NamesBeyond, LimitsType
    <3>7. c \in BOOLEAN /\ p + 2 \in Int
      BY <1>t
    <3>8. WithPointer(Bad, p + 2, c).ok = Bad.ok
      <4> HIDE DEF c
      <4> QED
        BY <3>7, BadType, WithPointerParts
    <3>9. r.ok = Bad.ok
      BY <2>1, <3>5, <3>6, <3>8
    <3> QED
      BY <1>1, <1>3, <3>6, <3>9
  <2>5. CASE LabelTooLong
    <3>1. /\ Landed /\ msg[Here.p] # 0 /\ msg[Here.p] + 1 >= Here.remain
      BY <2>5 DEF LabelTooLong
    <3>2. PICK k \in Nat : LandedAt(k)
      BY <1>2, <3>1, LandsAtName
    <3> DEFINE h == Here.p
               m == msg[h]
               l == h + Here.remain
               q == Names[k - 1][l][h + m + 1]
    <3>3. /\ m \in Nat /\ q \in NameRec /\ k - 1 \in Nat /\ k - 1 > 0
          /\ l \in Limits /\ l \in Nat /\ h + m + 1 \in Nat /\ h + 1 \in Nat
          /\ Names[k][l][h] = WithLabel(q, h + 1, m)
      BY <3>1, <3>2, LabelAt
    <3>4. NameAt.ok = Names[k][l][h].ok /\ h \in Nat /\ Here.remain \in Nat
      BY <3>2 DEF LandedAt
    <3>5. h + m + 1 >= l
      BY <3>1, <3>3, <3>4
    <3>6. q = Bad /\ ~Bad.ok
      <4> HIDE DEF h, m, l
      <4> QED
        BY <3>3, <3>5, NamesBeyond
    <3>7. WithLabel(q, h + 1, m).ok = q.ok
      <4> HIDE DEF h, m, q
      <4> QED
        BY <3>3, WithLabelParts
    <3> QED
      BY <1>1, <3>3, <3>4, <3>6, <3>7
  <2>6. CASE NameTooLong
    BY <1>4, <2>6
  <2> QED
    BY <1>t, <2>2, <2>3, <2>4, <2>5, <2>6 DEF OutOfBytes
<1> QED
  BY <1>t, <1>4, <1>5 DEF OutOfBytes, BadPointer, LabelTooLong, Landed, Reading

(* A label: the name behind it follows what has been read with it.         *)
LEMMA LabelFollows ==
  ASSUME NameInv, MatchInv, Label, ~NameAt.chain
  PROVE  \E n \in Nat : Follows(n)'
<1>1. /\ Landed /\ msg[Here.p] # 0 /\ msg[Here.p] + 1 < Here.remain
      /\ s' = Append(s, <<Here.p + 1, msg[Here.p]>>)
      /\ len' = len + msg[Here.p]
      /\ p' = Here.p + msg[Here.p] + 1
      /\ remain' = Here.remain - (msg[Here.p] + 1)
      /\ rp' = Here.rp
      /\ UNCHANGED <<msg, start, res>>
  BY DEF Label
<1>2. PICK n \in Nat : Follows(n)
  BY <1>1 DEF MatchInv, Landed, Reading
<1>3. PICK k \in Nat : LandedAt(k)
  BY <1>1, <1>2, LandsAtName
<1> DEFINE h == Here.p
           m == msg[h]
           lim == h + Here.remain
           q == Names[k - 1][lim][h + m + 1]
           r == Names[k][lim][h]
<1>4. /\ m \in Nat /\ q \in NameRec /\ k - 1 \in Nat /\ k - 1 > 0
      /\ lim \in Limits /\ lim \in Nat /\ h + m + 1 \in Nat /\ h + 1 \in Nat
      /\ r = WithLabel(q, h + 1, m)
  BY <1>1, <1>3, LabelAt
<1>5. /\ h \in Nat /\ Here.remain \in Nat /\ k >= 2 * (max_len - len) + 1
      /\ NameAt.ok = r.ok
      /\ NameAt.labels = s \o r.labels
      /\ NameAt.size = len + r.size
      /\ NameAt.end = IF Here.rp = Null THEN r.end ELSE Here.rp
      /\ NameAt.chain = r.chain
  BY <1>3 DEF LandedAt
<1>6. /\ r.ok = q.ok
      /\ r.labels = << <<h + 1, m>> >> \o q.labels
      /\ r.size = q.size + m
      /\ r.end = q.end
      /\ r.chain = q.chain
  <2> HIDE DEF h, m, q, r
  <2> QED
    BY <1>4, WithLabelParts
<1>7. len \in Nat /\ max_len \in Nat /\ s \in Seq(Nat \X Nat)
  BY NameAssumption DEF NameInv, TypeOK, MatchInv
<1>8. q.labels \in Seq(Nat \X Nat) /\ q.size \in Nat
  BY <1>4 DEF NameRec
<1>9. m # 0 /\ p' = h + m + 1 /\ p' + remain' = lim /\ len' = len + m
  <2> DEFINE left == Here.remain
  <2>1. m # 0 /\ p' = h + m + 1 /\ remain' = left - (m + 1) /\ len' = len + m
        /\ h \in Nat /\ m \in Nat /\ left \in Nat /\ lim = h + left
    BY <1>1, <1>4, <1>5
  <2> HIDE DEF m, h, left, lim
  <2> QED
    BY <2>1
<1>10. NameAt' = NameAt /\ Names' = Names
  BY <1>1, NameAtStays
<1>11. NameAt.labels = s' \o q.labels
  <2>1. ASSUME NEW a \in Nat \X Nat,
               NEW u \in Seq(Nat \X Nat), NEW v \in Seq(Nat \X Nat)
        PROVE  u \o (<<a>> \o v) = Append(u, a) \o v
    <3>1. <<a>> \in Seq(Nat \X Nat)
      OBVIOUS
    <3>2. Append(u, a) = u \o <<a>>
      BY AppendIsConcat
    <3>3. (u \o <<a>>) \o v = u \o (<<a>> \o v)
      BY <3>1, ConcatAssociative
    <3> QED
      BY <3>2, <3>3
  <2>2. <<h + 1, m>> \in Nat \X Nat
    BY <1>4
  <2>3. s \o (<< <<h + 1, m>> >> \o q.labels) = Append(s, <<h + 1, m>>) \o q.labels
    <3> HIDE DEF h, m, q
    <3> QED
      BY <1>7, <1>8, <2>1, <2>2
  <2>4. s' = Append(s, <<h + 1, m>>)
    BY <1>1
  <2> HIDE DEF h, m, q, r
  <2> QED
    BY <1>5, <1>6, <2>3, <2>4
<1>12. NameAt.size = len' + q.size
  <2> DEFINE x == q.size
  <2>1. NameAt.size = len + (x + m) /\ len' = len + m
        /\ x \in Nat /\ m \in Nat /\ len \in Nat
    BY <1>4, <1>5, <1>6, <1>7, <1>8, <1>9
  <2> HIDE DEF m, x
  <2>2. NameAt.size = len' + x
    BY <2>1
  <2> QED
    BY <2>2 DEF x
<1>13. k - 1 >= 2 * (max_len - len') + 2
  <2>1. /\ m \in Nat /\ m # 0 /\ k >= 2 * (max_len - len) + 1
        /\ len \in Nat /\ max_len \in Nat /\ len' = len + m
    BY <1>4, <1>5, <1>7, <1>9
  <2> HIDE DEF m
  <2> QED
    BY <2>1
<1>14. Follows(k - 1)'
  <2>1. q = Names'[k - 1][p' + remain'][p']
    BY <1>9, <1>10
  <2>2. NameAt.end = IF rp' = Null THEN q.end ELSE rp'
    BY <1>1, <1>5, <1>6
  <2>3. NameAt.ok = q.ok /\ NameAt.chain = q.chain
    BY <1>5, <1>6
  <2> HIDE DEF q, r, m, h
  <2> QED
    BY <1>4, <1>9, <1>10, <1>11, <1>12, <1>13, <2>1, <2>2, <2>3 DEF Follows
<1> QED
  BY <1>4, <1>14

(* A step keeps what has been read in line with the definition.            *)
LEMMA StepMatches ==
  ASSUME NameInv, MatchInv, [Next]_vars
  PROVE  MatchInv'
<1>1. msg' = msg /\ start' = start
  BY DEF vars, Next, Iterate, Returned, NameTooLong, OutOfBytes, BadPointer, EndOfName,
         LabelTooLong, Label, return
<1>2. NameAt' = NameAt /\ Names' = Names
  BY <1>1, NameAtStays
<1>3. CASE Returned \/ UNCHANGED vars
  <2>1. UNCHANGED <<p, remain, rp, len, s, res>>
    BY <1>3 DEF Returned, vars
  <2>2. \A n \in Nat : Follows(n)' <=> Follows(n)
    BY <1>2, <2>1 DEF Follows
  <2>3. MatchesDefinition' <=> MatchesDefinition
    BY <1>2, <2>1 DEF MatchesDefinition
  <2> QED
    BY <1>2, <2>1, <2>2, <2>3 DEF MatchInv
<1>4. CASE Label
  <2>1. res = Running /\ res' = res
    BY <1>4 DEF Label, Landed, Reading
  <2>2. MatchesDefinition'
    BY <2>1 DEF MatchesDefinition
  <2>3. NameAt'.chain \/ \E n \in Nat : Follows(n)'
    BY <1>2, <1>4, LabelFollows
  <2>4. s' \in Seq(Nat \X Nat)
    <3>1. Here.p \in Nat
      BY <1>4, LandsInMessage, NameAssumption DEF Label
    <3>2. msg[Here.p] \in Nat
      <4>1. Here.p \in 0 .. Size - 1
        BY <1>4, LandsInMessage DEF Label
      <4> QED
        BY <4>1, BytesAreNumbers DEF NameInv, TypeOK
    <3>3. <<Here.p + 1, msg[Here.p]>> \in Nat \X Nat
      BY <3>1, <3>2
    <3>4. s \in Seq(Nat \X Nat) /\ s' = Append(s, <<Here.p + 1, msg[Here.p]>>)
      BY <1>4 DEF MatchInv, Label
    <3> QED
      BY <3>3, <3>4
  <2> QED
    BY <2>2, <2>3, <2>4 DEF MatchInv
<1>5. CASE EndOfName
  <2>1. s' = s /\ res' \in start + 1 .. Size
    BY <1>5, EndsBehindName DEF EndOfName, return
  <2>2. res' # Running
    BY <2>1, NameAssumption DEF NameInv, TypeOK, Running
  <2>3. ~NameAt.chain => NameAt.ok /\ NameAt.size < max_len /\ res' = NameAt.end
                         /\ s = NameAt.labels
    BY <1>5, EndMatches
  <2>4. MatchesDefinition'
    BY <1>2, <2>1, <2>3 DEF MatchesDefinition
  <2> QED
    BY <2>1, <2>2, <2>4 DEF MatchInv
<1>6. CASE NameTooLong \/ OutOfBytes \/ BadPointer \/ LabelTooLong
  <2>1. s' = s /\ res' = Null /\ res' # Running
    BY <1>6 DEF NameTooLong, OutOfBytes, BadPointer, LabelTooLong, return, Null, Running
  <2>2. ~NameAt.chain => ~(NameAt.ok /\ NameAt.size < max_len)
    BY <1>6, FailureMatches
  <2>3. MatchesDefinition'
    BY <1>2, <2>1, <2>2 DEF MatchesDefinition
  <2> QED
    BY <2>1, <2>3 DEF MatchInv
<1> QED
  BY <1>3, <1>4, <1>5, <1>6 DEF Next, Iterate

(* For every message, every place a name may begin at and every limit,     *)
(* parse_label() returns the name that the definition of compressed names  *)
(* gives, and NULL if there is none or it is too long - unless a pointer   *)
(* leads to a pointer.                                                     *)
THEOREM ParsesByDefinition == Spec => []MatchesDefinition
<1>1. NameInv /\ MatchInv /\ [Next]_vars => MatchInv'
  BY StepMatches
<1>2. Init => MatchInv
  BY InitMatchInv
<1>3. MatchInv => MatchesDefinition
  BY DEF MatchInv
<1> QED
  BY <1>1, <1>2, <1>3, NameInvariant, PTL DEF Spec
=============================================================================
