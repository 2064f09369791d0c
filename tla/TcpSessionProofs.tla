-------------------------- MODULE TcpSessionProofs --------------------------
(***************************************************************************)
(* Proofs about TCP sessions: the key stands for a pair of endpoints, a    *)
(* session raises each of its events once and in order, no packet of it is *)
(* lost or kept twice, the two streams take their endpoint's bytes in      *)
(* order and in full, none waits for a segment that was captured, and      *)
(* every invocation of decode_stream() brings the packet's end nearer.     *)
(***************************************************************************)
EXTENDS TcpSession, FiniteSetTheorems, SequenceTheorems, TLAPS

(* The inductive invariant behind EventsOncePerSession: there is a session *)
(* while a packet is decoded, and none is anything but new before.         *)
SessionInHand == todo # <<>> => key # NoKey /\ sender \in Side
NothingBefore == key = NoKey => status = "NONE"
SessionInv ==
  status \in Statuses /\ SessionInHand /\ NothingBefore /\ EventsOncePerSession

(* The one behind TypeOK and NoSegmentLost.                                *)
StoreInv == TypeOK /\ IsFiniteSet(Kept) /\ NoSegmentLost

(* The streams that have a base, by the status of the session ...          *)
BasedByStatus ==
  \A d \in Side : based[d] <=>
    status # "NONE" /\ (d = client \/ status # "SYN_SENT")

(* ... before which nothing is kept, and which the client's SYN has set.   *)
Opened ==
  /\ status = "NONE" =>
       /\ \A k \in SeqNo : seg_map[k] = <<>>
       /\ \A i \in DOMAIN todo : i = 1 /\ todo[i].from = sender
  /\ status # "NONE" =>
       /\ client \in Side
       /\ \E g \in Segments : g.from = client /\ g.flags = {"SYN"}

(* The FIN of d has moved the session.                                     *)
FinCounted(d) == closing = d \/ status = "CLOSED"

(* next_seq_ counts the SYN, the bytes taken and the FIN ...               *)
Position(d) ==
  next_seq[d] = (1 + Len(delivered[d]) + IF FinCounted(d) THEN 1 ELSE 0) % SeqMod

(* ... and is where a segment of this very endpoint ended.                 *)
BehindOwn(d) ==
  \E g \in Segments : g.from = d /\ Add(base[d], next_seq[d]) \in After(g)

(* All data before the FIN has been taken.                                 *)
FinReached(d) ==
  \E g \in Segments : /\ g.from = d /\ "FIN" \in g.flags
                      /\ Add(base[d], 1 + Len(delivered[d])) = Add(g.seq, g.len)

InOrder(d) ==
  \A i \in 1 .. Len(delivered[d]) : delivered[d][i] = <<d, Add(base[d], i)>>

(* The one behind InOrderDelivery and ClosedAfterAllData.                  *)
OrderInv ==
  /\ Conversation
  /\ BasedByStatus
  /\ Opened
  /\ \A d \in Side : based[d] => Position(d) /\ BehindOwn(d) /\ InOrder(d)
  /\ \A d \in Side : FinCounted(d) => FinReached(d)
  /\ "closed" \in events => status = "CLOSED"

(* The number a stream has come to, before uint32_t reduces it: its SYN,   *)
(* the bytes taken and the FIN.                                            *)
Pos(d) == 1 + Len(delivered[d]) + (IF FinCounted(d) THEN 1 ELSE 0)

(* Fewer bytes have been taken than there are sequence numbers.            *)
WithinSequenceSpace == \A d \in Side : Len(delivered[d]) + 2 < SeqMod

(* Until a lookup has met a segment of the other endpoint, the invocations *)
(* are the sender's own ...                                                *)
TodoIsOwn == \A i \in DOMAIN todo : todo[i].from = sender

(* ... what is kept is filed under its own stream's relative number ...    *)
FiledUnderOwn ==
  \A k \in SeqNo : \A i \in DOMAIN seg_map[k] :
    based[seg_map[k][i].from] /\ k = Rel(seg_map[k][i].from, seg_map[k][i].seq)

(* ... none of it is the one its stream expects ...                        *)
NoneExpected ==
  \A d \in Side : based[d] =>
    \A i \in DOMAIN seg_map[next_seq[d]] : seg_map[next_seq[d]][i].from # d

(* ... and a captured segment is to be decoded, is kept, or is behind its  *)
(* stream.                                                                 *)
Waiting(g) == \E i \in DOMAIN todo : todo[i] = g
Filed(g) ==
  \E i \in DOMAIN seg_map[Rel(g.from, g.seq)] : seg_map[Rel(g.from, g.seq)][i] = g
Passed(g) == g.len > 0 => Rel(g.from, g.seq) < Pos(g.from)
Accounted ==
  \A g \in got : based[g.from] /\ (Waiting(g) \/ Filed(g) \/ Passed(g))

(* The client is known from the first status on.                           *)
ClientKnown == status # "NONE" => client \in Side

(* The inductive invariant behind NoHoleLeft.                              *)
HoleInv ==
  /\ BasedByStatus
  /\ ClientKnown
  /\ \A d \in Side : based[d] => Position(d)
  /\ ~crossed => TodoIsOwn /\ FiledUnderOwn /\ NoneExpected /\ Accounted

-----------------------------------------------------------------------------

(* Session::make_key() gives the packets of both directions the same key,  *)
(* and those of another pair of endpoints another: whatever addresses and  *)
(* ports are compared, equal ones included.                                *)
THEOREM KeyIdentifiesPair ==
  ASSUME NEW x \in Endpoints, NEW y \in Endpoints,
         NEW u \in Endpoints, NEW v \in Endpoints
  PROVE  make_key(x, y) = make_key(u, v) <=> (x = u /\ y = v) \/ (x = v /\ y = u)
<1>1. \A p \in Endpoints : p = [addr |-> p.addr, port |-> p.port]
  BY DEF Endpoints
<1>2. \A p \in Endpoints : p.addr \in Nat /\ p.port \in Nat
  BY DEF Endpoints
<1>3. \A p, q \in Endpoints : p.addr = q.addr /\ p.port = q.port => p = q
  BY <1>1, Zenon
<1> QED BY <1>2, <1>3 DEF make_key, Larger

-----------------------------------------------------------------------------
(* The first state has no session.                                         *)
LEMMA InitSessionInv == Init => SessionInv
BY DEF Init, SessionInv, SessionInHand, NothingBefore, EventsOncePerSession, Statuses,
       NoSide, NoKey

(* A packet of no or of an expired session starts with a session that has  *)
(* raised new_session and nothing else.                                    *)
LEMMA NewSessionKeepsInv ==
  ASSUME NEW g \in Segments, NewSession(g) PROVE SessionInv'
<1>1. g.from \in Side
  BY SegmentAssumption
<1>2. KeyOf(g) # NoKey
  BY DEF KeyOf, make_key, NoKey
<1> QED
  BY <1>1, <1>2 DEF NewSession, decode, SessionInv, SessionInHand, NothingBefore,
     EventsOncePerSession, RaisedBy, Statuses, NoSide

(* A packet of the known session changes no session field.                 *)
LEMMA KnownSessionKeepsInv ==
  ASSUME SessionInv, NEW g \in Segments, KnownSession(g) PROVE SessionInv'
<1>1. g.from \in Side
  BY SegmentAssumption
<1>2. KeyOf(g) # NoKey
  BY DEF KeyOf, make_key, NoKey
<1> QED
  BY <1>1, <1>2 DEF KnownSession, decode, ssnvars, SessionInv, SessionInHand,
     NothingBefore, EventsOncePerSession

(* Storing a segment moves no status.                                      *)
LEMMA StoreKeepsInv == ASSUME SessionInv, Store PROVE SessionInv'
BY DEF Store, propvars, histvars, SessionInv, SessionInHand, NothingBefore,
       EventsOncePerSession

(* An accepted segment moves the session by at most one status, and raises *)
(* the event of the new one.                                               *)
LEMMA DeliverKeepsInv == ASSUME SessionInv, Deliver PROVE SessionInv'
<1> DEFINE g == Head(todo)
           d == sender
<1>1. /\ key # NoKey /\ key' = key /\ sender \in Side /\ sender' = sender
      /\ status \in Statuses /\ trans_state(d, g)
  BY DEF Deliver, SessionInv, SessionInHand
<1>2. CASE ~Leaves(d, g)
  <2>1. status' = status /\ closing' = closing /\ raised' = raised \o <<>>
    BY <1>1, <1>2 DEF trans_state
  <2>2. raised = RaisedBy(status)
    BY <1>1 DEF SessionInv, EventsOncePerSession
  <2>3. RaisedBy(status) \o <<>> = RaisedBy(status)
    BY DEF RaisedBy
  <2>4. raised' = raised
    BY <2>1, <2>2, <2>3
  <2> QED
    BY <1>1, <2>1, <2>4 DEF SessionInv, SessionInHand, NothingBefore,
       EventsOncePerSession
<1>3. CASE Leaves(d, g)
  <2>1. /\ status' = Successor[status]
        /\ closing' = IF status = "ESTABLISHED" THEN d ELSE closing
    BY <1>1, <1>3 DEF trans_state
  <2>2. raised' = RaisedBy(status')
    <3>1. status # "CLOSED"
      BY <1>3 DEF Leaves
    <3>2. raised = RaisedBy(status)
      BY <1>1 DEF SessionInv, EventsOncePerSession
    <3> QED BY <1>1, <2>1, <3>1, <3>2 DEF trans_state, RaisedBy, Successor, Statuses
  <2>3. /\ status' \in Statuses
        /\ closing' # NoSide <=> status' \in {"CLOSING", "CLOSED"}
    BY <1>1, <1>3, <2>1 DEF Leaves, Successor, Statuses, SessionInv,
       EventsOncePerSession, NoSide, Side
  <2> QED
    BY <1>1, <2>2, <2>3 DEF SessionInv, SessionInHand, NothingBefore,
       EventsOncePerSession
<1> QED BY <1>2, <1>3

(* The inductive invariant of the session's life.                          *)
THEOREM SessionInvariant == Spec => []SessionInv
<1>1. SessionInv /\ [Next]_vars => SessionInv'
  <2> SUFFICES ASSUME SessionInv, [Next]_vars PROVE SessionInv' OBVIOUS
  <2>1. CASE Finished \/ UNCHANGED vars
    BY <2>1 DEF Finished, vars, ssnvars, propvars, histvars, SessionInv,
                SessionInHand, NothingBefore, EventsOncePerSession
  <2>2. CASE Next /\ ~Finished
    BY <2>2, NewSessionKeepsInv, KnownSessionKeepsInv, StoreKeepsInv,
       DeliverKeepsInv DEF Next
  <2> QED BY <2>1, <2>2
<1> QED BY InitSessionInv, <1>1, PTL DEF Spec

(* Whatever the two endpoints put on the wire and in whatever order it is  *)
(* captured, a session raises its events once and in their order.          *)
THEOREM EventsRaisedOnce == Spec => []EventsOncePerSession
<1>1. SessionInv => EventsOncePerSession BY DEF SessionInv
<1> QED BY SessionInvariant, <1>1, PTL

-----------------------------------------------------------------------------
(* Arithmetic of sequence numbers.                                         *)

(* The parts of a segment.                                                 *)
LEMMA SegmentParts ==
  ASSUME NEW g \in Segments
  PROVE  /\ g.from \in Side /\ g.flags \in SUBSET Flags
         /\ g.seq \in SeqNo /\ g.len \in 0 .. SeqMod - 1
         /\ g.seq \in Nat /\ g.len \in Nat
<1>1. /\ g.from \in Side /\ g.flags \in SUBSET Flags
      /\ g.seq \in SeqNo /\ g.len \in 0 .. SeqMod - 1
  BY SegmentAssumption
<1> QED
  BY <1>1, SeqAssumption DEF SeqNo

(* Division by SeqMod, as uint32_t arithmetic does it.                     *)
LEMMA DivMod ==
  ASSUME NEW x \in Int
  PROVE  /\ x % SeqMod \in 0 .. SeqMod - 1
         /\ \E q \in Int : x = q * SeqMod + (x % SeqMod)
<1>1. x \div SeqMod \in Int /\ x = (x \div SeqMod) * SeqMod + (x % SeqMod)
      /\ x % SeqMod \in 0 .. SeqMod - 1
  BY SeqAssumption
<1> QED
  BY <1>1

(* Remainders are unique.                                                  *)
LEMMA ModUnique ==
  ASSUME NEW r \in 0 .. SeqMod - 1, NEW s \in 0 .. SeqMod - 1,
         NEW q \in Int, NEW p \in Int, q * SeqMod + r = p * SeqMod + s
  PROVE  r = s
<1>1. (q - p) * SeqMod = s - r
  BY SeqAssumption
<1>2. q - p = 0 \/ q - p >= 1 \/ q - p <= -1
  OBVIOUS
<1>3. CASE q - p >= 1
  BY <1>1, <1>3, SeqAssumption
<1>4. CASE q - p <= -1
  BY <1>1, <1>4, SeqAssumption
<1> QED
  BY <1>1, <1>2, <1>3, <1>4, SeqAssumption

(* Reducing a summand does not change the sum.                             *)
LEMMA ModPlus ==
  ASSUME NEW a \in Int, NEW b \in Int
  PROVE  ((a % SeqMod) + b) % SeqMod = (a + b) % SeqMod
<1> DEFINE x == a % SeqMod
           y == (x + b) % SeqMod
           z == (a + b) % SeqMod
<1>1. PICK q \in Int : a = q * SeqMod + x /\ x \in 0 .. SeqMod - 1
  BY DivMod
<1> HIDE DEF x
<1>2. x + b \in Int
  BY <1>1, SeqAssumption
<1>3. PICK p \in Int : x + b = p * SeqMod + y /\ y \in 0 .. SeqMod - 1
  BY <1>2, DivMod
<1>4. PICK k \in Int : a + b = k * SeqMod + z /\ z \in 0 .. SeqMod - 1
  BY DivMod
<1> HIDE DEF y, z
<1>5. (q + p) * SeqMod = q * SeqMod + p * SeqMod
  BY SeqAssumption
<1>6. (q + p) * SeqMod + y = k * SeqMod + z
  BY <1>1, <1>3, <1>4, <1>5, SeqAssumption
<1>7. y = z
  BY <1>3, <1>4, <1>6, ModUnique
<1> QED
  BY <1>7 DEF x, y, z

(* A sequence number is its own remainder.                                 *)
LEMMA ModSmall ==
  ASSUME NEW s \in SeqNo
  PROVE  s % SeqMod = s
<1>1. s \in Int /\ s \in 0 .. SeqMod - 1
  BY SeqAssumption DEF SeqNo
<1>2. PICK q \in Int : s = q * SeqMod + (s % SeqMod)
  BY <1>1, DivMod
<1>3. s % SeqMod \in 0 .. SeqMod - 1
  BY <1>1, DivMod
<1>4. 0 * SeqMod + s = s
  BY <1>1, SeqAssumption
<1> QED
  BY <1>1, <1>2, <1>3, <1>4, ModUnique

(* Sums and relative numbers are sequence numbers, and base_seq_ and the   *)
(* relative number give the number back.                                   *)
LEMMA AddType ==
  ASSUME NEW x \in Int, NEW y \in Int
  PROVE  Add(x, y) \in SeqNo
<1>1. x + y \in Int
  OBVIOUS
<1> QED
  BY <1>1, DivMod DEF Add, SeqNo

(* A relative sequence number is a sequence number.                        *)
LEMMA RelType ==
  ASSUME TypeOK, NEW d \in Side, NEW s \in SeqNo
  PROVE  Rel(d, s) \in SeqNo /\ Add(base[d], Rel(d, s)) = s
<1>1. base[d] \in Int /\ s \in Int /\ s - base[d] \in Int
  BY SeqAssumption DEF TypeOK, SeqNo
<1>2. Rel(d, s) \in SeqNo /\ Rel(d, s) \in Int
  <2>1. (s - base[d]) % SeqMod \in 0 .. SeqMod - 1
    BY <1>1, DivMod
  <2> QED
    BY <2>1, SeqAssumption DEF Rel, SeqNo
<1>3. (((s - base[d]) % SeqMod) + base[d]) % SeqMod
        = ((s - base[d]) + base[d]) % SeqMod
  BY <1>1, ModPlus
<1>4. (s - base[d]) + base[d] = s
  BY <1>1
<1>5. base[d] + Rel(d, s) = Rel(d, s) + base[d]
  BY <1>1, <1>2
<1> QED
  BY <1>2, <1>3, <1>4, <1>5, ModSmall DEF Add, Rel

(* The payload of a segment has its length.                                *)
LEMMA DataType ==
  ASSUME NEW g \in Segments
  PROVE  /\ Data(g) \in Seq(Bytes)
         /\ Len(Data(g)) = g.len
<1> DEFINE first == IF "SYN" \in g.flags THEN 1 ELSE 0
<1>1. g.seq \in Int /\ g.len \in Nat /\ first \in Int /\ g.from \in Side
  BY SegmentParts
<1>2. Data(g) = [i \in 1 .. g.len |-> <<g.from, Add(g.seq, first + i - 1)>>]
  BY DEF Data
<1> HIDE DEF first
<1>3. \A i \in 1 .. g.len : <<g.from, Add(g.seq, first + i - 1)>> \in Bytes
  <2> TAKE i \in 1 .. g.len
  <2>1. first + i - 1 \in Int
    BY <1>1
  <2>2. Add(g.seq, first + i - 1) \in SeqNo
    BY <1>1, <2>1, AddType
  <2> QED
    BY <1>1, <2>2 DEF Bytes
<1>4. Data(g) \in [1 .. g.len -> Bytes]
  BY <1>2, <1>3
<1> QED
  BY <1>1, <1>4

-----------------------------------------------------------------------------
(* The stored segments.                                                    *)

(* The chains are finite sequences, and so many places are taken.          *)
LEMMA ChainPlaces ==
  ASSUME TypeOK, NEW k \in SeqNo
  PROVE  /\ seg_map[k] \in Seq(Segments) /\ Len(seg_map[k]) \in Nat
         /\ DOMAIN seg_map[k] = 1 .. Len(seg_map[k])
         /\ IsFiniteSet(Places(k)) /\ Cardinality(Places(k)) = Len(seg_map[k])
         /\ Places(k) \subseteq Kept
<1> DEFINE n == Len(seg_map[k])
<1>1. seg_map[k] \in Seq(Segments)
  BY DEF TypeOK
<1>2. n \in Nat /\ DOMAIN seg_map[k] = 1 .. n
  BY <1>1
<1>3. Places(k) = {k} \X (1 .. n)
  BY <1>2 DEF Places
<1>4. IsFiniteSet(1 .. n) /\ Cardinality(1 .. n) = n
  <2> HIDE DEF n
  <2>1. IsFiniteSet(1 .. n) /\ Cardinality(1 .. n) = IF 1 > n THEN 0 ELSE n - 1 + 1
    BY <1>2, FS_Interval
  <2>2. (IF 1 > n THEN 0 ELSE n - 1 + 1) = n
    BY <1>2
  <2> QED
    BY <2>1, <2>2
<1>5. IsFiniteSet({k}) /\ Cardinality({k}) = 1
  BY FS_Singleton
<1> HIDE DEF n
<1>6. IsFiniteSet({k} \X (1 .. n)) /\ Cardinality({k} \X (1 .. n)) = 1 * n
  BY <1>4, <1>5, FS_Product
<1>7. 1 * n = n
  BY <1>2
<1>8. Places(k) \subseteq Kept
  BY DEF Kept
<1> QED
  BY <1>1, <1>2, <1>3, <1>6, <1>7, <1>8 DEF n

(* insert() takes one more place.                                          *)
LEMMA KeptGrows ==
  ASSUME TypeOK, IsFiniteSet(Kept), NEW k \in SeqNo, NEW g \in Segments,
         seg_map' = [seg_map EXCEPT ![k] = Append(@, g)]
  PROVE  /\ seg_map' \in [SeqNo -> Seq(Segments)]
         /\ IsFiniteSet(Kept') /\ Cardinality(Kept') = Cardinality(Kept) + 1
<1> DEFINE n == Len(seg_map[k])
           p == <<k, n + 1>>
<1>1. seg_map[k] \in Seq(Segments) /\ n \in Nat /\ DOMAIN seg_map[k] = 1 .. n
  BY ChainPlaces
<1>2. seg_map \in [SeqNo -> Seq(Segments)]
  BY DEF TypeOK
<1>3. /\ seg_map'[k] = Append(seg_map[k], g)
      /\ \A j \in SeqNo \ {k} : seg_map'[j] = seg_map[j]
      /\ seg_map' \in [SeqNo -> Seq(Segments)]
  BY <1>1, <1>2
<1>4. DOMAIN seg_map'[k] = 1 .. n + 1
  BY <1>1, <1>3
<1> HIDE DEF n
<1>5. 1 .. n + 1 = (1 .. n) \cup {n + 1} /\ n + 1 \notin 1 .. n
  BY <1>1
<1>6. ASSUME NEW j \in SeqNo
      PROVE  Places(j)' = IF j = k THEN Places(j) \cup {p} ELSE Places(j)
  <2>1. CASE j = k
    <3>1. Places(j)' = {k} \X (1 .. n + 1) /\ Places(j) = {k} \X (1 .. n)
      BY <1>1, <1>4, <2>1 DEF Places
    <3>2. {k} \X (1 .. n + 1) = ({k} \X (1 .. n)) \cup {p}
      BY <1>5
    <3> QED
      BY <2>1, <3>1, <3>2
  <2>2. CASE j # k
    BY <1>3, <2>2 DEF Places
  <2> QED
    BY <2>1, <2>2
<1>7. Kept' = Kept \cup {p}
  <2> HIDE DEF p
  <2>1. Kept' = UNION {Places(j)' : j \in SeqNo}
    BY DEF Kept
  <2>2. \A x : x \in Kept' <=> \E j \in SeqNo : x \in Places(j)'
    BY <2>1
  <2>3. \A x : x \in Kept <=> \E j \in SeqNo : x \in Places(j)
    BY DEF Kept
  <2>4. ASSUME NEW x, x \in Kept'
        PROVE  x \in Kept \cup {p}
    <3>1. PICK j \in SeqNo : x \in Places(j)'
      BY <2>2, <2>4
    <3>2. x \in Places(j) \/ x = p
      BY <1>6, <3>1
    <3> QED
      BY <2>3, <3>2
  <2>5. ASSUME NEW x, x \in Kept
        PROVE  x \in Kept'
    <3>1. PICK j \in SeqNo : x \in Places(j)
      BY <2>3, <2>5
    <3>2. x \in Places(j)'
      BY <1>6, <3>1
    <3> QED
      BY <2>2, <3>2
  <2>6. p \in Kept'
    <3>1. p \in Places(k)'
      BY <1>6
    <3> QED
      BY <2>2, <3>1
  <2> QED
    BY <2>4, <2>5, <2>6
<1>8. p \notin Kept
  <2>1. p \notin Places(k)
    BY <1>1, <1>5 DEF Places
  <2>2. \A j \in SeqNo : p \in Places(j) => j = k
    BY DEF Places
  <2> HIDE DEF p
  <2> QED
    BY <2>1, <2>2 DEF Kept
<1> QED
  BY <1>3, <1>7, <1>8, FS_AddElement

(* A chain that is taken out frees its places.                             *)
LEMMA KeptErased ==
  ASSUME TypeOK, IsFiniteSet(Kept), NEW k \in SeqNo, seg_map' = erase(k)
  PROVE  /\ seg_map' \in [SeqNo -> Seq(Segments)]
         /\ IsFiniteSet(Kept')
         /\ Cardinality(Kept') = Cardinality(Kept) - Len(seg_map[k])
<1>1. seg_map \in [SeqNo -> Seq(Segments)]
  BY DEF TypeOK
<1>2. /\ seg_map'[k] = <<>>
      /\ \A j \in SeqNo \ {k} : seg_map'[j] = seg_map[j]
  BY <1>1 DEF erase
<1>3. seg_map' \in [SeqNo -> Seq(Segments)]
  <2>1. <<>> \in Seq(Segments)
    OBVIOUS
  <2> QED
    BY <1>1, <2>1 DEF erase
<1>4. DOMAIN seg_map'[k] = {}
  BY <1>2
<1>5. Places(k)' = {} /\ \A j \in SeqNo \ {k} : Places(j)' = Places(j)
  BY <1>2, <1>4 DEF Places
<1>6. Kept' = Kept \ Places(k)
  <2>1. \A j \in SeqNo : j # k => Places(j) \cap Places(k) = {}
    BY DEF Places
  <2>2. \A x : x \in Kept' <=> \E j \in SeqNo : x \in Places(j)'
    BY DEF Kept
  <2>3. \A x : x \in Kept <=> \E j \in SeqNo : x \in Places(j)
    BY DEF Kept
  <2>4. ASSUME NEW x, x \in Kept'
        PROVE  x \in Kept /\ x \notin Places(k)
    <3>1. PICK j \in SeqNo : x \in Places(j)'
      BY <2>2, <2>4
    <3>2. j # k /\ x \in Places(j)
      BY <1>5, <3>1
    <3> QED
      BY <2>1, <2>3, <3>2
  <2>5. ASSUME NEW x, x \in Kept, x \notin Places(k)
        PROVE  x \in Kept'
    <3>1. PICK j \in SeqNo : x \in Places(j)
      BY <2>3, <2>5
    <3>2. x \in Places(j)'
      BY <1>5, <2>5, <3>1
    <3> QED
      BY <2>2, <3>2
  <2> QED
    BY <2>4, <2>5
<1>7. Kept \cap Places(k) = Places(k) /\ Cardinality(Places(k)) = Len(seg_map[k])
  BY ChainPlaces
<1>8. IsFiniteSet(Kept \ Places(k))
      /\ Cardinality(Kept \ Places(k))
           = Cardinality(Kept) - Cardinality(Kept \cap Places(k))
  BY FS_Difference
<1> QED
  BY <1>3, <1>6, <1>7, <1>8

(* The first state.                                                        *)
LEMMA InitStoreInv ==
  ASSUME Init
  PROVE  StoreInv
<1> USE DEF Init
<1>1. 0 \in SeqNo
  BY SeqAssumption DEF SeqNo
<1>2. NoBuf \in Seq(Bytes)
  BY <1>1 DEF NoBuf, Bytes
<1>3. seg_map \in [SeqNo -> Seq(Segments)] /\ delivered \in [Side -> Seq(Bytes)]
  <2>1. <<>> \in Seq(Segments) /\ <<>> \in Seq(Bytes)
    OBVIOUS
  <2> QED
    BY <2>1
<1>4. key \in Seq(Nat) /\ raised \in Seq(SessionEvents) /\ todo \in Seq(Segments)
  BY DEF NoKey
<1>5. base \in [Side -> SeqNo] /\ next_seq \in [Side -> SeqNo]
  BY <1>1
<1>6. ssn_count \in 0 .. MaxSessions /\ captures \in 0 .. MaxCaptures
  BY BoundAssumption
<1>7. TypeOK
  BY <1>2, <1>3, <1>4, <1>5, <1>6 DEF TypeOK, Statuses
<1>8. Kept = {}
  <2>1. \A k \in SeqNo : DOMAIN seg_map[k] = {}
    <3> TAKE k \in SeqNo
    <3>1. seg_map[k] = <<>>
      OBVIOUS
    <3> QED
      BY <3>1
  <2>2. \A k \in SeqNo : Places(k) = {}
    BY <2>1 DEF Places
  <2> QED
    BY <2>2 DEF Kept
<1>9. Len(todo) = 0
  OBVIOUS
<1> QED
  BY <1>7, <1>8, <1>9, FS_EmptySet DEF StoreInv, NoSegmentLost

(* A packet begins: what decode() of the session sets.                     *)
LEMMA DecodeBegins ==
  ASSUME NEW g \in Segments, NEW evs \in SUBSET SessionEvents, decode(g, evs),
         captures \in 0 .. MaxCaptures, captures < MaxCaptures
  PROVE  /\ todo' = <<g>> /\ todo' \in Seq(Segments) /\ Len(todo') = 1
         /\ sender' \in Side /\ events' \subseteq SessionEvents
         /\ buf' \in Seq(Bytes) /\ value' \in Seq(Bytes) /\ newest' \in Seq(Bytes)
         /\ captures' \in 0 .. MaxCaptures
         /\ KeyOf(g) \in Seq(Nat)
<1>1. 0 \in SeqNo /\ MaxCaptures \in Nat
  BY SeqAssumption, BoundAssumption DEF SeqNo
<1>2. NoBuf \in Seq(Bytes)
  BY <1>1 DEF NoBuf, Bytes
<1>3. captures' \in 0 .. MaxCaptures
  BY <1>1 DEF decode
<1>4. \A d \in Side : /\ Endpoint[d].addr \in Nat /\ Endpoint[d].port \in Nat
  BY EndpointAssumption DEF Endpoints
<1>5. g.from \in Side /\ Other(g.from) \in Side
  BY SegmentParts DEF Other, Side
<1>6. KeyOf(g) \in Seq(Nat)
  BY <1>4, <1>5 DEF KeyOf, make_key
<1> QED
  BY <1>2, <1>3, <1>5, <1>6 DEF decode

(* The new session has kept nothing, and its first packet is to be decoded. *)
LEMMA NewSessionKeepsStore ==
  ASSUME StoreInv, NEW g \in Segments, NewSession(g)
  PROVE  StoreInv'
<1>1. captures \in 0 .. MaxCaptures /\ captures < MaxCaptures
      /\ ssn_count \in 0 .. MaxSessions /\ decode(g, {"new_session"})
  BY DEF StoreInv, TypeOK, NewSession
<1>2. {"new_session"} \in SUBSET SessionEvents
  BY DEF SessionEvents
<1>3. /\ todo' = <<g>> /\ todo' \in Seq(Segments) /\ Len(todo') = 1
      /\ sender' \in Side /\ events' \subseteq SessionEvents
      /\ buf' \in Seq(Bytes) /\ value' \in Seq(Bytes) /\ newest' \in Seq(Bytes)
      /\ captures' \in 0 .. MaxCaptures
      /\ KeyOf(g) \in Seq(Nat)
  BY <1>1, <1>2, DecodeBegins
<1>4. 0 \in SeqNo /\ g.from \in Side
  BY SeqAssumption, SegmentParts DEF SeqNo
<1>5. seg_map' \in [SeqNo -> Seq(Segments)] /\ delivered' \in [Side -> Seq(Bytes)]
  <2>1. <<>> \in Seq(Segments) /\ <<>> \in Seq(Bytes)
    OBVIOUS
  <2> QED
    BY <2>1 DEF NewSession
<1>6. raised' \in Seq(SessionEvents)
  BY DEF NewSession, SessionEvents
<1>7. ssn_count' \in 0 .. MaxSessions
  BY <1>1, BoundAssumption DEF NewSession
<1>8. TypeOK'
  BY <1>3, <1>4, <1>5, <1>6, <1>7 DEF NewSession, TypeOK, Statuses
<1>9. Kept' = {}
  <2>1. \A k \in SeqNo : DOMAIN seg_map'[k] = {}
    <3> TAKE k \in SeqNo
    <3>1. seg_map'[k] = <<>>
      BY DEF NewSession
    <3> QED
      BY <3>1
  <2>2. \A k \in SeqNo : Places(k)' = {}
    BY <2>1 DEF Places
  <2> QED
    BY <2>2 DEF Kept
<1>10. unaccepted' = Cardinality(Kept') + Len(todo')
  BY <1>3, <1>9, FS_EmptySet DEF NewSession
<1> QED
  BY <1>8, <1>9, <1>10, FS_EmptySet DEF StoreInv, NoSegmentLost

(* One more packet of a session, all of whose packets are accounted for.   *)
LEMMA KnownSessionKeepsStore ==
  ASSUME StoreInv, NEW g \in Segments, KnownSession(g)
  PROVE  StoreInv'
<1>t. TypeOK
  BY DEF StoreInv
<1>1. captures \in 0 .. MaxCaptures /\ captures < MaxCaptures /\ decode(g, {})
      /\ unaccepted \in Nat /\ todo = <<>>
  BY <1>t DEF TypeOK, KnownSession
<1>2. /\ todo' = <<g>> /\ todo' \in Seq(Segments) /\ Len(todo') = 1
      /\ sender' \in Side /\ events' \subseteq SessionEvents
      /\ buf' \in Seq(Bytes) /\ value' \in Seq(Bytes) /\ newest' \in Seq(Bytes)
      /\ captures' \in 0 .. MaxCaptures
  BY <1>1, DecodeBegins
<1>3. TypeOK'
  <2>1. got' \subseteq Segments /\ unaccepted' \in Nat
    BY <1>t, <1>1 DEF KnownSession, TypeOK
  <2>2. UNCHANGED <<ssn_count, key, client, status, closing, based, base,
                    next_seq, seg_map, delivered, raised, crossed>>
    BY DEF KnownSession, ssnvars
  <2> QED
    BY <1>t, <1>2, <2>1, <2>2 DEF TypeOK
<1>4. Kept' = Kept
  BY DEF KnownSession, ssnvars, Kept, Places
<1>5. unaccepted' = Cardinality(Kept') + Len(todo')
  <2>1. Cardinality(Kept) \in Nat /\ Len(todo) = 0
    BY <1>1, FS_CardinalityType DEF StoreInv
  <2>2. unaccepted = Cardinality(Kept) + Len(todo)
    BY DEF StoreInv, NoSegmentLost
  <2> QED
    BY <1>2, <1>4, <2>1, <2>2 DEF KnownSession
<1> QED
  BY <1>3, <1>4, <1>5 DEF StoreInv, NoSegmentLost

(* The first of a sequence, and the others.                                *)
LEMMA QueueParts ==
  ASSUME NEW S, NEW q \in Seq(S), q # <<>>
  PROVE  /\ Head(q) \in S /\ Tail(q) \in Seq(S)
         /\ Len(q) \in Nat /\ Len(Tail(q)) = Len(q) - 1 /\ Len(Tail(q)) \in Nat
OBVIOUS

(* What an invocation of decode_stream() is given.                         *)
LEMMA Invocation ==
  ASSUME TypeOK, todo # <<>>
  PROVE  /\ Head(todo) \in Segments /\ sender \in Side
         /\ Tail(todo) \in Seq(Segments)
         /\ Len(todo) \in Nat /\ Len(Tail(todo)) = Len(todo) - 1
         /\ Len(Tail(todo)) \in Nat
<1>1. todo \in Seq(Segments) /\ sender \in Side
  BY Zenon DEF TypeOK
<1>2. PICK q \in Seq(Segments) : q = todo
  BY <1>1, Zenon
<1>3. /\ Head(q) \in Segments /\ Tail(q) \in Seq(Segments)
      /\ Len(q) \in Nat /\ Len(Tail(q)) = Len(q) - 1 /\ Len(Tail(q)) \in Nat
  BY <1>2, QueueParts
<1> QED
  BY <1>1, <1>2, <1>3, Zenon

(* A segment that does not fit goes from the invocation to the map.        *)
LEMMA StoreKeepsStore ==
  ASSUME StoreInv, Store
  PROVE  StoreInv'
<1> DEFINE g == Head(todo)
           k == Rel(sender, g.seq)
<1>t. TypeOK /\ IsFiniteSet(Kept) /\ unaccepted = Cardinality(Kept) + Len(todo)
  BY DEF StoreInv, NoSegmentLost
<1>1. /\ todo # <<>> /\ todo' = Tail(todo)
      /\ seg_map' = [seg_map EXCEPT ![k] = Append(@, g)]
      /\ UNCHANGED <<ssn_count, key, client, status, closing, based, base,
                     next_seq, buf, sender, value, newest, events, captures,
                     delivered, got, raised, unaccepted, crossed>>
  BY DEF Store, propvars, histvars
<1>2. /\ g \in Segments /\ sender \in Side /\ Tail(todo) \in Seq(Segments)
      /\ Len(todo) \in Nat /\ Len(Tail(todo)) = Len(todo) - 1
  BY <1>t, <1>1, Invocation
<1>3. k \in SeqNo
  BY <1>t, <1>2, RelType, SegmentParts
<1> HIDE DEF g, k
<1>4. /\ seg_map' \in [SeqNo -> Seq(Segments)]
      /\ IsFiniteSet(Kept') /\ Cardinality(Kept') = Cardinality(Kept) + 1
  BY <1>t, <1>1, <1>2, <1>3, KeptGrows
<1>5. TypeOK'
  BY <1>t, <1>1, <1>2, <1>4 DEF TypeOK
<1>6. unaccepted' = Cardinality(Kept') + Len(todo')
  <2>1. Cardinality(Kept) \in Nat
    BY <1>t, FS_CardinalityType
  <2> QED
    BY <1>t, <1>1, <1>2, <1>4, <2>1
<1> QED
  BY <1>4, <1>5, <1>6 DEF StoreInv, NoSegmentLost

(* trans_state() keeps the types of the session, whatever segment it sees. *)
LEMMA TransStateType ==
  ASSUME TypeOK, NEW d \in Side, NEW g \in Segments, trans_state(d, g)
  PROVE  /\ status' \in Statuses /\ closing' \in Side \cup {NoSide}
         /\ based' \in [Side -> BOOLEAN] /\ base' \in [Side -> SeqNo]
         /\ next_seq' \in [Side -> SeqNo] /\ next_seq'[d] \in SeqNo
         /\ events' \subseteq SessionEvents /\ raised' \in Seq(SessionEvents)
<1>1. g.seq \in SeqNo /\ g.len \in Int
  BY SegmentParts
<1>2. status' \in Statuses
  <2>1. \A st \in Statuses : Successor[st] \in Statuses
    BY DEF Successor, Statuses
  <2> QED
    BY <2>1 DEF trans_state, TypeOK
<1>3. closing' \in Side \cup {NoSide}
  BY DEF trans_state, TypeOK
<1>4. based' \in [Side -> BOOLEAN] /\ base' \in [Side -> SeqNo]
  BY <1>1 DEF trans_state, TypeOK
<1>5. next_seq' \in [Side -> SeqNo] /\ next_seq'[d] \in SeqNo
  <2>1. next_seq \in [Side -> SeqNo] /\ next_seq[d] \in SeqNo
        /\ \A x \in SeqNo : x \in Int
    BY SeqAssumption DEF TypeOK, SeqNo
  <2>2. Sent(d, g) \in SeqNo
    BY <1>1, <2>1, AddType DEF Sent
  <2>3. Add(1, g.len) \in SeqNo /\ Add(Sent(d, g), 1) \in SeqNo
    <3>1. Sent(d, g) \in Int /\ 1 \in Int
      BY <2>1, <2>2
    <3> QED
      BY <1>1, <3>1, AddType
  <2> QED
    BY <2>1, <2>2, <2>3 DEF trans_state
<1>6. events' \subseteq SessionEvents /\ raised' \in Seq(SessionEvents)
  <2> DEFINE new == IF status' = status THEN <<>>
                    ELSE IF status' = "ESTABLISHED" THEN <<"established">>
                    ELSE IF status' = "CLOSED" THEN <<"closed">> ELSE <<>>
  <2>1. new \in Seq(SessionEvents)
    <3>1. /\ <<>> \in Seq(SessionEvents)
          /\ <<"established">> \in Seq(SessionEvents)
          /\ <<"closed">> \in Seq(SessionEvents)
      BY DEF SessionEvents
    <3> QED
      BY <3>1, Zenon
  <2>2. events' = events \cup {new[i] : i \in DOMAIN new} /\ raised' = raised \o new
    BY DEF trans_state
  <2>3. events \subseteq SessionEvents /\ raised \in Seq(SessionEvents)
    BY DEF TypeOK
  <2> HIDE DEF new
  <2>4. \A i \in DOMAIN new : new[i] \in SessionEvents
    BY <2>1
  <2> QED
    BY <2>1, <2>2, <2>3, <2>4
<1> QED
  BY <1>2, <1>3, <1>4, <1>5, <1>6

(* A segment that fits is accepted, and the chain behind it goes from the  *)
(* map to the invocations.                                                 *)
LEMMA DeliverKeepsStore ==
  ASSUME StoreInv, Deliver
  PROVE  StoreInv'
<1> DEFINE g == Head(todo)
           k == next_seq'[sender]
           chain == seg_map[k]
           rest == Tail(todo)
<1>t. TypeOK /\ IsFiniteSet(Kept) /\ unaccepted = Cardinality(Kept) + Len(todo)
  BY DEF StoreInv, NoSegmentLost
<1>1. /\ todo # <<>> /\ todo' = chain \o rest /\ trans_state(sender, g)
      /\ seg_map' = erase(k) /\ unaccepted' = unaccepted - 1
      /\ UNCHANGED <<ssn_count, key, client, sender, captures, got>>
  BY DEF Deliver, lookup_key
<1>2. /\ g \in Segments /\ sender \in Side /\ rest \in Seq(Segments)
      /\ Len(todo) \in Nat /\ Len(rest) = Len(todo) - 1 /\ Len(rest) \in Nat
  BY <1>t, <1>1, Invocation
<1>3. Data(g) \in Seq(Bytes)
  BY <1>2, DataType
<1>4. /\ status' \in Statuses /\ closing' \in Side \cup {NoSide}
      /\ based' \in [Side -> BOOLEAN] /\ base' \in [Side -> SeqNo]
      /\ next_seq' \in [Side -> SeqNo] /\ k \in SeqNo
      /\ events' \subseteq SessionEvents /\ raised' \in Seq(SessionEvents)
  <2> HIDE DEF g
  <2> QED
    BY <1>t, <1>1, <1>2, TransStateType
<1>5. buf' \in Seq(Bytes) /\ value' \in Seq(Bytes) /\ newest' \in Seq(Bytes)
  <2>1. buf \in Seq(Bytes) /\ value \in Seq(Bytes)
    BY <1>t DEF TypeOK
  <2>2. Reassembled(g) \in Seq(Bytes)
    BY <1>3, <2>1 DEF Reassembled
  <2>3. NoBuf \in Seq(Bytes)
    <3>1. 0 \in SeqNo
      BY SeqAssumption DEF SeqNo
    <3> QED
      BY <3>1 DEF NoBuf, Bytes
  <2>4. newest' = Reassembled(g)
    BY DEF Deliver
  <2>5. value' = value \/ value' = newest'
    BY DEF Deliver
  <2>6. buf' = Reassembled(g) \/ buf' = NoBuf
    BY DEF Deliver
  <2> QED
    BY <2>1, <2>2, <2>3, <2>4, <2>5, <2>6
<1>6. delivered' \in [Side -> Seq(Bytes)]
  <2>1. delivered \in [Side -> Seq(Bytes)] /\ delivered[sender] \in Seq(Bytes)
    BY <1>t, <1>2 DEF TypeOK
  <2>2. delivered[sender] \o Data(g) \in Seq(Bytes)
    BY <1>3, <2>1
  <2>3. delivered' = [delivered EXCEPT ![sender] =
          IF SetsBase(sender, g) THEN Data(g)
          ELSE IF based[sender] THEN delivered[sender] \o Data(g)
          ELSE delivered[sender]]
    BY DEF Deliver
  <2> HIDE DEF g
  <2> QED
    BY <1>3, <2>1, <2>2, <2>3
<1>7. crossed' \in BOOLEAN
  BY <1>t DEF Deliver, TypeOK
<1> HIDE DEF g, k
<1>8. /\ seg_map' \in [SeqNo -> Seq(Segments)]
      /\ IsFiniteSet(Kept')
      /\ Cardinality(Kept') = Cardinality(Kept) - Len(chain)
  BY <1>t, <1>1, <1>4, KeptErased
<1>9. chain \in Seq(Segments) /\ Len(chain) \in Nat
  BY <1>t, <1>4, ChainPlaces
<1> HIDE DEF chain, rest
<1>10. todo' \in Seq(Segments) /\ Len(todo') = Len(chain) + Len(rest)
  BY <1>1, <1>2, <1>9
<1>11. Cardinality(Kept) \in Nat /\ Cardinality(Kept') \in Nat
  BY <1>t, <1>8, FS_CardinalityType
<1>12. unaccepted' = Cardinality(Kept') + Len(todo')
  BY <1>t, <1>1, <1>2, <1>8, <1>9, <1>10, <1>11
<1>13. unaccepted' \in Nat
  BY <1>2, <1>9, <1>10, <1>11, <1>12
<1>14. TypeOK'
  BY <1>t, <1>1, <1>2, <1>4, <1>5, <1>6, <1>7, <1>8, <1>10, <1>13 DEF TypeOK
<1> QED
  BY <1>8, <1>12, <1>14 DEF StoreInv, NoSegmentLost

(* The inductive invariant of the stored segments.                         *)
THEOREM StoreInvariant == Spec => []StoreInv
<1>1. StoreInv /\ [Next]_vars => StoreInv'
  <2> SUFFICES ASSUME StoreInv, [Next]_vars PROVE StoreInv'
    OBVIOUS
  <2>1. CASE UNCHANGED vars
    <3>1. UNCHANGED <<ssn_count, key, client, status, closing, based, base,
                      next_seq, seg_map, buf, sender, todo, value, newest,
                      events, captures, delivered, got, raised, unaccepted,
                      crossed>>
      BY <2>1 DEF vars, ssnvars, propvars, histvars
    <3>2. TypeOK'
      BY <3>1 DEF StoreInv, TypeOK
    <3>3. Kept' = Kept
      BY <3>1 DEF Kept, Places
    <3> QED
      BY <3>1, <3>2, <3>3 DEF StoreInv, NoSegmentLost
  <2>2. CASE Next /\ ~UNCHANGED vars
    BY <2>2, NewSessionKeepsStore, KnownSessionKeepsStore, StoreKeepsStore,
       DeliverKeepsStore DEF Next, Finished
  <2> QED
    BY <2>1, <2>2
<1>2. Init => StoreInv
  BY InitStoreInv
<1> QED
  BY <1>1, <1>2, PTL DEF Spec

(* Whatever is captured, in whatever order, every packet of a session has  *)
(* been accepted, is kept in seg_map_ once, or is being decoded.           *)
THEOREM SegmentsAreKept == Spec => []NoSegmentLost
<1>1. StoreInv => NoSegmentLost
  BY DEF StoreInv
<1> QED
  BY StoreInvariant, <1>1, PTL

-----------------------------------------------------------------------------
(* The order of the streams.                                               *)

(* Sums may be taken step by step ...                                      *)
LEMMA AddSums ==
  ASSUME NEW x \in Int, NEW y \in Int, NEW z \in Int
  PROVE  Add(Add(x, y), z) = Add(x, y + z)
<1>1. (((x + y) % SeqMod) + z) % SeqMod = ((x + y) + z) % SeqMod
  BY ModPlus
<1>2. (x + y) + z = x + (y + z)
  OBVIOUS
<1> QED
  BY <1>1, <1>2 DEF Add

(* ... and with reduced summands.                                          *)
LEMMA AddReduced ==
  ASSUME NEW x \in Int, NEW y \in Int
  PROVE  Add(x, y % SeqMod) = Add(x, y)
<1>1. ((y % SeqMod) + x) % SeqMod = (y + x) % SeqMod
  BY ModPlus
<1>2. y % SeqMod \in Int
  <2>1. y % SeqMod \in 0 .. SeqMod - 1
    BY DivMod
  <2> QED
    BY <2>1, SeqAssumption
<1>3. y + x = x + y /\ (y % SeqMod) + x = x + (y % SeqMod)
  BY <1>2
<1> QED
  BY <1>1, <1>3 DEF Add

(* A stream with a base accepts only segments of its own endpoint: those   *)
(* of the other that a lookup brings up are never at this very number.     *)
LEMMA AcceptedIsOwn ==
  ASSUME TypeOK, OrderInv, NEW d \in Side, NEW g \in Segments,
         based[d], Accepts(d, g)
  PROVE  g.seq = Add(base[d], next_seq[d]) /\ g.from = d
<1>1. Rel(d, g.seq) = next_seq[d]
  BY DEF Accepts
<1>2. g.seq = Add(base[d], next_seq[d])
  BY <1>1, RelType, SegmentParts
<1>3. PICK h \in Segments : h.from = d /\ g.seq \in After(h)
  BY <1>2 DEF OrderInv, BehindOwn
<1> QED
  BY <1>2, <1>3 DEF OrderInv, Conversation

(* The SYN that gives a stream its base is of the stream's own endpoint.   *)
LEMMA BaseIsOwn ==
  ASSUME TypeOK, OrderInv, todo # <<>>, SetsBase(sender, Head(todo))
  PROVE  /\ Head(todo).from = sender
         /\ "SYN" \in Head(todo).flags /\ Head(todo).len = 0
         /\ status = "NONE" => sender = client /\ Head(todo).flags = {"SYN"}
         /\ status # "NONE" => status = "SYN_SENT" /\ sender # client
<1> DEFINE g == Head(todo)
<1>1. g \in Segments /\ sender \in Side
  BY Invocation
<1>2. CASE status = "NONE"
  <2>1. g.flags = {"SYN"} /\ sender = client
    BY <1>2 DEF SetsBase, Leaves
  <2>2. 1 \in DOMAIN todo /\ g = todo[1]
    BY DEF TypeOK
  <2>3. g.from = sender
    BY <1>2, <2>2 DEF OrderInv, Opened
  <2> QED
    BY <1>1, <1>2, <2>1, <2>3 DEF OrderInv, Conversation
<1>3. CASE status # "NONE"
  <2>1. status = "SYN_SENT"
    BY <1>3 DEF SetsBase
  <2>2. g.flags = {"SYN", "ACK"} /\ sender # client
    BY <2>1 DEF SetsBase, Leaves
  <2>3. PICK h \in Segments : h.from = client /\ h.flags = {"SYN"}
    BY <1>3 DEF OrderInv, Opened
  <2>4. client \in Side /\ g.from \in Side
    BY <1>1, <1>3, SegmentParts DEF OrderInv, Opened
  <2>5. g.from # client
    BY <1>1, <2>2, <2>3 DEF OrderInv, Conversation
  <2>6. g.from = sender
    BY <1>1, <2>2, <2>4, <2>5 DEF Side
  <2>7. g.len = 0
    BY <1>1, <2>2 DEF OrderInv, Conversation
  <2> QED
    BY <1>3, <2>1, <2>2, <2>6, <2>7
<1> QED
  BY <1>2, <1>3

(* In order so far, a stream that takes a segment at its next number stays *)
(* in order, and its next number moves behind the segment and its FIN.     *)
LEMMA TakesInOrder ==
  ASSUME TypeOK, OrderInv, NEW d \in Side, NEW g \in Segments,
         based[d], Accepts(d, g), ~FinCounted(d),
         NEW fin \in Nat
  PROVE  LET taken == delivered[d] \o Data(g)
         IN /\ taken \in Seq(Bytes) /\ Len(taken) = Len(delivered[d]) + g.len
            /\ \A i \in 1 .. Len(taken) : taken[i] = <<d, Add(base[d], i)>>
            /\ Add(Add(next_seq[d], g.len), fin) = (1 + Len(taken) + fin) % SeqMod
            /\ Add(base[d], (1 + Len(taken) + fin) % SeqMod)
                 = Add(g.seq, g.len + fin)
<1> DEFINE taken == delivered[d] \o Data(g)
           n == Len(delivered[d])
           b == base[d]
<1>1. /\ delivered[d] \in Seq(Bytes) /\ n \in Nat
      /\ b \in Int /\ fin \in Int
  BY SeqAssumption DEF TypeOK, SeqNo
<1>2. /\ g.seq \in Int /\ g.len \in Nat
      /\ Data(g) \in Seq(Bytes) /\ Len(Data(g)) = g.len
  BY SegmentParts, DataType
<1>3. next_seq[d] = (1 + n) % SeqMod
  <2>1. next_seq[d] = (1 + n + 0) % SeqMod
    BY DEF OrderInv, Position
  <2>2. 1 + n + 0 = 1 + n
    BY <1>1
  <2> QED
    BY <2>1, <2>2
<1>4. g.seq = Add(b, next_seq[d]) /\ g.from = d
  BY AcceptedIsOwn
<1> HIDE DEF b, n
<1>5. g.seq = Add(b, 1 + n)
  <2>1. 1 + n \in Int
    BY <1>1
  <2> QED
    BY <1>1, <1>3, <1>4, <2>1, AddReduced
<1>6. taken \in Seq(Bytes) /\ Len(taken) = n + g.len
  BY <1>1, <1>2 DEF n
<1>7. \A i \in 1 .. Len(taken) : taken[i] = <<d, Add(b, i)>>
  <2> TAKE i \in 1 .. Len(taken)
  <2>1. i \in Nat /\ i >= 1 /\ i <= n + g.len
    BY <1>1, <1>2, <1>6
  <2>2. CASE i <= n
    <3>1. i \in 1 .. n
      BY <1>1, <2>1, <2>2
    <3>2. taken[i] = delivered[d][i]
      BY <1>1, <1>2, <3>1 DEF n
    <3> QED
      BY <3>1, <3>2 DEF OrderInv, InOrder, n, b
  <2>3. CASE i > n
    <3> DEFINE j == i - n
    <3>1. j \in 1 .. g.len /\ i = n + j /\ j \in Nat
      BY <1>1, <1>2, <2>1, <2>3
    <3>2. taken[i] = Data(g)[j]
      <4>1. i \in (n + 1) .. (n + g.len)
        BY <1>1, <1>2, <2>1, <2>3
      <4> QED
        BY <1>1, <1>2, <4>1 DEF n
    <3>3. "SYN" \notin g.flags
      BY <1>2, <3>1 DEF OrderInv, Conversation
    <3>4. Data(g)[j] = <<g.from, Add(g.seq, 0 + j - 1)>>
      BY <3>1, <3>3 DEF Data
    <3> HIDE DEF j
    <3>5. 0 + j - 1 = j - 1 /\ j - 1 \in Int /\ (1 + n) + (j - 1) = i /\ 1 + n \in Int
      BY <1>1, <3>1
    <3>6. Add(g.seq, j - 1) = Add(b, i)
      BY <1>1, <1>5, <3>5, AddSums
    <3> QED
      BY <1>4, <3>2, <3>4, <3>5, <3>6
  <2> QED
    BY <1>1, <2>1, <2>2, <2>3
<1> DEFINE len == g.len
           seq == g.seq
           total == Len(taken)
           next == next_seq[d]
<1>8. /\ len \in Nat /\ seq \in Int /\ next \in Int /\ total = n + len
      /\ next = (1 + n) % SeqMod /\ seq = Add(b, 1 + n)
  <2>1. next \in Int
    BY SeqAssumption DEF TypeOK, SeqNo
  <2> QED
    BY <1>2, <1>3, <1>5, <1>6, <2>1
<1> HIDE DEF len, seq, total, next
<1>9. /\ 1 + n \in Int /\ len + fin \in Int /\ 1 + total + fin \in Int
      /\ (1 + n) + (len + fin) = 1 + total + fin
  BY <1>1, <1>8
<1>10. Add(Add(next, len), fin) = (1 + total + fin) % SeqMod
  <2>1. Add(Add(next, len), fin) = Add(next, len + fin)
    BY <1>1, <1>8, AddSums
  <2>2. Add((1 + n) % SeqMod, len + fin) = ((1 + n) + (len + fin)) % SeqMod
    BY <1>9, ModPlus DEF Add
  <2> QED
    BY <1>8, <1>9, <2>1, <2>2
<1>11. Add(b, (1 + total + fin) % SeqMod) = Add(seq, len + fin)
  <2>1. Add(b, (1 + total + fin) % SeqMod) = Add(b, 1 + total + fin)
    BY <1>1, <1>9, AddReduced
  <2>2. Add(seq, len + fin) = Add(b, (1 + n) + (len + fin))
    BY <1>1, <1>8, <1>9, AddSums
  <2> QED
    BY <1>9, <2>1, <2>2
<1> QED
  BY <1>6, <1>7, <1>10, <1>11 DEF n, b, len, seq, total, next

(* Behind its FIN a stream takes only segments without data.               *)
LEMMA NothingAfterFin ==
  ASSUME TypeOK, OrderInv, NEW d \in Side, NEW g \in Segments,
         based[d], Accepts(d, g), FinCounted(d)
  PROVE  g.len = 0 /\ g.from = d
<1> DEFINE n == Len(delivered[d])
           b == base[d]
<1>1. n \in Nat /\ b \in Int
  BY SeqAssumption DEF TypeOK, SeqNo
<1>2. next_seq[d] = (1 + n + 1) % SeqMod
  BY DEF OrderInv, Position
<1>3. g.seq = Add(b, next_seq[d]) /\ g.from = d
  BY AcceptedIsOwn
<1>4. PICK f \in Segments : /\ f.from = d /\ "FIN" \in f.flags
                           /\ Add(b, 1 + n) = Add(f.seq, f.len)
  BY DEF OrderInv, FinReached
<1>5. f.seq \in Int /\ f.len \in Int
  BY SegmentParts
<1> HIDE DEF n, b
<1>6. 1 + n \in Int /\ 1 + n + 1 \in Int /\ 1 \in Int /\ (1 + n) + 1 = 1 + n + 1
  BY <1>1
<1>7. g.seq = Add(b, 1 + n + 1)
  BY <1>1, <1>2, <1>3, <1>6, AddReduced
<1>8. Add(Add(b, 1 + n), 1) = Add(b, 1 + n + 1)
  BY <1>1, <1>6, AddSums
<1>9. Add(Add(f.seq, f.len), 1) = Add(f.seq, f.len + 1)
  BY <1>5, <1>6, AddSums
<1>10. g.seq = Add(f.seq, f.len + 1)
  BY <1>4, <1>7, <1>8, <1>9
<1> QED
  BY <1>3, <1>4, <1>10 DEF OrderInv, Conversation

(* What the status of a session says of its FINs: that of the sender is    *)
(* counted when it moves the session, that of the other stays as it was.   *)
LEMMA FinsCounted ==
  ASSUME TypeOK, SessionInv, BasedByStatus, NEW d \in Side, NEW g,
         trans_state(d, g)
  PROVE  /\ FinCounted(d)' <=> FinCounted(d) \/ CountsFin(d, g)
         /\ CountsFin(d, g) => ~FinCounted(d) /\ based[d] /\ "FIN" \in g.flags
         /\ \A e \in Side \ {d} : FinCounted(e)' <=> FinCounted(e)
         /\ SetsBase(d, g) => ~FinCounted(d)'
<1>1. closing # NoSide <=> status \in {"CLOSING", "CLOSED"}
  BY DEF SessionInv, EventsOncePerSession
<1>2. closing \in Side \cup {NoSide} /\ status \in Statuses
  BY DEF TypeOK
<1>3. CASE ~Leaves(d, g)
  <2>1. status' = status /\ closing' = closing
    BY <1>3 DEF trans_state
  <2> QED
    BY <1>3, <2>1 DEF FinCounted, CountsFin, SetsBase
<1>4. CASE Leaves(d, g)
  <2>1. /\ status' = Successor[status]
        /\ closing' = IF status = "ESTABLISHED" THEN d ELSE closing
    BY <1>4 DEF trans_state
  <2>2. CASE status \in {"NONE", "SYN_SENT", "SYNACK_SENT"}
    <3>1. closing' = NoSide /\ closing = NoSide /\ status' # "CLOSED"
      BY <1>1, <2>1, <2>2 DEF Successor, Statuses
    <3> QED
      BY <2>2, <3>1 DEF FinCounted, CountsFin, Side, NoSide
  <2>3. CASE status = "ESTABLISHED"
    <3>1. closing' = d /\ closing = NoSide /\ status' = "CLOSING" /\ based[d]
          /\ "FIN" \in g.flags
      BY <1>1, <1>4, <2>1, <2>3 DEF Successor, Statuses, BasedByStatus, Leaves
    <3> QED
      BY <1>4, <2>3, <3>1 DEF FinCounted, CountsFin, SetsBase, Side, NoSide
  <2>4. CASE status = "CLOSING"
    <3>1. closing' = closing /\ closing # NoSide /\ closing # d /\ based[d]
          /\ status' = "CLOSED" /\ "FIN" \in g.flags
      BY <1>1, <1>4, <2>1, <2>4 DEF Successor, Statuses, BasedByStatus, Leaves
    <3>2. \A e \in Side \ {d} : closing = e
      BY <1>2, <3>1 DEF Side
    <3> QED
      BY <1>4, <2>4, <3>1, <3>2 DEF FinCounted, CountsFin, SetsBase
  <2>5. status # "CLOSED"
    BY <1>4 DEF Leaves
  <2> QED
    BY <1>2, <2>2, <2>3, <2>4, <2>5 DEF Statuses
<1> QED
  BY <1>3, <1>4

(* One accepted segment: the statuses and the bases.                       *)
LEMMA DeliverKeepsOpened ==
  ASSUME TypeOK, OrderInv, Deliver
  PROVE  BasedByStatus' /\ Opened'
<1> DEFINE g == Head(todo)
           d == sender
           k == next_seq'[d]
<1>1. /\ g \in Segments /\ d \in Side /\ todo # <<>> /\ trans_state(d, g)
      /\ client' = client /\ sender' = sender
  BY Invocation DEF Deliver
<1>2. status \in Statuses /\ k \in SeqNo /\ BasedByStatus /\ Opened
  <2> HIDE DEF g
  <2> QED
    BY <1>1, TransStateType DEF TypeOK, OrderInv
<1>3. /\ status' = IF Leaves(d, g) THEN Successor[status] ELSE status
      /\ based' = IF SetsBase(d, g) THEN [based EXCEPT ![d] = TRUE] ELSE based
  BY <1>1 DEF trans_state
<1>4. /\ status' # "NONE" <=> status # "NONE" \/ Leaves(d, g)
      /\ status' = "SYN_SENT" <=>
           \/ status = "NONE" /\ Leaves(d, g)
           \/ status = "SYN_SENT" /\ ~Leaves(d, g)
  <2> HIDE DEF g, d
  <2> QED
    BY <1>2, <1>3 DEF Successor, Statuses, Leaves
<1>5. SetsBase(d, g) => /\ status = "NONE" => d = client
                        /\ status # "NONE" => status = "SYN_SENT" /\ d # client
  BY <1>1, BaseIsOwn
<1>6. BasedByStatus'
  <2> SUFFICES ASSUME NEW e \in Side
               PROVE  based'[e] <=> status' # "NONE"
                                    /\ (e = client' \/ status' # "SYN_SENT")
    BY DEF BasedByStatus
  <2>1. based[e] <=> status # "NONE" /\ (e = client \/ status # "SYN_SENT")
    BY <1>2 DEF BasedByStatus
  <2>2. based'[e] <=> based[e] \/ (SetsBase(d, g) /\ e = d)
    BY <1>3 DEF TypeOK
  <2>3. SetsBase(d, g) <=> Leaves(d, g) /\ status \in {"NONE", "SYN_SENT"}
    BY DEF SetsBase
  <2>4. status = "SYN_SENT" => client \in Side
    BY <1>2 DEF Opened
  <2>5. d # client /\ client \in Side => (e = d \/ e = client)
    BY <1>1 DEF Side
  <2> HIDE DEF g, d
  <2> QED
    BY <1>1, <1>4, <1>5, <2>1, <2>2, <2>3, <2>4, <2>5
<1>7. ASSUME status' = "NONE"
      PROVE  /\ \A j \in SeqNo : seg_map'[j] = <<>>
             /\ \A i \in DOMAIN todo' : i = 1 /\ todo'[i].from = sender'
  <2>1. /\ \A j \in SeqNo : seg_map[j] = <<>>
        /\ \A i \in DOMAIN todo : i = 1
    BY <1>2, <1>4, <1>7 DEF Opened
  <2>2. seg_map' = erase(k) /\ todo' = seg_map[k] \o Tail(todo)
    BY DEF Deliver, lookup_key
  <2>3. \A j \in SeqNo : seg_map'[j] = <<>>
    BY <1>2, <2>1, <2>2 DEF erase, TypeOK
  <2>4. Tail(todo) = <<>>
    <3>1. todo \in Seq(Segments) /\ DOMAIN todo = 1 .. Len(todo) /\ Len(todo) \in Nat
      BY DEF TypeOK
    <3>2. Len(todo) >= 1
      BY <1>1, <3>1
    <3>3. ~(2 \in 1 .. Len(todo))
      BY <2>1, <3>1
    <3>4. Len(todo) = 1
      BY <3>1, <3>2, <3>3
    <3>5. Tail(todo) \in Seq(Segments) /\ Len(Tail(todo)) = 0
      BY <1>1, <3>1, <3>4
    <3> QED
      BY <3>5, EmptySeq
  <2>5. todo' = <<>>
    BY <1>2, <2>1, <2>2, <2>4
  <2>6. DOMAIN todo' = {}
    BY <2>5
  <2> QED
    BY <2>3, <2>6
<1>8. ASSUME status' # "NONE"
      PROVE  /\ client' \in Side
             /\ \E h \in Segments : h.from = client' /\ h.flags = {"SYN"}
  <2>1. CASE status # "NONE"
    BY <1>1, <1>2, <2>1 DEF Opened
  <2>2. CASE status = "NONE"
    <3>1. SetsBase(d, g)
      BY <1>4, <1>8, <2>2 DEF SetsBase
    <3>2. d = client /\ g.flags = {"SYN"} /\ g.from = d
      BY <1>1, <2>2, <3>1, BaseIsOwn
    <3> QED
      BY <1>1, <3>2
  <2> QED
    BY <2>1, <2>2
<1>9. Opened'
  BY <1>7, <1>8 DEF Opened
<1> QED
  BY <1>6, <1>9

(* The stream that takes the segment.                                      *)
LEMMA SenderStaysInOrder ==
  ASSUME TypeOK, SessionInv, OrderInv, Deliver, NEW d \in Side, d = sender
  PROVE  /\ based'[d] => Position(d)' /\ BehindOwn(d)' /\ InOrder(d)'
         /\ FinCounted(d)' => FinReached(d)'
<1> DEFINE g == Head(todo)
           n == Len(delivered[d])
<1>1. /\ g \in Segments /\ todo # <<>> /\ trans_state(d, g) /\ Accepts(d, g)
  BY Invocation DEF Deliver
<1>2. BasedByStatus
  BY DEF OrderInv
<1>3. /\ FinCounted(d)' <=> FinCounted(d) \/ CountsFin(d, g)
      /\ CountsFin(d, g) => ~FinCounted(d) /\ based[d] /\ "FIN" \in g.flags
      /\ SetsBase(d, g) => ~FinCounted(d)'
  <2> HIDE DEF g
  <2> QED
    BY <1>1, <1>2, FinsCounted
<1>4. /\ next_seq'[d] = IF SetsBase(d, g) THEN Add(1, g.len)
                         ELSE IF CountsFin(d, g) THEN Add(Sent(d, g), 1)
                         ELSE Sent(d, g)
      /\ base'[d] = IF SetsBase(d, g) THEN g.seq ELSE base[d]
      /\ based'[d] <=> SetsBase(d, g) \/ based[d]
      /\ delivered'[d] = IF SetsBase(d, g) THEN Data(g)
                          ELSE IF based[d] THEN delivered[d] \o Data(g)
                          ELSE delivered[d]
  BY <1>1 DEF trans_state, TypeOK, Deliver
<1>5. /\ g.seq \in SeqNo /\ g.seq \in Int /\ g.len \in Nat
      /\ Data(g) \in Seq(Bytes) /\ Len(Data(g)) = g.len
  BY <1>1, SegmentParts, DataType
<1>6. /\ delivered[d] \in Seq(Bytes) /\ n \in Nat
      /\ base[d] \in Int /\ next_seq[d] \in SeqNo /\ next_seq[d] \in Int
  BY <1>1, SeqAssumption DEF TypeOK, SeqNo
<1>7. CASE SetsBase(d, g)
  <2>1. g.from = d /\ g.len = 0
    BY <1>1, <1>7, BaseIsOwn
  <2>2. Len(delivered'[d]) = 0 /\ ~FinCounted(d)'
    BY <1>3, <1>4, <1>5, <1>7, <2>1
  <2>3. next_seq'[d] = 1 % SeqMod /\ base'[d] = g.seq
    <3>1. Add(1, 0) = 1 % SeqMod
      BY DEF Add
    <3> QED
      BY <1>4, <1>7, <2>1, <3>1
  <2>4. Position(d)'
    <3>1. 1 + 0 + 0 = 1
      OBVIOUS
    <3> QED
      BY <2>2, <2>3, <3>1 DEF Position
  <2>5. BehindOwn(d)'
    <3>1. Add(g.seq, 1 % SeqMod) = Add(g.seq, 1)
      BY <1>5, AddReduced
    <3>2. g.len + 1 = 1
      BY <2>1
    <3>3. Add(g.seq, next_seq'[d]) \in After(g)
      BY <2>3, <3>1, <3>2 DEF After
    <3> QED
      BY <1>1, <2>1, <2>3, <3>3 DEF BehindOwn
  <2>6. InOrder(d)'
    BY <1>1, <2>2 DEF InOrder
  <2> QED
    BY <1>1, <2>2, <2>4, <2>5, <2>6
<1>8. CASE ~SetsBase(d, g) /\ based[d] /\ ~FinCounted(d)
  <2> DEFINE fin == IF CountsFin(d, g) THEN 1 ELSE 0
             taken == delivered[d] \o Data(g)
  <2>1. fin \in Nat /\ delivered'[d] = taken /\ base'[d] = base[d]
        /\ (FinCounted(d)' <=> fin = 1)
    <3>1. delivered'[d] = taken /\ base'[d] = base[d]
      BY <1>4, <1>8
    <3>2. fin = 0 \/ fin = 1
      OBVIOUS
    <3>3. FinCounted(d)' <=> CountsFin(d, g)
      BY <1>3, <1>8
    <3>4. CountsFin(d, g) <=> fin = 1
      OBVIOUS
    <3> QED
      BY <3>1, <3>2, <3>3, <3>4
  <2>2. g.from = d
    BY <1>1, <1>8, AcceptedIsOwn
  <2>3. next_seq'[d] = Add(Add(next_seq[d], g.len), fin)
    <3>1. Sent(d, g) = Add(next_seq[d], g.len)
      BY <1>8 DEF Sent
    <3>2. Add(next_seq[d], g.len) \in SeqNo
      BY <1>5, <1>6, AddType
    <3>3. \A x \in SeqNo : Add(x, 0) = x
      <4> TAKE x \in SeqNo
      <4>1. x + 0 = x
        BY SeqAssumption DEF SeqNo
      <4> QED
        BY <4>1, ModSmall DEF Add
    <3> QED
      BY <1>4, <1>8, <3>1, <3>2, <3>3
  <2> HIDE DEF fin, taken
  <2>4. /\ taken \in Seq(Bytes) /\ Len(taken) = n + g.len
        /\ \A i \in 1 .. Len(taken) : taken[i] = <<d, Add(base[d], i)>>
        /\ Add(Add(next_seq[d], g.len), fin) = (1 + Len(taken) + fin) % SeqMod
        /\ Add(base[d], (1 + Len(taken) + fin) % SeqMod) = Add(g.seq, g.len + fin)
    <3> HIDE DEF g
    <3> QED
      BY <1>1, <1>8, <2>1, TakesInOrder DEF taken, n
  <2>5. (IF FinCounted(d)' THEN 1 ELSE 0) = fin
    BY <2>1 DEF fin
  <2>6. Position(d)'
    BY <1>1, <2>1, <2>3, <2>4, <2>5 DEF Position
  <2>7. BehindOwn(d)'
    <3>1. Add(g.seq, g.len + fin) \in After(g)
      <4>1. g.len + 0 = g.len
        BY <1>5
      <4> QED
        BY <4>1 DEF After, fin
    <3> QED
      BY <1>1, <2>1, <2>2, <2>3, <2>4, <3>1 DEF BehindOwn
  <2>8. InOrder(d)'
    BY <1>1, <2>1, <2>4 DEF InOrder
  <2>9. FinCounted(d)' => FinReached(d)'
    <3> SUFFICES ASSUME FinCounted(d)'
                 PROVE  FinReached(d)'
      OBVIOUS
    <3>1. CountsFin(d, g) /\ "FIN" \in g.flags
      BY <1>3, <1>8
    <3>2. Add(base[d], 1 + Len(taken)) = Add(g.seq, g.len)
      <4>1. 0 \in Nat /\ taken = delivered[d] \o Data(g)
        BY DEF taken
      <4>2. Add(base[d], (1 + Len(taken) + 0) % SeqMod) = Add(g.seq, g.len + 0)
        <5> HIDE DEF g
        <5> QED
          BY <1>1, <1>8, <4>1, TakesInOrder
      <4>3. 1 + Len(taken) + 0 = 1 + Len(taken) /\ g.len + 0 = g.len
            /\ 1 + Len(taken) \in Int
        BY <1>5, <1>6, <2>4
      <4>4. Add(base[d], (1 + Len(taken)) % SeqMod) = Add(base[d], 1 + Len(taken))
        BY <1>6, <4>3, AddReduced
      <4> QED
        BY <4>2, <4>3, <4>4
    <3> QED
      BY <1>1, <2>1, <2>2, <3>1, <3>2 DEF FinReached
  <2> QED
    BY <2>6, <2>7, <2>8, <2>9
<1>9. CASE ~SetsBase(d, g) /\ based[d] /\ FinCounted(d)
  <2>1. g.len = 0 /\ ~CountsFin(d, g) /\ FinCounted(d)'
    BY <1>1, <1>3, <1>9, NothingAfterFin
  <2>2. next_seq'[d] = next_seq[d] /\ base'[d] = base[d]
    <3>1. next_seq[d] + 0 = next_seq[d]
      BY <1>6
    <3> QED
      BY <1>4, <1>6, <1>9, <2>1, <3>1, ModSmall DEF Sent, Add
  <2>3. delivered'[d] = delivered[d]
    <3>1. Data(g) = <<>>
      BY <1>5, <2>1, EmptySeq
    <3>2. delivered'[d] = delivered[d] \o <<>>
      BY <1>4, <1>9, <3>1
    <3> QED
      BY <1>6, <3>2
  <2>4. Position(d) /\ BehindOwn(d) /\ InOrder(d) /\ FinReached(d)
    BY <1>1, <1>9 DEF OrderInv
  <2>5. Position(d)'
    BY <1>1, <1>9, <2>1, <2>2, <2>3, <2>4 DEF Position
  <2>6. BehindOwn(d)' /\ InOrder(d)' /\ FinReached(d)'
    BY <1>1, <2>2, <2>3, <2>4 DEF BehindOwn, InOrder, FinReached
  <2> QED
    BY <2>5, <2>6
<1>10. CASE ~SetsBase(d, g) /\ ~based[d]
  <2>1. ~based'[d] /\ ~CountsFin(d, g)
    BY <1>3, <1>4, <1>10
  <2>2. ~FinCounted(d)
    <3>1. status \in {"CLOSING", "CLOSED"} => based[d]
      BY <1>1, <1>2 DEF BasedByStatus
    <3>2. closing # NoSide <=> status \in {"CLOSING", "CLOSED"}
      BY DEF SessionInv, EventsOncePerSession
    <3> QED
      BY <1>1, <1>10, <3>1, <3>2 DEF FinCounted, Side, NoSide
  <2> QED
    BY <1>1, <1>3, <2>1, <2>2
<1> QED
  BY <1>7, <1>8, <1>9, <1>10

(* A stream whose fields and whose FIN a step leaves alone stays in order. *)
LEMMA StreamStaysInOrder ==
  ASSUME OrderInv, NEW e \in Side,
         next_seq'[e] = next_seq[e], base'[e] = base[e],
         based'[e] = based[e], delivered'[e] = delivered[e],
         FinCounted(e)' <=> FinCounted(e)
  PROVE  /\ based'[e] => Position(e)' /\ BehindOwn(e)' /\ InOrder(e)'
         /\ FinCounted(e)' => FinReached(e)'
<1>1. /\ based[e] => Position(e) /\ BehindOwn(e) /\ InOrder(e)
      /\ FinCounted(e) => FinReached(e)
  BY DEF OrderInv
<1>2. Position(e) => Position(e)'
  <2> DEFINE c == IF FinCounted(e) THEN 1 ELSE 0
  <2>1. c' = c
    OBVIOUS
  <2>2. Position(e) <=> next_seq[e] = (1 + Len(delivered[e]) + c) % SeqMod
    BY DEF Position
  <2>3. Position(e)' <=> next_seq'[e] = (1 + Len(delivered'[e]) + c') % SeqMod
    BY DEF Position
  <2> HIDE DEF c
  <2> QED
    BY <2>1, <2>2, <2>3
<1>3. BehindOwn(e) => BehindOwn(e)'
  BY DEF BehindOwn
<1>4. InOrder(e) => InOrder(e)'
  BY DEF InOrder
<1>5. FinReached(e) => FinReached(e)'
  BY DEF FinReached
<1> QED
  BY <1>1, <1>2, <1>3, <1>4, <1>5

(* Likewise for a step that leaves both streams alone.                     *)
LEMMA StreamsStayInOrder ==
  ASSUME OrderInv, UNCHANGED <<status, closing, based, base, next_seq, delivered>>
  PROVE  \A d \in Side : /\ based'[d] => Position(d)' /\ BehindOwn(d)' /\ InOrder(d)'
                         /\ FinCounted(d)' => FinReached(d)'
<1>1. \A d \in Side : FinCounted(d)' <=> FinCounted(d)
  BY DEF FinCounted
<1> QED
  BY <1>1, StreamStaysInOrder

(* The other stream, which the segment does not touch.                     *)
LEMMA OtherStaysInOrder ==
  ASSUME TypeOK, SessionInv, OrderInv, Deliver, NEW e \in Side, e # sender
  PROVE  /\ based'[e] => Position(e)' /\ BehindOwn(e)' /\ InOrder(e)'
         /\ FinCounted(e)' => FinReached(e)'
<1> DEFINE g == Head(todo)
<1>1. PICK d \in Side : d = sender
  BY Invocation DEF Deliver
<1>2. trans_state(d, g) /\ BasedByStatus
  BY <1>1 DEF Deliver, OrderInv
<1>3. FinCounted(e)' <=> FinCounted(e)
  <2> HIDE DEF g
  <2> QED
    BY <1>1, <1>2, FinsCounted
<1>4. /\ next_seq'[e] = next_seq[e] /\ base'[e] = base[e]
      /\ based'[e] = based[e] /\ delivered'[e] = delivered[e]
  BY <1>1, <1>2 DEF trans_state, TypeOK, Deliver
<1> QED
  BY <1>3, <1>4, StreamStaysInOrder

(* An accepted segment keeps both streams in order.                        *)
LEMMA DeliverKeepsOrder ==
  ASSUME TypeOK, SessionInv, OrderInv, Deliver
  PROVE  OrderInv'
<1>1. BasedByStatus' /\ Opened'
  BY DeliverKeepsOpened
<1>2. \A d \in Side : /\ based'[d] => Position(d)' /\ BehindOwn(d)' /\ InOrder(d)'
                      /\ FinCounted(d)' => FinReached(d)'
  BY SenderStaysInOrder, OtherStaysInOrder
<1>3. "closed" \in events' => status' = "CLOSED"
  <2> DEFINE g == Head(todo)
  <2>1. trans_state(sender, g)
    BY DEF Deliver
  <2>2. status = "CLOSED" => status' = "CLOSED"
    BY <2>1 DEF trans_state, Leaves
  <2>3. "closed" \in events => status = "CLOSED"
    BY DEF OrderInv
  <2>4. "closed" \in events' => "closed" \in events \/ status' = "CLOSED"
    <3> DEFINE new == IF status' = status THEN <<>>
                      ELSE IF status' = "ESTABLISHED" THEN <<"established">>
                      ELSE IF status' = "CLOSED" THEN <<"closed">> ELSE <<>>
    <3>1. events' = events \cup {new[i] : i \in DOMAIN new}
      BY <2>1 DEF trans_state
    <3>2. status' # "CLOSED" => new = <<>> \/ new = <<"established">>
      OBVIOUS
    <3> HIDE DEF new
    <3>3. status' # "CLOSED" => \A i \in DOMAIN new : new[i] # "closed"
      BY <3>2
    <3> QED
      BY <3>1, <3>3
  <2> QED
    BY <2>2, <2>3, <2>4
<1> QED
  BY <1>1, <1>2, <1>3 DEF OrderInv, Conversation, After

(* No session: no stream.                                                  *)
LEMMA InitOrderInv ==
  ASSUME Init, Conversation
  PROVE  OrderInv
<1>1. DOMAIN todo = {}
  BY DEF Init
<1>2. \A d \in Side : ~FinCounted(d)
  BY DEF Init, FinCounted, Side, NoSide
<1> QED
  BY <1>1, <1>2 DEF Init, OrderInv, BasedByStatus, Opened

(* A new session has no base yet, and keeps nothing.                       *)
LEMMA NewSessionKeepsOrder ==
  ASSUME OrderInv, NEW g \in Segments, NewSession(g)
  PROVE  OrderInv'
<1>1. \A d \in Side : ~based'[d] /\ ~FinCounted(d)'
  BY DEF NewSession, FinCounted, Side, NoSide
<1>2. status' = "NONE" /\ "closed" \notin events'
  BY DEF NewSession, decode
<1>3. \A k \in SeqNo : seg_map'[k] = <<>>
  BY DEF NewSession
<1>4. todo' = <<g>> /\ sender' = g.from
  BY DEF NewSession, decode
<1>5. \A i \in DOMAIN todo' : i = 1 /\ todo'[i].from = sender'
  BY <1>4
<1> QED
  BY <1>1, <1>2, <1>3, <1>5 DEF OrderInv, Conversation, After, BasedByStatus, Opened

(* A packet of the known session is not in a stream before decode_stream().*)
LEMMA KnownSessionKeepsOrder ==
  ASSUME OrderInv, NEW g \in Segments, KnownSession(g)
  PROVE  OrderInv'
<1>1. /\ UNCHANGED <<client, status, closing, based, base, next_seq, seg_map,
                     delivered>>
      /\ todo' = <<g>> /\ sender' = g.from /\ events' = {}
  BY DEF KnownSession, decode, ssnvars
<1>2. \A i \in DOMAIN todo' : i = 1 /\ todo'[i].from = sender'
  BY <1>1
<1>3. BasedByStatus' /\ Opened'
  BY <1>1, <1>2 DEF OrderInv, BasedByStatus, Opened
<1>4. \A d \in Side : /\ based'[d] => Position(d)' /\ BehindOwn(d)' /\ InOrder(d)'
                      /\ FinCounted(d)' => FinReached(d)'
  BY <1>1, StreamsStayInOrder
<1> QED
  BY <1>1, <1>3, <1>4 DEF OrderInv, Conversation, After

(* A stored segment waits outside the streams, of a session that has begun.*)
LEMMA StoreKeepsOrder ==
  ASSUME TypeOK, OrderInv, Store
  PROVE  OrderInv'
<1>1. UNCHANGED <<client, status, closing, based, base, next_seq, delivered,
                  events>>
  BY DEF Store, propvars, histvars
<1>2. sender \in Side /\ based[sender]
  BY Invocation DEF Store, Accepts
<1>3. status # "NONE"
  BY <1>2 DEF OrderInv, BasedByStatus
<1>4. BasedByStatus' /\ Opened'
  BY <1>1, <1>3 DEF OrderInv, BasedByStatus, Opened
<1>5. \A d \in Side : /\ based'[d] => Position(d)' /\ BehindOwn(d)' /\ InOrder(d)'
                      /\ FinCounted(d)' => FinReached(d)'
  BY <1>1, StreamsStayInOrder
<1> QED
  BY <1>1, <1>4, <1>5 DEF OrderInv, Conversation, After

(* The inductive invariant of the streams, for every conversation of the   *)
(* two endpoints and every capture of it.                                  *)
THEOREM OrderInvariant == Conversation /\ Spec => []OrderInv
<1>1. Conversation /\ Init => OrderInv
  BY InitOrderInv
<1>2. StoreInv /\ SessionInv /\ OrderInv /\ [Next]_vars => OrderInv'
  <2> SUFFICES ASSUME StoreInv, SessionInv, OrderInv, [Next]_vars
               PROVE  OrderInv'
    OBVIOUS
  <2>1. TypeOK
    BY DEF StoreInv
  <2>2. CASE UNCHANGED vars
    <3>1. UNCHANGED <<client, status, closing, based, base, next_seq, seg_map,
                      delivered, events, todo, sender>>
      BY <2>2 DEF vars, ssnvars, propvars, histvars
    <3>2. \A d \in Side :
            /\ based'[d] => Position(d)' /\ BehindOwn(d)' /\ InOrder(d)'
            /\ FinCounted(d)' => FinReached(d)'
      BY <3>1, StreamsStayInOrder
    <3>3. BasedByStatus' /\ Opened'
      BY <3>1 DEF OrderInv, BasedByStatus, Opened
    <3> QED
      BY <3>1, <3>2, <3>3 DEF OrderInv, Conversation, After
  <2>3. CASE Next /\ ~UNCHANGED vars
    BY <2>1, <2>3, NewSessionKeepsOrder, KnownSessionKeepsOrder,
       StoreKeepsOrder, DeliverKeepsOrder DEF Next, Finished
  <2> QED
    BY <2>2, <2>3
<1> QED
  BY <1>1, <1>2, StoreInvariant, SessionInvariant, PTL DEF Spec

(* Whatever of the conversation is lost, repeated or reordered, what each  *)
(* stream has taken is its endpoint's bytes in order, with no gap.         *)
THEOREM StreamsInOrder == Conversation /\ Spec => []InOrderDelivery
<1>1. ASSUME StoreInv, OrderInv
      PROVE  InOrderDelivery
  <2> SUFFICES ASSUME NEW d \in Side, based[d]
               PROVE  delivered[d] =
                        [i \in 1 .. Len(delivered[d]) |-> <<d, Add(base[d], i)>>]
    BY DEF InOrderDelivery
  <2>1. delivered[d] \in Seq(Bytes)
    BY <1>1 DEF StoreInv, TypeOK
  <2>2. delivered[d] = [i \in 1 .. Len(delivered[d]) |-> delivered[d][i]]
    BY <2>1
  <2>3. \A i \in 1 .. Len(delivered[d]) : delivered[d][i] = <<d, Add(base[d], i)>>
    BY <1>1 DEF OrderInv, InOrder
  <2> QED
    BY <2>2, <2>3
<1> QED
  BY <1>1, StoreInvariant, OrderInvariant, PTL

(* TCP.closed is raised only when both streams have been taken up to their *)
(* FIN.                                                                    *)
THEOREM ClosedWithAllData == Conversation /\ Spec => []ClosedAfterAllData
<1>1. OrderInv => ClosedAfterAllData
  BY DEF OrderInv, ClosedAfterAllData, FinCounted, FinReached
<1> QED
  BY <1>1, OrderInvariant, PTL

-----------------------------------------------------------------------------
(* No hole is left.                                                        *)

(* A stream gets its base once.                                            *)
LEMMA BaseOnce ==
  ASSUME BasedByStatus, NEW d \in Side, NEW g, SetsBase(d, g)
  PROVE  /\ ~based[d]
         /\ status = "NONE" => d = client
         /\ status # "NONE" => status = "SYN_SENT" /\ d # client
BY DEF BasedByStatus, SetsBase, Leaves

(* Which streams have a base goes with the status, whatever is captured.   *)
LEMMA DeliverKeepsBased ==
  ASSUME TypeOK, BasedByStatus, ClientKnown, Deliver
  PROVE  BasedByStatus' /\ ClientKnown'
<1> DEFINE g == Head(todo)
           d == sender
<1>1. /\ g \in Segments /\ d \in Side /\ trans_state(d, g) /\ client' = client
  BY Invocation DEF Deliver
<1>2. status \in Statuses
  BY DEF TypeOK
<1>3. /\ status' = IF Leaves(d, g) THEN Successor[status] ELSE status
      /\ based' = IF SetsBase(d, g) THEN [based EXCEPT ![d] = TRUE] ELSE based
  BY <1>1 DEF trans_state
<1>4. /\ status' # "NONE" <=> status # "NONE" \/ Leaves(d, g)
      /\ status' = "SYN_SENT" <=>
           \/ status = "NONE" /\ Leaves(d, g)
           \/ status = "SYN_SENT" /\ ~Leaves(d, g)
  <2> HIDE DEF g, d
  <2> QED
    BY <1>2, <1>3 DEF Successor, Statuses, Leaves
<1>5. SetsBase(d, g) => /\ status = "NONE" => d = client
                        /\ status # "NONE" => status = "SYN_SENT" /\ d # client
  BY <1>1, BaseOnce
<1>6. SetsBase(d, g) <=> Leaves(d, g) /\ status \in {"NONE", "SYN_SENT"}
  BY DEF SetsBase
<1>7. ClientKnown'
  BY <1>1, <1>4, <1>5, <1>6 DEF ClientKnown
<1>8. BasedByStatus'
  <2> SUFFICES ASSUME NEW e \in Side
               PROVE  based'[e] <=> status' # "NONE"
                                    /\ (e = client' \/ status' # "SYN_SENT")
    BY DEF BasedByStatus
  <2>1. based[e] <=> status # "NONE" /\ (e = client \/ status # "SYN_SENT")
    BY DEF BasedByStatus
  <2>2. based'[e] <=> based[e] \/ (SetsBase(d, g) /\ e = d)
    BY <1>3 DEF TypeOK
  <2>3. status = "SYN_SENT" => client \in Side
    BY DEF ClientKnown
  <2>4. d # client /\ client \in Side => (e = d \/ e = client)
    BY <1>1 DEF Side
  <2> HIDE DEF g, d
  <2> QED
    BY <1>1, <1>4, <1>5, <1>6, <2>1, <2>2, <2>3, <2>4
<1> QED
  BY <1>7, <1>8

(* The number a stream has come to.                                        *)
LEMMA PosType ==
  ASSUME TypeOK, NEW d \in Side
  PROVE  /\ Pos(d) \in Nat /\ Pos(d) >= 1 /\ Pos(d) <= Len(delivered[d]) + 2
         /\ Len(delivered[d]) \in Nat
         /\ Position(d) <=> next_seq[d] = Pos(d) % SeqMod
<1> DEFINE c == IF FinCounted(d) THEN 1 ELSE 0
           n == Len(delivered[d])
<1>1. c \in 0 .. 1 /\ n \in Nat
  BY DEF TypeOK
<1>2. Pos(d) = 1 + n + c /\ (Position(d) <=> next_seq[d] = (1 + n + c) % SeqMod)
  BY DEF Pos, Position
<1> HIDE DEF c, n
<1> QED
  BY <1>1, <1>2 DEF n

(* A stream with a base keeps it and moves on behind what it takes, FIN    *)
(* included; one that gets its base begins behind the SYN.                 *)
LEMMA DeliverMovesOn ==
  ASSUME TypeOK, SessionInv, BasedByStatus, Deliver, NEW d \in Side, d = sender,
         based[d] => Position(d)
  PROVE  /\ based[d] => /\ based'[d] /\ base'[d] = base[d]
                        /\ Pos(d)' >= Pos(d) + Head(todo).len
         /\ based'[d] => Position(d)'
<1> DEFINE g == Head(todo)
           n == Len(delivered[d])
<1>1. g \in Segments /\ trans_state(d, g) /\ d \in DOMAIN delivered
  BY Invocation DEF Deliver, TypeOK
<1>2. /\ FinCounted(d)' <=> FinCounted(d) \/ CountsFin(d, g)
      /\ CountsFin(d, g) => ~FinCounted(d) /\ based[d]
      /\ SetsBase(d, g) => ~FinCounted(d)'
  <2> HIDE DEF g
  <2> QED
    BY <1>1, FinsCounted
<1>3. /\ based'[d] <=> based[d] \/ SetsBase(d, g)
      /\ ~SetsBase(d, g) => base'[d] = base[d]
      /\ next_seq'[d] = IF SetsBase(d, g) THEN Add(1, g.len)
                        ELSE IF CountsFin(d, g) THEN Add(Sent(d, g), 1)
                        ELSE Sent(d, g)
  BY <1>1 DEF trans_state, TypeOK
<1>4. delivered'[d] = IF SetsBase(d, g) THEN Data(g)
                      ELSE IF based[d] THEN delivered[d] \o Data(g) ELSE delivered[d]
  BY <1>1 DEF Deliver
<1>5. /\ g.len \in Nat /\ Data(g) \in Seq(Bytes) /\ Len(Data(g)) = g.len
      /\ delivered[d] \in Seq(Bytes) /\ n \in Nat
  <2> HIDE DEF g
  <2> QED
    BY <1>1, SegmentParts, DataType DEF TypeOK
<1>6. next_seq[d] \in SeqNo /\ next_seq[d] \in Int
  BY SeqAssumption DEF TypeOK, SeqNo
<1>7. SetsBase(d, g) => ~based[d]
  BY BaseOnce
<1> DEFINE len == g.len
           c == IF FinCounted(d) THEN 1 ELSE 0
           f == IF CountsFin(d, g) THEN 1 ELSE 0
           m == Len(delivered'[d])
           p == next_seq[d]
           q == next_seq'[d]
<1>8. CASE SetsBase(d, g)
  <2>1. m = len /\ q = (1 + len) % SeqMod /\ Pos(d)' = 1 + m + 0 /\ len \in Nat
    BY <1>2, <1>3, <1>4, <1>5, <1>8 DEF Add, Pos
  <2>2. Position(d)' <=> q = Pos(d)' % SeqMod
    BY DEF Position, Pos
  <2> HIDE DEF m, len, q
  <2>3. 1 + m + 0 = 1 + len
    BY <2>1
  <2> QED
    BY <1>7, <1>8, <2>1, <2>2, <2>3
<1>9. CASE ~SetsBase(d, g) /\ based[d]
  <2>1. /\ f \in 0 .. 1 /\ c \in 0 .. 1 /\ len \in Nat
        /\ Pos(d) = 1 + n + c /\ Pos(d)' = 1 + m + (c + f)
    <3>1. (IF FinCounted(d)' THEN 1 ELSE 0) = c + f
      BY <1>2
    <3>2. Pos(d) = 1 + n + c
      BY DEF Pos
    <3>3. Pos(d)' = 1 + m + (IF FinCounted(d)' THEN 1 ELSE 0)
      BY DEF Pos
    <3>4. f \in 0 .. 1 /\ c \in 0 .. 1
      OBVIOUS
    <3> QED
      BY <1>5, <3>1, <3>2, <3>3, <3>4
  <2>2. m = n + len
    <3>1. delivered'[d] = delivered[d] \o Data(g)
      BY <1>4, <1>9
    <3>2. \A s, t \in Seq(Bytes) : Len(s \o t) = Len(s) + Len(t)
      OBVIOUS
    <3> QED
      BY <1>5, <3>1, <3>2
  <2>3. q = Add(Add(p, len), f)
    <3>1. Sent(d, g) = Add(p, len)
      BY <1>9 DEF Sent
    <3>2. Add(p, len) \in SeqNo
      <4> HIDE DEF len, p
      <4> QED
        BY <1>5, <1>6, AddType DEF len, p
    <3>3. \A x \in SeqNo : Add(x, 0) = x
      <4> TAKE x \in SeqNo
      <4>1. x + 0 = x
        BY SeqAssumption DEF SeqNo
      <4> QED
        BY <4>1, ModSmall DEF Add
    <3> QED
      BY <1>3, <1>9, <3>1, <3>2, <3>3
  <2>4. p = Pos(d) % SeqMod
    BY <1>9, PosType
  <2>5. Position(d)' <=> q = Pos(d)' % SeqMod
    BY DEF Position, Pos
  <2>6. p \in Int
    BY <1>6
  <2> HIDE DEF f, c, len, n, m, p, q
  <2>7. /\ Pos(d) \in Int /\ len + f \in Int /\ len \in Int /\ f \in Int
        /\ Pos(d)' = Pos(d) + (len + f) /\ Pos(d)' >= Pos(d) + len
    <3>1. n \in Nat
      BY <1>5 DEF n
    <3> QED
      BY <2>1, <2>2, <3>1
  <2>8. q = Pos(d)' % SeqMod
    <3>1. Add(Add(p, len), f) = Add(p, len + f)
      BY <2>6, <2>7, AddSums
    <3>2. ((Pos(d) % SeqMod) + (len + f)) % SeqMod = (Pos(d) + (len + f)) % SeqMod
      BY <2>7, ModPlus
    <3> QED
      BY <2>3, <2>4, <2>7, <3>1, <3>2 DEF Add
  <2> QED
    BY <1>3, <1>9, <2>5, <2>7, <2>8 DEF len
<1>10. CASE ~SetsBase(d, g) /\ ~based[d]
  BY <1>3, <1>10
<1> QED
  BY <1>8, <1>9, <1>10

(* The other stream stays where it is.                                     *)
LEMMA OtherStays ==
  ASSUME TypeOK, SessionInv, BasedByStatus, Deliver, NEW e \in Side, e # sender
  PROVE  /\ based'[e] = based[e] /\ base'[e] = base[e] /\ next_seq'[e] = next_seq[e]
         /\ Pos(e)' = Pos(e) /\ (Position(e)' <=> Position(e))
<1> DEFINE g == Head(todo)
<1>1. PICK d \in Side : d = sender
  BY Invocation DEF Deliver
<1>2. trans_state(d, g)
  BY <1>1 DEF Deliver
<1>3. FinCounted(e)' <=> FinCounted(e)
  <2> HIDE DEF g
  <2> QED
    BY <1>1, <1>2, FinsCounted
<1>4. /\ next_seq'[e] = next_seq[e] /\ base'[e] = base[e]
      /\ based'[e] = based[e] /\ delivered'[e] = delivered[e]
  BY <1>1, <1>2 DEF trans_state, TypeOK, Deliver
<1> DEFINE c == IF FinCounted(e) THEN 1 ELSE 0
<1>5. c' = c
  BY <1>3
<1>6. Pos(e) = 1 + Len(delivered[e]) + c /\ Pos(e)' = 1 + Len(delivered'[e]) + c'
  BY DEF Pos
<1>7. /\ Position(e) <=> next_seq[e] = (1 + Len(delivered[e]) + c) % SeqMod
      /\ Position(e)' <=> next_seq'[e] = (1 + Len(delivered'[e]) + c') % SeqMod
  BY DEF Position
<1> HIDE DEF c
<1> QED
  BY <1>4, <1>5, <1>6, <1>7

(* The segments that are kept.                                             *)
LEMMA KeptSegments ==
  ASSUME TypeOK, NEW k \in SeqNo, NEW i \in DOMAIN seg_map[k]
  PROVE  seg_map[k][i] \in Segments
BY ChainPlaces

(* A new packet of the session: its own endpoint sent it, and it is        *)
(* accounted for by the invocation that decodes it.                        *)
LEMMA KnownSessionLeavesNoHole ==
  ASSUME StoreInv, HoleInv, NEW g \in Segments, KnownSession(g)
  PROVE  HoleInv'
<1>1. /\ UNCHANGED <<client, status, closing, based, base, next_seq, seg_map,
                     delivered, crossed>>
      /\ todo = <<>> /\ todo' = <<g>> /\ sender' = g.from
      /\ got' = IF based[g.from] THEN got \cup {g} ELSE got
  BY DEF KnownSession, decode, ssnvars
<1>2. BasedByStatus' /\ ClientKnown'
  BY <1>1 DEF HoleInv, BasedByStatus, ClientKnown
<1>3. \A d \in Side : Position(d)' <=> Position(d)
  BY <1>1 DEF Position, FinCounted
<1>4. ASSUME ~crossed'
      PROVE  TodoIsOwn' /\ FiledUnderOwn' /\ NoneExpected' /\ Accounted'
  <2>1. ~crossed
    BY <1>1, <1>4
  <2>2. TodoIsOwn'
    BY <1>1 DEF TodoIsOwn
  <2>3. FiledUnderOwn'
    BY <1>1, <2>1 DEF HoleInv, FiledUnderOwn, Rel
  <2>4. NoneExpected'
    BY <1>1, <2>1 DEF HoleInv, NoneExpected
  <2>5. Accounted'
    <3> SUFFICES ASSUME NEW h \in got'
                 PROVE  based'[h.from] /\ (Waiting(h)' \/ Filed(h)' \/ Passed(h)')
      BY DEF Accounted
    <3>1. CASE h = g /\ based[g.from]
      <4>1. 1 \in DOMAIN todo' /\ todo'[1] = h
        BY <1>1, <3>1
      <4> QED
        BY <1>1, <3>1, <4>1 DEF Waiting
    <3>2. CASE h \in got
      <4>1. based[h.from] /\ (Waiting(h) \/ Filed(h) \/ Passed(h))
        BY <2>1, <3>2 DEF HoleInv, Accounted
      <4>2. ~Waiting(h)
        BY <1>1 DEF Waiting
      <4>3. Filed(h) => Filed(h)'
        BY <1>1 DEF Filed, Rel
      <4>4. Passed(h) => Passed(h)'
        BY <1>1 DEF Passed, Pos, Rel, FinCounted
      <4> QED
        BY <1>1, <4>1, <4>2, <4>3, <4>4
    <3> QED
      BY <1>1, <3>1, <3>2
  <2> QED
    BY <2>2, <2>3, <2>4, <2>5
<1> QED
  BY <1>1, <1>2, <1>3, <1>4 DEF HoleInv

(* A new session has captured and kept nothing yet.                        *)
LEMMA NewSessionLeavesNoHole ==
  ASSUME NEW g \in Segments, NewSession(g)
  PROVE  HoleInv'
<1>1. /\ \A d \in Side : ~based'[d]
      /\ \A k \in SeqNo : seg_map'[k] = <<>>
      /\ todo' = <<g>> /\ sender' = g.from /\ got' = {} /\ status' = "NONE"
  BY DEF NewSession, decode
<1>2. \A k \in SeqNo : DOMAIN seg_map'[k] = {}
  BY <1>1
<1>3. TodoIsOwn' /\ Accounted'
  BY <1>1 DEF TodoIsOwn, Accounted
<1>4. FiledUnderOwn' /\ NoneExpected'
  BY <1>1, <1>2 DEF FiledUnderOwn, NoneExpected
<1> QED
  BY <1>1, <1>3, <1>4 DEF HoleInv, BasedByStatus, ClientKnown

(* The first state.                                                        *)
LEMMA InitLeavesNoHole == Init => HoleInv
<1> SUFFICES ASSUME Init PROVE HoleInv
  OBVIOUS
<1>1. /\ \A d \in Side : ~based[d]
      /\ \A k \in SeqNo : seg_map[k] = <<>>
      /\ DOMAIN todo = {} /\ got = {} /\ status = "NONE"
  BY DEF Init
<1>2. \A k \in SeqNo : DOMAIN seg_map[k] = {}
  BY <1>1
<1>3. FiledUnderOwn /\ NoneExpected
  BY <1>1, <1>2 DEF FiledUnderOwn, NoneExpected
<1> QED
  BY <1>1, <1>3 DEF HoleInv, BasedByStatus, ClientKnown, TodoIsOwn, Accounted

(* A segment that does not fit goes from the invocation to its place in    *)
(* the map, which is not the one its stream looks up next.                 *)
LEMMA StoreLeavesNoHole ==
  ASSUME StoreInv, HoleInv, Store
  PROVE  HoleInv'
<1> DEFINE g == Head(todo)
           d == sender
           k == Rel(d, g.seq)
<1>t. TypeOK
  BY DEF StoreInv
<1>1. /\ todo # <<>> /\ todo' = Tail(todo) /\ ~Accepts(d, g)
      /\ seg_map' = [seg_map EXCEPT ![k] = Append(@, g)]
      /\ UNCHANGED <<client, status, closing, based, base, next_seq, sender,
                     delivered, got, crossed>>
  BY DEF Store, propvars, histvars
<1>2. g \in Segments /\ d \in Side /\ todo \in Seq(Segments)
  BY <1>t, <1>1, Invocation DEF TypeOK
<1>3. k \in SeqNo
  BY <1>t, <1>2, RelType, SegmentParts
<1>4. based[d] /\ next_seq[d] # k
  BY <1>1 DEF Accepts
<1>5. BasedByStatus' /\ ClientKnown'
  BY <1>1 DEF HoleInv, BasedByStatus, ClientKnown
<1>6. \A e \in Side : Position(e)' <=> Position(e)
  BY <1>1 DEF Position, FinCounted
<1>7. /\ DOMAIN todo' = 1 .. Len(todo) - 1
      /\ \A i \in DOMAIN todo' : i + 1 \in DOMAIN todo /\ todo'[i] = todo[i + 1]
      /\ \A i \in DOMAIN todo : i = 1 \/ (i - 1 \in DOMAIN todo' /\ todo'[i - 1] = todo[i])
      /\ 1 \in DOMAIN todo /\ todo[1] = g
  BY <1>1, <1>2
<1>8. /\ seg_map[k] \in Seq(Segments) /\ seg_map'[k] = Append(seg_map[k], g)
      /\ \A j \in SeqNo \ {k} : seg_map'[j] = seg_map[j]
  BY <1>t, <1>1, <1>3 DEF TypeOK
<1>9. /\ \A i \in DOMAIN seg_map[k] : i \in DOMAIN seg_map'[k] /\ seg_map'[k][i] = seg_map[k][i]
      /\ \A i \in DOMAIN seg_map'[k] :
           (i \in DOMAIN seg_map[k] /\ seg_map'[k][i] = seg_map[k][i]) \/ seg_map'[k][i] = g
      /\ \E i \in DOMAIN seg_map'[k] : seg_map'[k][i] = g
  <2> HIDE DEF g, k
  <2>1. DOMAIN seg_map'[k] = 1 .. Len(seg_map[k]) + 1 /\ DOMAIN seg_map[k] = 1 .. Len(seg_map[k])
        /\ Len(seg_map[k]) \in Nat
    BY <1>2, <1>8
  <2>2. seg_map'[k][Len(seg_map[k]) + 1] = g
    BY <1>2, <1>8
  <2>3. \A i \in 1 .. Len(seg_map[k]) : seg_map'[k][i] = seg_map[k][i]
    BY <1>2, <1>8
  <2>4. \A i \in 1 .. Len(seg_map[k]) + 1 : i \in 1 .. Len(seg_map[k]) \/ i = Len(seg_map[k]) + 1
    BY <2>1
  <2>5. Len(seg_map[k]) + 1 \in 1 .. Len(seg_map[k]) + 1
    BY <2>1
  <2> QED
    BY <2>1, <2>2, <2>3, <2>4, <2>5
<1>10. ASSUME ~crossed'
       PROVE  TodoIsOwn' /\ FiledUnderOwn' /\ NoneExpected' /\ Accounted'
  <2>1. TodoIsOwn /\ FiledUnderOwn /\ NoneExpected /\ Accounted
    BY <1>1, <1>10 DEF HoleInv
  <2>2. g.from = d
    BY <1>7, <2>1 DEF TodoIsOwn
  <2>3. TodoIsOwn'
    BY <1>1, <1>7, <2>1 DEF TodoIsOwn
  <2>4. FiledUnderOwn'
    <3> SUFFICES ASSUME NEW j \in SeqNo, NEW i \in DOMAIN seg_map'[j]
                 PROVE  /\ based[seg_map'[j][i].from]
                        /\ j = Rel(seg_map'[j][i].from, seg_map'[j][i].seq)
      BY <1>1 DEF FiledUnderOwn, Rel
    <3>2. CASE i \in DOMAIN seg_map[j] /\ seg_map'[j][i] = seg_map[j][i]
      <4>1. based[seg_map[j][i].from] /\ j = Rel(seg_map[j][i].from, seg_map[j][i].seq)
        BY <2>1, <3>2 DEF FiledUnderOwn
      <4> QED
        BY <3>2, <4>1
    <3>3. CASE j = k /\ seg_map'[j][i] = g
      BY <1>4, <2>2, <3>3
    <3> QED
      BY <1>8, <1>9, <3>2, <3>3
  <2>5. NoneExpected'
    <3> SUFFICES ASSUME NEW e \in Side, based[e],
                        NEW i \in DOMAIN seg_map'[next_seq[e]]
                 PROVE  seg_map'[next_seq[e]][i].from # e
      BY <1>1 DEF NoneExpected
    <3>1. next_seq[e] \in SeqNo
      BY <1>t DEF TypeOK
    <3>2. \A x \in DOMAIN seg_map[next_seq[e]] : seg_map[next_seq[e]][x].from # e
      BY <2>1 DEF NoneExpected
    <3>3. CASE e = d
      BY <1>4, <1>8, <3>1, <3>2, <3>3
    <3>4. CASE e # d
      <4>1. seg_map'[next_seq[e]][i] = g \/
            (i \in DOMAIN seg_map[next_seq[e]]
             /\ seg_map'[next_seq[e]][i] = seg_map[next_seq[e]][i])
        BY <1>8, <1>9, <3>1
      <4> QED
        BY <2>2, <3>2, <3>4, <4>1
    <3> QED
      BY <3>3, <3>4
  <2>6. Accounted'
    <3> SUFFICES ASSUME NEW h \in got
                 PROVE  based[h.from] /\ (Waiting(h)' \/ Filed(h)' \/ Passed(h)')
      BY <1>1 DEF Accounted
    <3>1. based[h.from] /\ (Waiting(h) \/ Filed(h) \/ Passed(h))
      BY <2>1 DEF Accounted
    <3>2. Rel(h.from, h.seq)' = Rel(h.from, h.seq)
      BY <1>1 DEF Rel
    <3>3. h = g => Filed(h)'
      BY <1>9, <2>2, <3>2 DEF Filed
    <3>4. Waiting(h) => Waiting(h)' \/ h = g
      BY <1>7 DEF Waiting
    <3>5. Filed(h) => Filed(h)'
      <4>1. h \in Segments
        BY <1>t DEF TypeOK
      <4>2. Rel(h.from, h.seq) \in SeqNo
        BY <1>t, <4>1, RelType, SegmentParts
      <4> QED
        BY <1>8, <1>9, <3>2, <4>2 DEF Filed
    <3>6. Passed(h) => Passed(h)'
      BY <1>1, <3>2 DEF Passed, Pos, FinCounted
    <3> QED
      BY <3>1, <3>3, <3>4, <3>5, <3>6
  <2> QED
    BY <2>3, <2>4, <2>5, <2>6
<1> QED
  BY <1>1, <1>5, <1>6, <1>10 DEF HoleInv

(* A segment that fits is behind its stream, and the chain behind it goes  *)
(* from the map to the invocations.                                        *)
LEMMA DeliverLeavesNoHole ==
  ASSUME StoreInv, SessionInv, HoleInv, Deliver
  PROVE  HoleInv'
<1> DEFINE g == Head(todo)
           chain == seg_map[next_seq'[sender]]
<1>t. TypeOK /\ BasedByStatus /\ ClientKnown
  BY DEF StoreInv, HoleInv
<1>1. PICK d \in Side : d = sender
  BY <1>t, Invocation DEF Deliver
<1>2. PICK k \in SeqNo : k = next_seq'[sender]
  <2>1. trans_state(sender, g) /\ g \in Segments
    BY <1>t, Invocation DEF Deliver
  <2> HIDE DEF g
  <2> QED
    BY <1>t, <1>1, <2>1, TransStateType
<1>3. /\ todo # <<>> /\ Accepts(d, g) /\ sender' = d /\ got' = got
      /\ seg_map' = erase(k) /\ todo' = chain \o Tail(todo)
      /\ crossed' = (crossed \/ \E i \in DOMAIN chain : chain[i].from # d)
  BY <1>1, <1>2 DEF Deliver, lookup_key
<1>4. /\ g \in Segments /\ chain \in Seq(Segments) /\ Tail(todo) \in Seq(Segments)
      /\ todo \in Seq(Segments)
  BY <1>t, <1>2, <1>3, Invocation DEF TypeOK
<1>5. BasedByStatus' /\ ClientKnown'
  BY <1>t, DeliverKeepsBased
<1>6. \A e \in Side : based[e] => Position(e)
  BY DEF HoleInv
<1>7. /\ based[d] => based'[d] /\ base'[d] = base[d] /\ Pos(d)' >= Pos(d) + g.len
      /\ based'[d] => Position(d)'
  BY <1>t, <1>1, <1>6, DeliverMovesOn
<1>8. \A e \in Side : e # d =>
        /\ based'[e] = based[e] /\ base'[e] = base[e] /\ next_seq'[e] = next_seq[e]
        /\ Pos(e)' = Pos(e) /\ (Position(e)' <=> Position(e))
  BY <1>t, <1>1, OtherStays
<1>9. \A e \in Side : based'[e] => Position(e)'
  BY <1>6, <1>7, <1>8
<1>10. \A e \in Side : /\ Pos(e) \in Nat /\ Pos(e)' \in Nat
                       /\ based[e] => next_seq[e] = Pos(e) % SeqMod
  <2>1. \A e \in Side : Pos(e) \in Nat /\ (based[e] => next_seq[e] = Pos(e) % SeqMod)
    BY <1>t, <1>6, PosType
  <2>2. StoreInv'
    BY DeliverKeepsStore
  <2>3. \A e \in Side : Len(delivered'[e]) \in Nat
    BY <2>2 DEF StoreInv, TypeOK
  <2>4. ASSUME NEW e \in Side
        PROVE  Pos(e)' \in Nat
    <3> DEFINE c == IF FinCounted(e)' THEN 1 ELSE 0
    <3>1. Pos(e)' = 1 + Len(delivered'[e]) + c
      BY DEF Pos
    <3>2. c \in Nat
      OBVIOUS
    <3> HIDE DEF c
    <3> QED
      BY <2>3, <3>1, <3>2
  <2> QED
    BY <2>1, <2>4
<1>11. /\ seg_map'[k] = <<>> /\ DOMAIN seg_map'[k] = {}
       /\ \A j \in SeqNo \ {k} : seg_map'[j] = seg_map[j]
  <2>1. seg_map'[k] = <<>> /\ \A j \in SeqNo \ {k} : seg_map'[j] = seg_map[j]
    BY <1>t, <1>3 DEF erase, TypeOK
  <2> QED
    BY <2>1
<1>12. /\ \A i \in DOMAIN todo' :
            \/ \E j \in DOMAIN chain : todo'[i] = chain[j]
            \/ \E j \in DOMAIN todo : todo'[i] = todo[j]
       /\ \A j \in DOMAIN chain : \E i \in DOMAIN todo' : todo'[i] = chain[j]
       /\ \A j \in DOMAIN todo : j = 1 \/ \E i \in DOMAIN todo' : todo'[i] = todo[j]
       /\ 1 \in DOMAIN todo /\ todo[1] = g
  <2> DEFINE rest == Tail(todo)
             n == Len(chain)
             m == Len(rest)
  <2>1. /\ 1 \in DOMAIN todo /\ todo[1] = g
        /\ \A j \in DOMAIN rest : j + 1 \in DOMAIN todo /\ rest[j] = todo[j + 1]
        /\ \A j \in DOMAIN todo : j = 1 \/ (j - 1 \in DOMAIN rest /\ rest[j - 1] = todo[j])
    BY <1>3, <1>4
  <2> HIDE DEF chain, rest
  <2>2. n \in Nat /\ m \in Nat /\ DOMAIN chain = 1 .. n /\ DOMAIN rest = 1 .. m
    BY <1>4 DEF rest
  <2>3. /\ DOMAIN todo' = 1 .. n + m
        /\ \A i \in 1 .. n : todo'[i] = chain[i]
        /\ \A i \in n + 1 .. n + m : todo'[i] = rest[i - n]
    BY <1>3, <1>4 DEF rest
  <2> HIDE DEF n, m
  <2>4. \A i \in DOMAIN todo' : (i \in 1 .. n /\ todo'[i] = chain[i])
                                \/ (i - n \in 1 .. m /\ todo'[i] = rest[i - n])
    BY <2>2, <2>3
  <2>5. \A i \in 1 .. n : i \in DOMAIN todo'
    BY <2>2, <2>3
  <2>6. \A j \in 1 .. m : n + j \in DOMAIN todo' /\ todo'[n + j] = rest[j]
    <3> TAKE j \in 1 .. m
    <3>1. n + j \in n + 1 .. n + m /\ n + j \in 1 .. n + m /\ (n + j) - n = j
      BY <2>2
    <3> QED
      BY <2>3, <3>1
  <2>7. \A i \in DOMAIN todo' :
            \/ \E j \in DOMAIN chain : todo'[i] = chain[j]
            \/ \E j \in DOMAIN todo : todo'[i] = todo[j]
    BY <2>1, <2>2, <2>4
  <2>8. \A j \in DOMAIN chain : \E i \in DOMAIN todo' : todo'[i] = chain[j]
    BY <2>2, <2>3, <2>5
  <2>9. \A j \in DOMAIN todo : j = 1 \/ \E i \in DOMAIN todo' : todo'[i] = todo[j]
    BY <2>1, <2>2, <2>6
  <2> QED
    BY <2>1, <2>7, <2>8, <2>9
<1>13. ASSUME ~crossed'
       PROVE  TodoIsOwn' /\ FiledUnderOwn' /\ NoneExpected' /\ Accounted'
  <2>1. /\ TodoIsOwn /\ FiledUnderOwn /\ NoneExpected /\ Accounted
        /\ \A i \in DOMAIN chain : chain[i].from = d
    <3>1. ~crossed
      BY <1>3, <1>13
    <3> QED
      BY <1>3, <1>13, <3>1 DEF HoleInv
  <2>2. g.from = d
    BY <1>1, <1>12, <2>1 DEF TodoIsOwn
  <2>3. TodoIsOwn'
    <3> SUFFICES ASSUME NEW i \in DOMAIN todo'
                 PROVE  todo'[i].from = d
      BY <1>3 DEF TodoIsOwn
    <3>1. \A j \in DOMAIN todo : todo[j].from = d
      BY <1>1, <2>1 DEF TodoIsOwn
    <3> HIDE DEF chain
    <3> QED
      BY <1>12, <2>1, <3>1
  <2>4. \A e \in Side : based[e] => based'[e] /\ base'[e] = base[e]
    BY <1>7, <1>8
  <2>5. FiledUnderOwn'
    <3> SUFFICES ASSUME NEW j \in SeqNo, NEW i \in DOMAIN seg_map'[j]
                 PROVE  LET h == seg_map'[j][i]
                        IN based'[h.from] /\ j = (h.seq - base'[h.from]) % SeqMod
      BY DEF FiledUnderOwn, Rel
    <3>1. j # k
      BY <1>11
    <3>2. seg_map'[j] = seg_map[j]
      BY <1>11, <3>1
    <3>3. seg_map[j][i] \in Segments
      BY <1>t, <3>2, KeptSegments
    <3>4. based[seg_map[j][i].from] /\ j = Rel(seg_map[j][i].from, seg_map[j][i].seq)
      BY <2>1, <3>2 DEF FiledUnderOwn
    <3>5. seg_map[j][i].from \in Side
      BY <3>3, SegmentParts
    <3> QED
      BY <2>4, <3>2, <3>4, <3>5 DEF Rel
  <2>6. NoneExpected'
    <3> SUFFICES ASSUME NEW e \in Side, based'[e],
                        NEW i \in DOMAIN seg_map'[next_seq'[e]]
                 PROVE  seg_map'[next_seq'[e]][i].from # e
      BY DEF NoneExpected
    <3>1. next_seq'[e] # k /\ e # d
      BY <1>1, <1>2, <1>11
    <3>2. next_seq'[e] = next_seq[e] /\ based[e] /\ next_seq[e] \in SeqNo
      BY <1>t, <1>8, <3>1 DEF TypeOK
    <3>3. seg_map'[next_seq'[e]] = seg_map[next_seq[e]]
      BY <1>11, <3>1, <3>2
    <3> QED
      BY <2>1, <3>2, <3>3 DEF NoneExpected
  <2>7. Accounted'
    <3> SUFFICES ASSUME NEW h \in got
                 PROVE  based'[h.from] /\ (Waiting(h)' \/ Filed(h)' \/ Passed(h)')
      BY <1>3 DEF Accounted
    <3>1. based[h.from] /\ (Waiting(h) \/ Filed(h) \/ Passed(h))
      BY <2>1 DEF Accounted
    <3>2. h \in Segments
      BY <1>t DEF TypeOK
    <3>3. h.from \in Side /\ h.seq \in SeqNo /\ h.len \in Nat
      BY <3>2, SegmentParts
    <3> DEFINE r == Rel(h.from, h.seq)
    <3>4. r \in SeqNo /\ r \in Nat
      <4>1. r \in SeqNo
        BY <1>t, <3>3, RelType
      <4> QED
        BY <4>1, SeqAssumption DEF SeqNo
    <3>5. based'[h.from] /\ r' = r
      BY <2>4, <3>1, <3>3 DEF Rel
    <3>6. ASSUME h = g
          PROVE  Passed(h)'
      <4>1. based[d] /\ next_seq[d] = r
        BY <1>3, <2>2, <3>1, <3>6 DEF Accepts
      <4>2. Pos(d)' >= Pos(d) + g.len /\ Pos(d) \in Nat /\ Pos(d)' \in Nat
            /\ r = Pos(d) % SeqMod
        BY <1>7, <1>10, <4>1
      <4>3. Passed(h)' <=> (h.len > 0 => r' < Pos(d)')
        BY <2>2, <3>6 DEF Passed
      <4> DEFINE p == Pos(d)
                 q == Pos(d)'
                 len == h.len
      <4>4. q >= p + len /\ p \in Nat /\ q \in Nat /\ len \in Nat
        BY <3>3, <3>6, <4>2
      <4>5. r \in Nat /\ r <= p
        <5>1. p % SeqMod <= p
          <6>1. p \in Nat
            BY <4>4
          <6> HIDE DEF p
          <6>2. CASE p < SeqMod
            <7>1. p \in SeqNo
              BY <6>1, <6>2, SeqAssumption DEF SeqNo
            <7> QED
              BY <6>1, <7>1, ModSmall
          <6>3. CASE p >= SeqMod
            <7>1. p % SeqMod \in 0 .. SeqMod - 1
              BY <6>1, DivMod
            <7> QED
              BY <6>1, <6>3, <7>1, SeqAssumption
          <6> QED
            BY <6>1, <6>2, <6>3, SeqAssumption
        <5> QED
          BY <3>4, <4>2, <5>1
      <4> HIDE DEF p, q, len, r
      <4>6. len > 0 => r < q
        BY <4>4, <4>5
      <4> QED
        BY <3>5, <4>3, <4>6 DEF len, q
    <3>7. Waiting(h) => Waiting(h)' \/ h = g
      BY <1>12 DEF Waiting
    <3>8. Filed(h) => Filed(h)' \/ Waiting(h)'
      <4>1. CASE r = k
        BY <1>2, <1>12, <4>1 DEF Filed, Waiting
      <4>2. CASE r # k
        <5>1. seg_map'[r] = seg_map[r]
          BY <1>11, <3>4, <4>2
        <5> QED
          BY <3>5, <5>1 DEF Filed
      <4> QED
        BY <4>1, <4>2
    <3>9. Passed(h) => Passed(h)'
      <4> DEFINE p == Pos(h.from)
                 q == Pos(h.from)'
      <4>1. p \in Nat /\ q \in Nat
        BY <1>10, <3>3
      <4>2. q >= p
        <5>1. CASE h.from = d
          <6>1. Pos(d)' >= Pos(d) + g.len /\ g.len \in Nat
            BY <1>4, <1>7, <3>1, <5>1, SegmentParts
          <6>2. q >= p + g.len
            BY <5>1, <6>1
          <6> HIDE DEF p, q, g
          <6> QED
            BY <4>1, <6>1, <6>2
        <5>2. CASE h.from # d
          <6>1. q = p
            BY <1>8, <3>3, <5>2
          <6> HIDE DEF p, q
          <6> QED
            BY <4>1, <6>1
        <5> QED
          BY <5>1, <5>2
      <4>3. /\ Passed(h) <=> (h.len > 0 => r < p)
            /\ Passed(h)' <=> (h.len > 0 => r' < q)
        BY DEF Passed
      <4> HIDE DEF p, q, r
      <4> QED
        BY <3>4, <3>5, <4>1, <4>2, <4>3
    <3> QED
      BY <3>1, <3>5, <3>6, <3>7, <3>8, <3>9
  <2> QED
    BY <2>3, <2>5, <2>6, <2>7
<1> QED
  BY <1>5, <1>9, <1>13 DEF HoleInv

(* The inductive invariant of what has been captured.                      *)
THEOREM HoleInvariant == Spec => []HoleInv
<1>1. StoreInv /\ SessionInv /\ HoleInv /\ [Next]_vars => HoleInv'
  <2> SUFFICES ASSUME StoreInv, SessionInv, HoleInv, [Next]_vars
               PROVE  HoleInv'
    OBVIOUS
  <2>1. CASE UNCHANGED vars
    <3>1. UNCHANGED <<client, status, closing, based, base, next_seq, seg_map,
                      delivered, todo, sender, got, crossed>>
      BY <2>1 DEF vars, ssnvars, propvars, histvars
    <3>2. BasedByStatus' /\ ClientKnown'
      BY <3>1 DEF HoleInv, BasedByStatus, ClientKnown
    <3>3. \A d \in Side : Position(d)' <=> Position(d)
      BY <3>1 DEF Position, FinCounted
    <3>4. /\ TodoIsOwn' <=> TodoIsOwn
          /\ FiledUnderOwn' <=> FiledUnderOwn
          /\ NoneExpected' <=> NoneExpected
      BY <3>1 DEF TodoIsOwn, FiledUnderOwn, NoneExpected, Rel
    <3>5. Accounted' <=> Accounted
      BY <3>1 DEF Accounted, Waiting, Filed, Passed, Rel, Pos, FinCounted
    <3> QED
      BY <3>1, <3>2, <3>3, <3>4, <3>5 DEF HoleInv
  <2>2. CASE Next /\ ~UNCHANGED vars
    BY <2>2, NewSessionLeavesNoHole, KnownSessionLeavesNoHole,
       StoreLeavesNoHole, DeliverLeavesNoHole DEF Next, Finished
  <2> QED
    BY <2>1, <2>2
<1> QED
  BY <1>1, InitLeavesNoHole, StoreInvariant, SessionInvariant, PTL DEF Spec

(* As long as fewer bytes have been taken than there are sequence numbers, *)
(* a stream never waits for a segment that has been captured - whatever    *)
(* the endpoints send, and in whatever order it is captured - unless a     *)
(* lookup has met a segment of the other endpoint.                         *)
THEOREM NoHoleIsLeft == Spec => [](WithinSequenceSpace => NoHoleLeft)
<1>1. ASSUME StoreInv, HoleInv, WithinSequenceSpace
      PROVE  NoHoleLeft
  <2> SUFFICES ASSUME todo = <<>>, ~crossed, NEW g \in got, Overdue(g)
               PROVE  FALSE
    BY DEF NoHoleLeft, Idle
  <2>t. TypeOK
    BY <1>1 DEF StoreInv
  <2>1. g \in Segments
    BY <2>t DEF TypeOK
  <2>2. g.from \in Side /\ g.seq \in SeqNo
    BY <2>1, SegmentParts
  <2> DEFINE d == g.from
             r == Rel(d, g.seq)
  <2>3. based[d] /\ g.len > 0 /\ r = next_seq[d]
    BY DEF Overdue
  <2>4. Waiting(g) \/ Filed(g) \/ Passed(g)
    BY <1>1 DEF HoleInv, Accounted
  <2>5. ~Waiting(g)
    BY DEF Waiting
  <2>6. ~Filed(g)
    <3>1. \A i \in DOMAIN seg_map[r] : seg_map[r][i].from # d
      BY <1>1, <2>2, <2>3 DEF HoleInv, NoneExpected
    <3> QED
      BY <3>1 DEF Filed
  <2>7. r < Pos(d)
    BY <2>3, <2>4, <2>5, <2>6 DEF Passed
  <2>8. next_seq[d] = Pos(d)
    <3>1. /\ Pos(d) \in Nat /\ Pos(d) <= Len(delivered[d]) + 2
          /\ Len(delivered[d]) \in Nat
          /\ Position(d) <=> next_seq[d] = Pos(d) % SeqMod
      BY <2>t, <2>2, PosType
    <3>2. Len(delivered[d]) + 2 < SeqMod
      BY <1>1, <2>2 DEF WithinSequenceSpace
    <3>3. Position(d)
      BY <1>1, <2>2, <2>3 DEF HoleInv
    <3>4. Pos(d) \in SeqNo
      BY <3>1, <3>2, SeqAssumption DEF SeqNo
    <3> QED
      BY <3>1, <3>3, <3>4, ModSmall
  <2>9. Pos(d) \in Nat
    BY <2>t, <2>2, PosType
  <2> QED
    BY <2>3, <2>7, <2>8, <2>9
<1> QED
  BY <1>1, StoreInvariant, HoleInvariant, PTL

-----------------------------------------------------------------------------
(* The end of the recursion.                                               *)

(* An invocation of decode_stream() that files its segment leaves fewer    *)
(* invocations to come; one that accepts it, fewer packets not accepted -  *)
(* and may bring up a chain as long as those that are kept.                *)
DecodingShrinks ==
  todo # <<>> =>
    \/ unaccepted' < unaccepted
    \/ unaccepted' = unaccepted /\ Len(todo') < Len(todo)

(* Both numbers are natural, so that the recursion over stored segments    *)
(* takes finitely many invocations: what DecodeTerminates needs beside the *)
(* kernel thread going on.                                                 *)
THEOREM DecodingMovesOn == Spec => [][DecodingShrinks]_vars
<1>1. ASSUME StoreInv, [Next]_vars
      PROVE  [DecodingShrinks]_vars
  <2> SUFFICES ASSUME Next, todo # <<>>
               PROVE  \/ unaccepted' < unaccepted
                      \/ unaccepted' = unaccepted /\ Len(todo') < Len(todo)
    BY <1>1 DEF DecodingShrinks
  <2>1. TypeOK /\ unaccepted \in Nat
    BY <1>1 DEF StoreInv, TypeOK
  <2>2. Len(todo) \in Nat /\ Len(Tail(todo)) = Len(todo) - 1
    BY <2>1, Invocation
  <2>3. CASE Store
    <3>1. unaccepted' = unaccepted /\ todo' = Tail(todo)
      BY <2>3 DEF Store, histvars
    <3> QED
      BY <2>2, <3>1
  <2>4. CASE Deliver
    <3>1. unaccepted' = unaccepted - 1
      BY <2>4 DEF Deliver
    <3> QED
      BY <2>1, <3>1
  <2> QED
    BY <2>3, <2>4 DEF Next, NewSession, KnownSession, Finished
<1> QED
  BY <1>1, StoreInvariant, PTL DEF Spec
==============================================================================
