--------------------------- MODULE DecoderProofs ---------------------------
(***************************************************************************)
(* The decode chain keeps its cursor and its values in the packet, shows   *)
(* nothing of an earlier packet and files every record under its section,  *)
(* for every capture and every configuration.                              *)
(***************************************************************************)
EXTENDS Decoder, NatProofs, TLAPS

-----------------------------------------------------------------------------
(* The inductive invariant behind the properties of Decoder, in parts.     *)

CursorOK(d) ==
  d \in [ptr : Nat, end : Nat, length : Nat] /\ d.ptr + d.length <= d.end

(* Property: types, and both vectors reach every parameter in use.         *)
Filed ==
  /\ size \in 0 .. Len(params_)
  /\ param \in [Params -> Seq(Values)]
  /\ idx \in [Params -> Nat]
  /\ \A p \in Params : idx[p] <= Len(param[p])
  /\ \A p \in Params : idx[p] > 0 => Psize[p] <= size

(* What the classes of Value keep apart, in use or waiting to be used: the *)
(* objects of a parameter are arrays, maps or plain values.                *)
Maps == {p \in Params : p[2] \in {"_option", "records"}}
KindsApart ==
  \A p \in Params : \A i \in 1 .. Len(param[p]) :
    /\ p \in Arrays \cup Maps => ~param[p][i].active
    /\ p \notin Arrays => param[p][i].array = <<>>
    /\ p \notin Maps => \A f \in Fields : param[p][i].map[f] = NullRef

(* The part of ValuesInPacket that is about Property.                      *)
InPacket(p, v) ==
  v.len > 0 => \/ v.off >= 0 /\ v.off + v.len <= pd.end + Overshoot(p)
               \/ v.off = NullPtr /\ p = <<"IPv4", "opt">>
ValuesFit ==
  \A p \in Params : \A i \in Visible(p) :
    param[p][i].active => InPacket(p, param[p][i].at)

(* A module comes after every module that has set a value of this packet.  *)
Layer ==
  [Ethernet |-> 0, Dot1Q |-> 1, PPPoE |-> 2, ARP |-> 3, IPv4 |-> 3, ICMP |-> 4,
   UDP |-> 4, TCP |-> 4, DHCP |-> 5, DNS |-> 5, MDNS |-> 5]
OnceEach ==
  next \in Modules => \A p \in Params : idx[p] > 0 => Layer[p[1]] < Layer[next]

(* The loop over the resource records, between two iterations.             *)
RrLocals ==
  [mod : NsMods, count : [0 .. 3 -> Nat], c : Nat, target : 0 .. 3, rr_c : Nat,
   arr : Refs, ptr : Nat, ep : Nat]
ArrayOpen(r) ==
  /\ r.arr # NullRef => r.arr = <<p_record(r.mod, r.target), 1>>
  /\ \A t \in 0 .. 3 :
       t > r.target \/ (t = r.target /\ r.arr = NullRef) => idx[p_record(r.mod, t)] = 0
  /\ r.arr # NullRef => idx[p_record(r.mod, r.target)] = 1
  /\ r.arr = NullRef => r.rr_c = 0
HoldsRecords(r) ==
  \A t \in 0 .. 3 : \A k \in 1 .. Len(InSection(r, t)) :
    InSection(r, t)[k][1] = <<r.mod, "records">>
RrOK(r) ==
  /\ r \in RrLocals
  /\ r.ptr <= r.ep /\ r.ep <= pd.end
  /\ Counted(r)
  /\ ArrayOpen(r)
  /\ Sectioned(r)
  /\ HoldsRecords(r)
(* The ids of a name service rely on the vectors that UDP has grown.       *)
AfterUdp ==
  \A m \in NsMods :
    next \in {m, "records"} \/ idx[<<m, "hdr">>] > 0 => idx[<<"UDP", "hdr">>] > 0

LoopInv ==
  /\ next = "DHCP.options" => idx[<<"DHCP", "options">>] > 0
  /\ next = "records" => RrOK(rr)

Shape ==
  /\ pkt \in 0 .. MaxPkt
  /\ enable_ssn_mgmt \in BOOLEAN
  /\ next \in Modules \cup {"new", "refused", NONE, "DHCP.options", "records"}
  /\ event \in Seq(Events)
  /\ event_idx \in 0 .. Len(event)
  /\ addr \in 0 .. MaxPkt /\ port \in 0 .. MaxPkt

DecoderInv ==
  /\ Shape
  /\ CursorOK(pd)
  /\ Filed
  /\ KindsApart
  /\ ValuesFit
  /\ NothingStale
  /\ OnceEach
  /\ AfterUdp
  /\ LoopInv
  /\ EventsFollowStack
  /\ KeyIsOfThisPacket

-----------------------------------------------------------------------------
(* Numbers                                                                 *)

(* A bounded set of natural numbers has a largest one.                     *)
LEMMA MaxOfBounded ==
  ASSUME NEW N \in Nat, NEW S \in SUBSET (0 .. N), S # {}
  PROVE  MaxOf(S) \in S /\ \A k \in S : k <= MaxOf(S)
<1> DEFINE T == {N - n : n \in S}
<1>1. T \in SUBSET Nat /\ T # {}
  <2>1. ASSUME NEW n \in S PROVE N - n \in Nat
    OBVIOUS
  <2> QED
    BY <2>1
<1> HIDE DEF T
<1>2. \E x \in T : \A y \in T : x <= y
  BY <1>1, NatMin
<1> USE DEF T
<1>3. \E n \in S : \A k \in S : k <= n
  <2>1. PICK n \in S : \A y \in T : N - n <= y
    BY <1>2
  <2>2. ASSUME NEW k \in S PROVE k <= n
    BY <2>1
  <2> QED
    BY <2>2
<1> QED
  BY <1>3 DEF MaxOf

(* param_ and param_idx_ grow up to the largest id, and not beyond params_.*)
LEMMA GrownCovers ==
  ASSUME Filed, NEW ps \in SUBSET Params
  PROVE  /\ Grown(ps) \in 0 .. Len(params_)
         /\ size <= Grown(ps)
         /\ \A p \in ps : Psize[p] <= Grown(ps)
<1> DEFINE S == {size} \cup {Psize[p] : p \in ps}
           N == Len(params_)
<1>1. Psize \in [Params -> 1 .. N] /\ size \in 0 .. N
  BY TablesAssumption DEF Filed
<1>2. N \in Nat
  BY TablesAssumption
<1> HIDE DEF N
<1>3. S \in SUBSET (0 .. N) /\ S # {}
  BY <1>1, <1>2
<1>4. MaxOf(S) \in S /\ \A k \in S : k <= MaxOf(S)
  <2> HIDE DEF S
  <2> QED
    BY <1>2, <1>3, MaxOfBounded
<1>5. Grown(ps) = MaxOf(S)
  BY DEF Grown
<1> HIDE DEF N
<1>6. MaxOf(S) \in 0 .. N
  BY <1>3, <1>4
<1>7. size \in S /\ \A p \in ps : Psize[p] \in S
  OBVIOUS
<1> HIDE DEF S
<1> QED
  BY <1>4, <1>5, <1>6, <1>7 DEF N

(* A name that a parameter stands for has an id below the size that the    *)
(* parameter makes sure of.                                                *)
LEMMA SourcesBelow ==
  ASSUME NEW p \in Params, NEW name \in Sources[p]
  PROVE  param_map_[name] < Psize[p]
<1> DEFINE S == {param_map_[n] : n \in Sources[p]}
           N == Len(params_)
<1>1. /\ param_map_ \in [ParamNames -> 0 .. N - 1] /\ Sources[p] \subseteq ParamNames
      /\ Psize[p] = 1 + MaxOf(S)
  BY TablesAssumption DEF Psize
<1>2. N \in Nat /\ param_map_[name] \in 0 .. N - 1 /\ param_map_[name] \in S
  BY <1>1, TablesAssumption
<1>3. S \in SUBSET (0 .. N)
  BY <1>1, <1>2
<1> HIDE DEF S, N
<1>4. MaxOf(S) \in S /\ \A k \in S : k <= MaxOf(S)
  BY <1>2, <1>3, MaxOfBounded
<1>5. MaxOf(S) \in 0 .. N /\ param_map_[name] <= MaxOf(S)
  BY <1>2, <1>3, <1>4
<1>6. Psize[p] = 1 + MaxOf(S)
  BY <1>1
<1> QED
  BY <1>2, <1>5, <1>6

(* The number of records in the sections before one.                       *)
LEMMA RecordsSum ==
  ASSUME NEW count \in [0 .. 3 -> Nat], NEW n \in 0 .. 4
  PROVE  Records(count, n) =
           (IF n > 0 THEN count[0] ELSE 0) + (IF n > 1 THEN count[1] ELSE 0)
             + (IF n > 2 THEN count[2] ELSE 0) + (IF n > 3 THEN count[3] ELSE 0)
<1> DEFINE s(f) == [t \in 0 .. n |-> IF t = 0 THEN 0 ELSE f[t - 1] + count[t - 1]]
           w == [t \in 0 .. n |->
                  IF t = 0 THEN 0 ELSE IF t = 1 THEN count[0]
                  ELSE IF t = 2 THEN count[0] + count[1]
                  ELSE IF t = 3 THEN count[0] + count[1] + count[2]
                  ELSE count[0] + count[1] + count[2] + count[3]]
           sum == CHOOSE f : f = s(f)
<1>1. w = s(w)
  OBVIOUS
<1>2. sum = s(sum)
  BY <1>1
<1>3. Records(count, n) = sum[n]
  BY DEF Records
<1> HIDE DEF sum
<1>4. sum[0] = 0 /\ \A t \in 1 .. n : sum[t] = sum[t - 1] + count[t - 1]
  BY <1>2
<1> HIDE DEF s, w
<1>5. n = 0 \/ n = 1 \/ n = 2 \/ n = 3 \/ n = 4
  OBVIOUS
<1> QED
  BY <1>3, <1>4, <1>5

-----------------------------------------------------------------------------
(* Payload                                                                 *)

(* retain() moves the cursor within the packet, if there is that much.     *)
LEMMA RetainStays ==
  ASSUME NEW d, CursorOK(d), NEW n \in Nat, CanRetain(d, n)
  PROVE  /\ CursorOK(retain(d, n)) /\ retain(d, n).end = d.end
         /\ retain(d, n).ptr = d.ptr + n /\ retain(d, n).length = d.length - n
         /\ d.ptr + n <= d.end
<1> DEFINE r == [d EXCEPT !.ptr = @ + n, !.length = @ - n]
<1>1. /\ d.ptr \in Nat /\ d.end \in Nat /\ d.length \in Nat
      /\ d.ptr + d.length <= d.end /\ n <= d.length
  BY DEF CursorOK, CanRetain
<1>2. d \in [ptr : Nat, end : Nat, length : Nat]
  BY DEF CursorOK
<1>3. /\ r.ptr = d.ptr + n /\ r.end = d.end /\ r.length = d.length - n
      /\ d.ptr + n \in Nat /\ d.length - n \in Nat
  BY <1>1, <1>2
<1>4. r \in [ptr : Nat, end : Nat, length : Nat]
  BY <1>1, <1>2, <1>3
<1>5. retain(d, n) = r
  BY DEF retain
<1> HIDE DEF r
<1> QED
  BY <1>1, <1>3, <1>4, <1>5 DEF CursorOK

(* A length from a header never lengthens what is left.                    *)
LEMMA ShrinkStays ==
  ASSUME NEW d, CursorOK(d), NEW n \in Nat
  PROVE  CursorOK(shrink(d, n)) /\ shrink(d, n).end = d.end
         /\ shrink(d, n).ptr = d.ptr
BY DEF CursorOK, shrink

(* All that is left can be taken.                                          *)
LEMMA AllCanBeRetained ==
  ASSUME NEW d, CursorOK(d)
  PROVE  d.length \in Nat /\ CanRetain(d, d.length)
BY DEF CursorOK, CanRetain

-----------------------------------------------------------------------------
(* Property                                                                *)

ByteRanges == [pkt : 0 .. MaxPkt, off : Nat \cup {NullPtr}, len : Nat]
Links == UNION {[F -> Params \X Nat] : F \in SUBSET Fields}
Assignments ==
  {SetTo(b) : b \in ByteRanges} \cup {LinkTo(m) : m \in Links}
    \cup {Push(ref) : ref \in Params \X Nat}

(* The three things a step does to a value.                                *)
LEMMA AssignedCases ==
  ASSUME NEW v \in Values
  PROVE  /\ \A b : Assigned(v, SetTo(b)) =
              [active |-> TRUE, at |-> b, array |-> v.array, map |-> v.map]
         /\ \A m : Assigned(v, LinkTo(m)) =
              [active |-> v.active, at |-> v.at, array |-> v.array,
               map |-> [f \in Fields |-> IF f \in DOMAIN m THEN m[f] ELSE v.map[f]]]
         /\ \A ref \in Params \X Nat : Assigned(v, Push(ref)) =
              [active |-> v.active, at |-> v.at, array |-> Append(v.array, ref),
               map |-> v.map]
<1>1. v.array \in Seq(Params \X Nat) /\ v.active \in BOOLEAN
      /\ v.map \in [Fields -> Refs]
  BY DEF Values
<1>2. DOMAIN <<>> = {} /\ v.array \o <<>> = v.array
  BY <1>1
<1>3. v.map = [f \in Fields |-> v.map[f]]
  BY <1>1
<1>4. ASSUME NEW b PROVE Assigned(v, SetTo(b)) =
              [active |-> TRUE, at |-> b, array |-> v.array, map |-> v.map]
  BY <1>1, <1>2, <1>3 DEF Assigned, SetTo
<1>5. ASSUME NEW m PROVE Assigned(v, LinkTo(m)) =
              [active |-> v.active, at |-> v.at, array |-> v.array,
               map |-> [f \in Fields |-> IF f \in DOMAIN m THEN m[f] ELSE v.map[f]]]
  BY <1>1, <1>2 DEF Assigned, LinkTo
<1>6. ASSUME NEW ref \in Params \X Nat PROVE Assigned(v, Push(ref)) =
              [active |-> v.active, at |-> v.at, array |-> Append(v.array, ref),
               map |-> v.map]
  <2>1. v.array \o <<ref>> = Append(v.array, ref)
    BY <1>1
  <2> QED
    BY <1>1, <1>2, <1>3, <2>1 DEF Assigned, Push
<1> QED
  BY <1>4, <1>5, <1>6

(* clear() of every class leaves a value of its kind, without the parts    *)
(* that the kind has.                                                      *)
LEMMA ClearType ==
  ASSUME NEW p \in Params, NEW v \in Values
  PROVE  clear(p, v) \in Values
<1>1. /\ v.active \in BOOLEAN /\ v.at \in ByteRanges
      /\ v.array \in Seq(Params \X Nat) /\ v.map \in [Fields -> Refs]
  BY DEF Values, ByteRanges
<1>2. [f \in Fields |-> NullRef] \in [Fields -> Refs]
      /\ [v.map EXCEPT !["data"] = NullRef] \in [Fields -> Refs]
  BY <1>1 DEF Refs
<1>3. <<>> \in Seq(Params \X Nat)
  OBVIOUS
<1>4. Array_clear(v) \in Values
  BY <1>3 DEF Array_clear, Values
<1>5. Option_clear(v) \in Values
  BY <1>2 DEF Option_clear, Values
<1>6. NSRecord_clear(v) \in Values
  BY <1>2 DEF NSRecord_clear, Values
<1>7. Value_clear(v) \in Values
  BY DEF Value_clear, Values
<1> QED
  BY <1>4, <1>5, <1>6, <1>7 DEF clear

(* A new object is a value that has not been set.                          *)
LEMMA NewValueType == new_value \in Values
<1>1. NoBytes \in ByteRanges
  BY DecoderAssumption DEF NoBytes, ByteRanges
<1>2. [f \in Fields |-> NullRef] \in [Fields -> Refs]
  BY DEF Refs
<1>3. <<>> \in Seq(Params \X Nat)
  OBVIOUS
<1> QED
  BY <1>1, <1>2, <1>3 DEF new_value, Values, ByteRanges

(* Setting, linking and pushing keep a value a value.                      *)
LEMMA AssignedType ==
  ASSUME NEW v \in Values, NEW a \in Assignments
  PROVE  Assigned(v, a) \in Values
<1>1. /\ v.active \in BOOLEAN /\ v.at \in ByteRanges
      /\ v.array \in Seq(Params \X Nat) /\ v.map \in [Fields -> Refs]
  BY DEF Values, ByteRanges
<1>2. CASE \E b \in ByteRanges : a = SetTo(b)
  <2>1. PICK b \in ByteRanges : a = SetTo(b)
    BY <1>2
  <2>2. Assigned(v, a) =
          [active |-> TRUE, at |-> b, array |-> v.array, map |-> v.map]
    BY <2>1, AssignedCases
  <2> QED
    BY <1>1, <2>2 DEF Values, ByteRanges
<1>3. CASE \E m \in Links : a = LinkTo(m)
  <2>1. PICK m \in Links : a = LinkTo(m)
    BY <1>3
  <2>2. \A f \in DOMAIN m : m[f] \in Params \X Nat
    BY DEF Links
  <2>3. [f \in Fields |-> IF f \in DOMAIN m THEN m[f] ELSE v.map[f]] \in [Fields -> Refs]
    BY <1>1, <2>2 DEF Refs
  <2>4. Assigned(v, a) =
          [active |-> v.active, at |-> v.at, array |-> v.array,
           map |-> [f \in Fields |-> IF f \in DOMAIN m THEN m[f] ELSE v.map[f]]]
    BY <2>1, AssignedCases
  <2> QED
    BY <1>1, <2>3, <2>4 DEF Values, ByteRanges
<1>4. CASE \E ref \in Params \X Nat : a = Push(ref)
  <2>1. PICK ref \in Params \X Nat : a = Push(ref)
    BY <1>4
  <2>2. Append(v.array, ref) \in Seq(Params \X Nat)
    BY <1>1
  <2>3. Assigned(v, a) = [active |-> v.active, at |-> v.at,
                          array |-> Append(v.array, ref), map |-> v.map]
    BY <2>1, AssignedCases
  <2> QED
    BY <1>1, <2>2, <2>3 DEF Values, ByteRanges
<1> QED
  BY <1>2, <1>3, <1>4 DEF Assignments

(* The object that retain_value() hands out.                               *)
Fresh(p, o) ==
  o = new_value \/ \E i \in 1 .. Len(param[p]) : o = clear(p, param[p][i])

(* What retain_value() hands out is a value, new or used before.           *)
LEMMA FreshType ==
  ASSUME Filed, NEW p \in Params, NEW o, Fresh(p, o)
  PROVE  o \in Values
<1>1. \A i \in 1 .. Len(param[p]) : param[p][i] \in Values
  BY DEF Filed
<1> QED
  BY <1>1, ClearType, NewValueType DEF Fresh

(* retain_value() hands out the object at the index, and leaves the others *)
(* alone.                                                                  *)
LEMMA RetainedObject ==
  ASSUME Filed, NEW p \in Params
  PROVE  /\ retain_value(p) \in Seq(Values)
         /\ Len(retain_value(p)) >= Len(param[p])
         /\ idx[p] + 1 \in 1 .. Len(retain_value(p))
         /\ Fresh(p, retain_value(p)[idx[p] + 1])
         /\ \A i \in 1 .. Len(retain_value(p)) :
              i # idx[p] + 1 => i <= Len(param[p]) /\ retain_value(p)[i] = param[p][i]
<1>1. param[p] \in Seq(Values) /\ idx[p] \in Nat /\ idx[p] <= Len(param[p])
  BY DEF Filed
<1> DEFINE s == param[p]
           n == idx[p]
           r == retain_value(p)
<1>2. CASE n < Len(s)
  <2> DEFINE c == clear(p, s[n + 1])
  <2>1. s[n + 1] \in Values /\ n + 1 \in 1 .. Len(s)
    BY <1>1, <1>2
  <2>2. c \in Values
    BY <2>1, ClearType
  <2>3. r = [s EXCEPT ![n + 1] = c]
    BY <1>2 DEF retain_value
  <2>4. Fresh(p, c)
    BY <2>1 DEF Fresh
  <2> HIDE DEF r, c
  <2>5. [s EXCEPT ![n + 1] = c] \in Seq(Values)
        /\ Len([s EXCEPT ![n + 1] = c]) = Len(s)
    <3> HIDE DEF s, n
    <3> QED
      BY <1>1, <2>1, <2>2 DEF s, n
  <2>6. r \in Seq(Values) /\ Len(r) = Len(s) /\ r[n + 1] = c
        /\ \A i \in 1 .. Len(s) : i # n + 1 => r[i] = s[i]
    BY <1>1, <2>1, <2>3, <2>5
  <2> QED
    BY <1>1, <2>1, <2>4, <2>6 DEF r
<1>3. CASE ~(n < Len(s))
  <2>1. n = Len(s)
    BY <1>1, <1>3
  <2>2. r = Append(s, new_value)
    BY <1>3 DEF retain_value
  <2>3. Fresh(p, new_value) /\ new_value \in Values
    BY NewValueType DEF Fresh
  <2> HIDE DEF r, new_value
  <2>4. r \in Seq(Values) /\ Len(r) = Len(s) + 1 /\ r[n + 1] = new_value
        /\ \A i \in 1 .. Len(s) : r[i] = s[i]
    BY <1>1, <2>1, <2>2, <2>3
  <2> QED
    BY <1>1, <2>1, <2>3, <2>4 DEF r
<1> QED
  BY <1>2, <1>3

(* What a step does to the objects of one parameter.                       *)
LEMMA UpdateOfOne ==
  ASSUME Filed, NEW ps \in SUBSET Params, NEW val, NEW p \in Params,
         p \in DOMAIN val => val[p] \in Assignments /\ (p \in ps \/ idx[p] > 0),
         Update(ps, val)
  PROVE  /\ idx'[p] = IF p \in ps THEN idx[p] + 1 ELSE idx[p]
         /\ param'[p] \in Seq(Values)
         /\ idx'[p] <= Len(param'[p])
         /\ \A i \in 1 .. Len(param'[p]) : i # idx'[p] =>
              i <= Len(param[p]) /\ param'[p][i] = param[p][i]
         /\ p \in ps => \E o : /\ Fresh(p, o)
                               /\ param'[p][idx'[p]] =
                                    IF p \in DOMAIN val THEN Assigned(o, val[p]) ELSE o
         /\ p \notin ps /\ p \in DOMAIN val =>
              param'[p][idx[p]] = Assigned(param[p][idx[p]], val[p])
         /\ p \notin ps /\ p \notin DOMAIN val => param'[p] = param[p]
<1> DEFINE objs == IF p \in ps THEN retain_value(p) ELSE param[p]
           n == idx'[p]
<1>1. param[p] \in Seq(Values) /\ idx[p] \in Nat /\ idx[p] <= Len(param[p])
  BY DEF Filed
<1>2. n = IF p \in ps THEN idx[p] + 1 ELSE idx[p]
  BY DEF Update
<1>3. param'[p] = IF p \in DOMAIN val THEN [objs EXCEPT ![n] = Assigned(@, val[p])]
                  ELSE objs
  BY DEF Update
<1>4. /\ objs \in Seq(Values) /\ n <= Len(objs) /\ n \in Nat
      /\ \A i \in 1 .. Len(objs) : i # n => i <= Len(param[p]) /\ objs[i] = param[p][i]
      /\ p \in ps => n \in 1 .. Len(objs) /\ Fresh(p, objs[n])
      /\ p \notin ps => objs = param[p]
  <2>1. CASE p \in ps
    BY <1>1, <1>2, <2>1, RetainedObject
  <2>2. CASE p \notin ps
    BY <1>1, <1>2, <2>2
  <2> QED
    BY <2>1, <2>2
<1> HIDE DEF objs, n
<1>5. CASE p \notin DOMAIN val
  <2>1. param'[p] = objs
    BY <1>3, <1>5
  <2> QED
    BY <1>2, <1>4, <1>5, <2>1 DEF n
<1>6. CASE p \in DOMAIN val
  <2>1. n \in 1 .. Len(objs) /\ objs[n] \in Values
    <3>1. n > 0
      BY <1>1, <1>2, <1>6
    <3> QED
      BY <1>4, <3>1
  <2> DEFINE b == Assigned(objs[n], val[p])
  <2>2. b \in Values
    BY <1>6, <2>1, AssignedType
  <2>3. param'[p] = [objs EXCEPT ![n] = b]
    BY <1>3, <1>6
  <2>4. b = Assigned(objs[n], val[p])
    OBVIOUS
  <2> HIDE DEF b
  <2>5. [objs EXCEPT ![n] = b] \in Seq(Values) /\ Len([objs EXCEPT ![n] = b]) = Len(objs)
    BY <1>4, <2>1, <2>2
  <2>6. param'[p] \in Seq(Values) /\ Len(param'[p]) = Len(objs) /\ param'[p][n] = b
        /\ \A i \in 1 .. Len(objs) : i # n => param'[p][i] = objs[i]
    BY <1>4, <2>1, <2>3, <2>5
  <2>7. p \in ps => \E o : Fresh(p, o) /\ param'[p][n] = Assigned(o, val[p])
    BY <1>4, <2>4, <2>6
  <2>8. p \notin ps => param'[p][idx[p]] = Assigned(param[p][idx[p]], val[p])
    BY <1>2, <1>4, <2>4, <2>6
  <2> QED
    BY <1>2, <1>4, <1>6, <2>6, <2>7, <2>8 DEF n
<1> QED
  BY <1>5, <1>6

(* What the step of a module does with Property: it sets plain values to   *)
(* bytes of the packet, links maps to values it retains in the same step,  *)
(* and pushes one of those on an array, retained now or before.            *)
NewLinks(ps) == {m \in Links : \A f \in DOMAIN m : \E q \in ps : m[f] = Retained(q)}
Sound(ps, val) ==
  /\ ps \in SUBSET Params
  /\ DOMAIN val \subseteq Params
  /\ \A p \in DOMAIN val : p \in ps \/ (p \in Arrays /\ idx[p] > 0)
  /\ \A p \in DOMAIN val : p \in Arrays => \E q \in ps : val[p] = Push(Retained(q))
  /\ \A p \in DOMAIN val : p \in Maps => \E m \in NewLinks(ps) : val[p] = LinkTo(m)
  /\ \A p \in ps \cap Maps :
       /\ p \in DOMAIN val
       /\ p[2] = "records" =>
            \E m \in NewLinks(ps) : val[p] = LinkTo(m) /\ {"name", "type"} \subseteq DOMAIN m
  /\ \A p \in DOMAIN val : p \notin Arrays \cup Maps =>
       \E b \in ByteRanges : val[p] = SetTo(b) /\ b.pkt = pkt /\ InPacket(p, b)

(* An array is no map.                                                     *)
LEMMA MapsAreNotArrays == Maps \cap Arrays = {}
<1>1. \A t \in 0 .. 3 : Section[t + 1] \in {"question", "answer", "authority", "additional"}
  BY DEF Section
<1>2. \A p \in Arrays : p[2] \notin {"_option", "records"}
  BY <1>1 DEF Arrays, p_record
<1> QED
  BY <1>2 DEF Maps

(* The object that retain_value() hands out shows nothing of its past: it  *)
(* is not active, its array is empty and so is its map - but for the name  *)
(* and the type of a record, which are set again at once.                  *)
LEMMA FreshIsClean ==
  ASSUME Filed, KindsApart, NEW p \in Params, NEW o, Fresh(p, o)
  PROVE  /\ ~o.active
         /\ o.array = <<>>
         /\ \A f \in Fields :
              p[2] # "records" \/ p \in Arrays \/ f = "data" => o.map[f] = NullRef
<1>1. CASE o = new_value
  BY <1>1 DEF new_value
<1>2. CASE \E i \in 1 .. Len(param[p]) : o = clear(p, param[p][i])
  <2>1. PICK i \in 1 .. Len(param[p]) : o = clear(p, param[p][i])
    BY <1>2
  <2> DEFINE v == param[p][i]
  <2>2. v \in Values
    BY DEF Filed
  <2>3. v.map \in [Fields -> Refs] /\ DOMAIN v = {"active", "at", "array", "map"}
    BY <2>2 DEF Values
  <2>4. /\ p \in Arrays \cup Maps => ~v.active
        /\ p \notin Arrays => v.array = <<>>
        /\ p \notin Maps => \A f \in Fields : v.map[f] = NullRef
    BY DEF KindsApart
  <2> HIDE DEF v
  <2>5. o = clear(p, v)
    BY <2>1 DEF v
  <2>6. CASE p \in Arrays
    <3>1. p \notin Maps
      BY <2>6, MapsAreNotArrays
    <3>2. o = [v EXCEPT !.array = <<>>]
      BY <2>5, <2>6, <3>1 DEF clear, Array_clear, Maps
    <3> QED
      BY <2>3, <2>4, <2>6, <3>1, <3>2
  <2>7. CASE p \notin Arrays /\ p[2] = "_option"
    <3>1. p \in Maps
      BY <2>7 DEF Maps
    <3>2. o = [v EXCEPT !.map = [f \in Fields |-> NullRef]]
      BY <2>5, <2>7 DEF clear, Option_clear
    <3> QED
      BY <2>3, <2>4, <2>7, <3>1, <3>2
  <2>8. CASE p \notin Arrays /\ p[2] = "records"
    <3>1. p \in Maps
      BY <2>8 DEF Maps
    <3>2. o = [v EXCEPT !.map["data"] = NullRef]
      BY <2>5, <2>8 DEF clear, NSRecord_clear
    <3>3. "data" \in Fields
      BY DEF Fields
    <3>4. o.map = [v.map EXCEPT !["data"] = NullRef]
      BY <2>3, <3>2
    <3>5. o.active = v.active /\ o.array = v.array
      BY <2>3, <3>2
    <3>6. o.map["data"] = NullRef
      BY <2>3, <3>3, <3>4
    <3> QED
      BY <2>4, <2>8, <3>1, <3>5, <3>6
  <2>9. CASE p \notin Arrays /\ p[2] \notin {"_option", "records"}
    <3>1. p \notin Maps
      BY <2>9 DEF Maps
    <3>2. o = [v EXCEPT !.active = FALSE]
      BY <2>5, <2>9 DEF clear, Value_clear
    <3> QED
      BY <2>3, <2>4, <2>9, <3>1, <3>2
  <2> QED
    BY <2>6, <2>7, <2>8, <2>9
<1> QED
  BY <1>1, <1>2 DEF Fresh

(* A sound step refers to objects that it retains, and changes those that  *)
(* are in use.                                                             *)
LEMMA SoundIsTyped ==
  ASSUME Filed, NEW ps, NEW val, Sound(ps, val)
  PROVE  /\ \A q \in ps : Retained(q) \in Params \X Nat /\ Retained(q) # NullRef
         /\ \A p \in DOMAIN val : val[p] \in Assignments /\ (p \in ps \/ idx[p] > 0)
<1>1. ASSUME NEW q \in ps PROVE Retained(q) \in Params \X Nat /\ Retained(q) # NullRef
  <2>1. q \in Params /\ idx[q] \in Nat
    BY DEF Sound, Filed
  <2>2. idx[q] + 1 \in Nat
    BY <2>1
  <2> QED
    BY <2>1, <2>2 DEF Retained, NullRef
<1>2. ASSUME NEW p \in DOMAIN val PROVE val[p] \in Assignments
  <2>1. CASE p \in Arrays
    BY <1>1, <2>1 DEF Sound, Assignments
  <2>2. CASE p \in Maps
    <3>1. PICK m \in NewLinks(ps) : val[p] = LinkTo(m)
      BY <2>2 DEF Sound
    <3>2. m \in Links
      BY DEF NewLinks
    <3> QED
      BY <3>1, <3>2 DEF Assignments
  <2>3. CASE p \notin Arrays \cup Maps
    BY <2>3 DEF Sound, Assignments
  <2> QED
    BY <2>1, <2>2, <2>3
<1>3. \A p \in DOMAIN val : p \in ps \/ idx[p] > 0
  BY DEF Sound
<1> QED
  BY <1>1, <1>2, <1>3

(* The newest object of a plain parameter points into this packet ...      *)
LEMMA NewestPlain ==
  ASSUME Filed, KindsApart, NEW ps, NEW val, Sound(ps, val), Update(ps, val),
         NEW p \in ps, p \notin Arrays \cup Maps
  PROVE  LET v == param'[p][idx'[p]]
         IN /\ v.active => v.at.pkt = pkt /\ InPacket(p, v.at)
            /\ v.array = <<>>
            /\ \A f \in Fields : v.map[f] = NullRef
<1> DEFINE v == param'[p][idx'[p]]
<1>1. p \in Params /\ ps \in SUBSET Params
  BY DEF Sound
<1>2. p[2] # "records"
  BY <1>1 DEF Maps
<1>3. PICK o : Fresh(p, o) /\ v = IF p \in DOMAIN val THEN Assigned(o, val[p]) ELSE o
  BY <1>1, SoundIsTyped, UpdateOfOne
<1>4. ~o.active /\ o.array = <<>> /\ \A f \in Fields : o.map[f] = NullRef
  BY <1>1, <1>2, <1>3, FreshIsClean
<1>5. o \in Values
  BY <1>1, <1>3, FreshType
<1> HIDE DEF v
<1>6. CASE p \notin DOMAIN val
  BY <1>3, <1>4, <1>6 DEF v
<1>7. CASE p \in DOMAIN val
  <2>1. PICK b \in ByteRanges : val[p] = SetTo(b) /\ b.pkt = pkt /\ InPacket(p, b)
    BY <1>7 DEF Sound
  <2>2. v = [active |-> TRUE, at |-> b, array |-> o.array, map |-> o.map]
    BY <1>3, <1>5, <1>7, <2>1, AssignedCases
  <2>3. v.at = b /\ v.array = o.array /\ v.map = o.map
    BY <2>2
  <2> QED
    BY <1>4, <2>1, <2>3 DEF v
<1> QED
  BY <1>6, <1>7

(* ... that of a map refers to values retained in this step ...            *)
LEMMA NewestMap ==
  ASSUME Filed, KindsApart, NEW ps, NEW val, Sound(ps, val), Update(ps, val),
         NEW p \in ps, p \in Maps
  PROVE  LET v == param'[p][idx'[p]]
         IN /\ ~v.active
            /\ v.array = <<>>
            /\ \A f \in Fields : v.map[f] = NullRef \/ \E q \in ps : v.map[f] = Retained(q)
            /\ \A m : val[p] = LinkTo(m) =>
                 v.map["data"] = IF "data" \in DOMAIN m THEN m["data"] ELSE NullRef
<1> DEFINE v == param'[p][idx'[p]]
<1>1. p \in Params /\ ps \in SUBSET Params /\ p \in DOMAIN val
  BY DEF Sound
<1>2. PICK o : Fresh(p, o) /\ v = Assigned(o, val[p])
  <2>1. val[p] \in Assignments
    BY <1>1, SoundIsTyped
  <2>2. \E o : Fresh(p, o) /\ param'[p][idx'[p]] =
                             IF p \in DOMAIN val THEN Assigned(o, val[p]) ELSE o
    BY <1>1, <2>1, UpdateOfOne
  <2> QED
    BY <1>1, <2>2
<1>3. p \notin Arrays
  BY MapsAreNotArrays
<1>4. /\ ~o.active /\ o.array = <<>> /\ o.map["data"] = NullRef
      /\ p[2] # "records" => \A f \in Fields : o.map[f] = NullRef
  BY <1>1, <1>2, <1>3, FreshIsClean DEF Fields
<1>5. o \in Values
  BY <1>1, <1>2, FreshType
<1> HIDE DEF v
<1>6. ASSUME NEW m, val[p] = LinkTo(m)
      PROVE  /\ v.active = o.active /\ v.array = o.array
             /\ \A f \in Fields : v.map[f] = IF f \in DOMAIN m THEN m[f] ELSE o.map[f]
  <2>1. v = [active |-> o.active, at |-> o.at, array |-> o.array,
             map |-> [f \in Fields |-> IF f \in DOMAIN m THEN m[f] ELSE o.map[f]]]
    BY <1>2, <1>5, <1>6, AssignedCases
  <2> QED
    BY <2>1
<1>7. PICK m \in NewLinks(ps) : /\ val[p] = LinkTo(m)
                                /\ p[2] = "records" => {"name", "type"} \subseteq DOMAIN m
  BY <1>1 DEF Sound
<1>8. \A f \in Fields : v.map[f] = NullRef \/ \E q \in ps : v.map[f] = Retained(q)
  <2> TAKE f \in Fields
  <2>1. CASE f \in DOMAIN m
    BY <1>6, <1>7, <2>1 DEF NewLinks
  <2>2. CASE f \notin DOMAIN m
    <3>1. v.map[f] = o.map[f]
      BY <1>6, <1>7, <2>2
    <3>2. p[2] = "records" => f = "data"
      BY <1>7, <2>2 DEF Fields
    <3> QED
      BY <1>4, <3>1, <3>2
  <2> QED
    BY <2>1, <2>2
<1>9. ASSUME NEW mm, val[p] = LinkTo(mm)
      PROVE  v.map["data"] = IF "data" \in DOMAIN mm THEN mm["data"] ELSE NullRef
  BY <1>4, <1>6, <1>9 DEF Fields
<1>10. ~v.active /\ v.array = <<>>
  BY <1>4, <1>6, <1>7
<1> QED
  BY <1>8, <1>9, <1>10 DEF v

(* ... and that of an array gets one of them in addition.                  *)
LEMMA NewestArray ==
  ASSUME Filed, KindsApart, NEW ps, NEW val, Sound(ps, val), Update(ps, val),
         NEW p \in ps \cup DOMAIN val, p \in Arrays
  PROVE  LET v == param'[p][idx'[p]]
             before == IF p \in ps THEN <<>> ELSE param[p][idx[p]].array
         IN /\ ~v.active
            /\ before \in Seq(Params \X Nat)
            /\ \A f \in Fields : v.map[f] = NullRef
            /\ p \notin DOMAIN val => v.array = before
            /\ \A q \in ps : p \in DOMAIN val /\ val[p] = Push(Retained(q)) =>
                 v.array = Append(before, Retained(q))
<1> DEFINE v == param'[p][idx'[p]]
           before == IF p \in ps THEN <<>> ELSE param[p][idx[p]].array
<1>1. p \in Params /\ ps \in SUBSET Params
  BY DEF Sound
<1>2. p \notin Maps
  BY MapsAreNotArrays
<1>3. PICK o \in Values :
        /\ ~o.active /\ o.array = before /\ \A f \in Fields : o.map[f] = NullRef
        /\ v = IF p \in DOMAIN val THEN Assigned(o, val[p]) ELSE o
  <2>1. CASE p \in ps
    <3>1. PICK o : Fresh(p, o) /\ v = IF p \in DOMAIN val THEN Assigned(o, val[p]) ELSE o
      BY <1>1, <2>1, SoundIsTyped, UpdateOfOne
    <3>2. ~o.active /\ o.array = <<>> /\ \A f \in Fields : o.map[f] = NullRef
      BY <1>1, <3>1, FreshIsClean
    <3>3. o \in Values
      BY <1>1, <3>1, FreshType
    <3> QED
      BY <2>1, <3>1, <3>2, <3>3
  <2>2. CASE p \notin ps
    <3> DEFINE o == param[p][idx[p]]
    <3>1. p \in DOMAIN val /\ idx[p] > 0
      BY <2>2 DEF Sound
    <3>2. idx[p] \in 1 .. Len(param[p]) /\ o \in Values
      BY <1>1, <3>1 DEF Filed
    <3>3. ~o.active /\ \A f \in Fields : o.map[f] = NullRef
      BY <1>1, <1>2, <3>2 DEF KindsApart
    <3>4. idx'[p] = idx[p] /\ v = Assigned(o, val[p])
      <4>1. val[p] \in Assignments
        BY <3>1, SoundIsTyped
      <4>2. idx'[p] = idx[p] /\ param'[p][idx[p]] = Assigned(param[p][idx[p]], val[p])
        BY <1>1, <2>2, <3>1, <4>1, UpdateOfOne
      <4> QED
        BY <4>2
    <3> QED
      BY <2>2, <3>1, <3>2, <3>3, <3>4
  <2> QED
    BY <2>1, <2>2
<1>4. before \in Seq(Params \X Nat)
  BY <1>3 DEF Values
<1> HIDE DEF v, before
<1>5. ASSUME NEW q \in ps, p \in DOMAIN val, val[p] = Push(Retained(q))
      PROVE  v.active = o.active /\ v.map = o.map /\ v.array = Append(before, Retained(q))
  <2>1. Retained(q) \in Params \X Nat
    BY SoundIsTyped
  <2>2. v = [active |-> o.active, at |-> o.at, array |-> Append(o.array, Retained(q)),
             map |-> o.map]
    BY <1>3, <1>5, <2>1, AssignedCases
  <2> QED
    BY <1>3, <2>2
<1>6. p \in DOMAIN val => \E q \in ps : val[p] = Push(Retained(q))
  BY DEF Sound
<1>7. ~v.active /\ \A f \in Fields : v.map[f] = NullRef
  BY <1>3, <1>5, <1>6
<1>8. p \notin DOMAIN val => v.array = before
  BY <1>3
<1> QED
  BY <1>4, <1>5, <1>7, <1>8 DEF v, before

(* All other objects stay as they are, and in sight if they were.          *)
LEMMA OthersUntouched ==
  ASSUME Filed, NEW ps, NEW val, Sound(ps, val), Update(ps, val), NEW p \in Params
  PROVE  /\ idx'[p] \in Nat
         /\ idx'[p] = IF p \in ps THEN idx[p] + 1 ELSE idx[p]
         /\ param'[p] \in Seq(Values)
         /\ idx'[p] <= Len(param'[p])
         /\ \A i \in 1 .. Len(param'[p]) :
              i # idx'[p] \/ p \notin ps \cup DOMAIN val =>
                /\ i \in 1 .. Len(param[p])
                /\ param'[p][i] = param[p][i]
                /\ i \in 1 .. idx'[p] => i \in 1 .. idx[p]
<1>1. ps \in SUBSET Params /\ idx[p] \in Nat /\ param[p] \in Seq(Values)
  BY DEF Sound, Filed
<1>2. p \in DOMAIN val => val[p] \in Assignments /\ (p \in ps \/ idx[p] > 0)
  BY SoundIsTyped
<1>3. /\ idx'[p] = IF p \in ps THEN idx[p] + 1 ELSE idx[p]
      /\ param'[p] \in Seq(Values)
      /\ idx'[p] <= Len(param'[p])
      /\ \A i \in 1 .. Len(param'[p]) : i # idx'[p] =>
           i <= Len(param[p]) /\ param'[p][i] = param[p][i]
      /\ p \notin ps /\ p \notin DOMAIN val => param'[p] = param[p]
  <2>1. CASE p \notin DOMAIN val
    <3>1. /\ idx'[p] = IF p \in ps THEN idx[p] + 1 ELSE idx[p]
          /\ param'[p] = IF p \in ps THEN retain_value(p) ELSE param[p]
      BY <2>1 DEF Update
    <3>2. CASE p \in ps
      BY <1>1, <2>1, <3>1, <3>2, RetainedObject
    <3>3. CASE p \notin ps
      BY <1>1, <2>1, <3>1, <3>3 DEF Filed
    <3> QED
      BY <3>2, <3>3
  <2>2. CASE p \in DOMAIN val
    <3>1. val[p] \in Assignments /\ (p \in ps \/ idx[p] > 0)
      BY <1>2, <2>2
    <3> QED
      BY <1>1, <2>2, <3>1, UpdateOfOne
  <2> QED
    BY <2>1, <2>2
<1> QED
  BY <1>1, <1>3

(* Both vectors have grown far enough for every parameter in use, and      *)
(* every index stays within its objects.                                   *)
LEMMA UpdateKeepsFiled ==
  ASSUME Filed, NEW ps, NEW val, Sound(ps, val), Update(ps, val)
  PROVE  Filed'
<1>1. ps \in SUBSET Params
  BY DEF Sound
<1>2. size' = Grown(ps) /\ DOMAIN param' = Params /\ DOMAIN idx' = Params
      /\ param' = [p \in Params |-> param'[p]] /\ idx' = [p \in Params |-> idx'[p]]
  BY DEF Update
<1>3. \A p \in Params : idx'[p] \in Nat /\ param'[p] \in Seq(Values)
                        /\ idx'[p] <= Len(param'[p])
  BY OthersUntouched
<1>4. param' \in [Params -> Seq(Values)] /\ idx' \in [Params -> Nat]
  BY <1>2, <1>3
<1>5. /\ Grown(ps) \in 0 .. Len(params_) /\ size <= Grown(ps)
      /\ \A p \in ps : Psize[p] <= Grown(ps)
  BY <1>1, GrownCovers
<1>6. ASSUME NEW p \in Params, idx'[p] > 0 PROVE Psize[p] <= size'
  <2>1. p \in ps \/ idx[p] > 0
    BY <1>6, OthersUntouched
  <2>2. CASE p \in ps
    BY <1>2, <1>5, <2>2
  <2>3. CASE idx[p] > 0
    <3>1. Psize[p] <= size /\ size \in 0 .. Len(params_) /\ Psize[p] \in 1 .. Len(params_)
          /\ Len(params_) \in Nat
      BY <2>3, TablesAssumption DEF Filed
    <3> QED
      BY <1>2, <1>5, <3>1
  <2> QED
    BY <2>1, <2>2, <2>3
<1>7. size' \in 0 .. Len(params_)
  BY <1>2, <1>5
<1> QED
  BY <1>3, <1>4, <1>6, <1>7 DEF Filed

(* Arrays stay arrays, maps stay maps and plain values stay plain.         *)
LEMMA UpdateKeepsKinds ==
  ASSUME Filed, KindsApart, NEW ps, NEW val, Sound(ps, val), Update(ps, val)
  PROVE  KindsApart'
<1> SUFFICES ASSUME NEW p \in Params, NEW i \in 1 .. Len(param'[p])
             PROVE  /\ p \in Arrays \cup Maps => ~param'[p][i].active
                    /\ p \notin Arrays => param'[p][i].array = <<>>
                    /\ p \notin Maps => \A f \in Fields : param'[p][i].map[f] = NullRef
  BY DEF KindsApart
<1>1. CASE i # idx'[p] \/ p \notin ps \cup DOMAIN val
  <2>1. i \in 1 .. Len(param[p]) /\ param'[p][i] = param[p][i]
    BY <1>1, OthersUntouched
  <2> QED
    BY <2>1 DEF KindsApart
<1>2. CASE i = idx'[p] /\ p \in ps \cup DOMAIN val
  <2>1. CASE p \in Arrays
    <3>1. p \notin Maps
      BY <2>1, MapsAreNotArrays
    <3>2. ~param'[p][idx'[p]].active /\ \A f \in Fields : param'[p][idx'[p]].map[f] = NullRef
      BY <1>2, <2>1, NewestArray
    <3> QED
      BY <1>2, <2>1, <3>1, <3>2
  <2>2. CASE p \in Maps
    <3>1. p \notin Arrays /\ p \in ps
      BY <1>2, <2>2, MapsAreNotArrays DEF Sound
    <3>2. ~param'[p][idx'[p]].active /\ param'[p][idx'[p]].array = <<>>
      BY <2>2, <3>1, NewestMap
    <3> QED
      BY <1>2, <2>2, <3>1, <3>2
  <2>3. CASE p \notin Arrays \cup Maps
    <3>1. p \in ps
      BY <1>2, <2>3 DEF Sound
    <3>2. /\ param'[p][idx'[p]].array = <<>>
          /\ \A f \in Fields : param'[p][idx'[p]].map[f] = NullRef
      BY <2>3, <3>1, NewestPlain
    <3> QED
      BY <1>2, <2>3, <3>2
  <2> QED
    BY <2>1, <2>2, <2>3
<1> QED
  BY <1>1, <1>2

(* The values in sight stay within the packet.                             *)
LEMMA UpdateKeepsFit ==
  ASSUME Filed, KindsApart, ValuesFit, NEW ps, NEW val, Sound(ps, val),
         Update(ps, val), pd'.end = pd.end
  PROVE  ValuesFit'
<1> SUFFICES ASSUME NEW p \in Params, NEW i \in 1 .. idx'[p], param'[p][i].active
             PROVE  InPacket(p, param'[p][i].at)
  BY DEF ValuesFit, Visible, InPacket
<1>1. i \in 1 .. Len(param'[p])
  BY OthersUntouched
<1>2. CASE i # idx'[p] \/ p \notin ps \cup DOMAIN val
  <2>1. i \in 1 .. idx[p] /\ param'[p][i] = param[p][i]
    BY <1>1, <1>2, OthersUntouched
  <2> QED
    BY <2>1 DEF ValuesFit, Visible
<1>3. CASE i = idx'[p] /\ p \in ps \cup DOMAIN val
  <2>1. p \notin Arrays \cup Maps
    <3>1. KindsApart'
      BY UpdateKeepsKinds
    <3> QED
      BY <1>1, <3>1 DEF KindsApart
  <2>2. p \in ps
    BY <1>3, <2>1 DEF Sound
  <2> QED
    BY <1>3, <2>1, <2>2, NewestPlain
<1> QED
  BY <1>2, <1>3

(* References to a value that is visible, and that is so after the step.   *)
Seen(ref) == ref = NullRef \/ ref[2] \in 1 .. idx[ref[1]]
SeenThen(ref) == ref = NullRef \/ ref[2] \in 1 .. idx'[ref[1]]

(* NothingStale, one reference at a time.                                  *)
LEMMA StaleBySeen ==
  NothingStale <=>
    \A p \in Params : \A i \in 1 .. idx[p] :
      /\ param[p][i].active => param[p][i].at.pkt = pkt
      /\ \A k \in 1 .. Len(param[p][i].array) : Seen(param[p][i].array[k])
      /\ \A f \in Fields : Seen(param[p][i].map[f])
BY DEF NothingStale, Visible, Seen

(* A value in sight stays in sight for the rest of the packet.             *)
LEMMA SeenStays ==
  ASSUME Filed, NEW ps, NEW val, Sound(ps, val), Update(ps, val),
         NEW ref \in Refs, Seen(ref)
  PROVE  SeenThen(ref)
<1>1. CASE ref = NullRef
  BY <1>1 DEF SeenThen
<1>2. CASE ref # NullRef
  <2>1. ref[1] \in Params /\ ref[2] \in 1 .. idx[ref[1]]
    BY <1>2 DEF Refs, Seen
  <2>2. /\ idx'[ref[1]] = IF ref[1] \in ps THEN idx[ref[1]] + 1 ELSE idx[ref[1]]
        /\ idx[ref[1]] \in Nat
    BY <2>1, OthersUntouched DEF Filed
  <2> QED
    BY <2>1, <2>2 DEF SeenThen
<1> QED
  BY <1>1, <1>2

(* The object retained in the step is in sight after it.                   *)
LEMMA NewIsSeen ==
  ASSUME Filed, NEW ps, NEW val, Sound(ps, val), Update(ps, val), NEW q \in ps
  PROVE  SeenThen(Retained(q))
<1>1. q \in Params
  BY DEF Sound
<1>2. idx'[q] = idx[q] + 1 /\ idx[q] \in Nat
  BY <1>1, OthersUntouched DEF Filed
<1> QED
  BY <1>2 DEF SeenThen, Retained

(* An object used again shows nothing of what it held before.              *)
LEMMA UpdateKeepsFresh ==
  ASSUME Filed, KindsApart, NothingStale, NEW ps, NEW val, Sound(ps, val),
         Update(ps, val), pkt' = pkt
  PROVE  NothingStale'
<1> DEFINE OK(w) == /\ w.active => w.at.pkt = pkt
                    /\ \A k \in 1 .. Len(w.array) : SeenThen(w.array[k])
                    /\ \A f \in Fields : SeenThen(w.map[f])
<1> SUFFICES ASSUME NEW p \in Params, NEW i \in 1 .. idx'[p]
             PROVE  OK(param'[p][i])
  BY DEF NothingStale, Visible, SeenThen
<1>1. i \in 1 .. Len(param'[p])
  BY OthersUntouched
<1>2. CASE i # idx'[p] \/ p \notin ps \cup DOMAIN val
  <2>1. i \in 1 .. idx[p] /\ param'[p][i] = param[p][i] /\ i \in 1 .. Len(param[p])
    BY <1>1, <1>2, OthersUntouched
  <2>2. PICK w \in Values : w = param[p][i]
    BY <2>1 DEF Filed
  <2>3. /\ w.active => w.at.pkt = pkt
        /\ \A k \in 1 .. Len(w.array) : Seen(w.array[k])
        /\ \A f \in Fields : Seen(w.map[f])
    BY <2>1, <2>2, StaleBySeen
  <2>4. /\ \A k \in 1 .. Len(w.array) : w.array[k] \in Refs
        /\ \A f \in Fields : w.map[f] \in Refs
    BY DEF Values, Refs
  <2>5. \A ref \in Refs : Seen(ref) => SeenThen(ref)
    BY SeenStays
  <2>6. OK(w)
    BY <2>3, <2>4, <2>5
  <2> QED
    BY <2>1, <2>2, <2>6
<1>3. CASE i = idx'[p] /\ p \in ps \cup DOMAIN val
  <2>0. PICK w : w = param'[p][i]
    OBVIOUS
  <2>1. SeenThen(NullRef) /\ \A q \in ps : SeenThen(Retained(q))
    BY NewIsSeen DEF SeenThen
  <2>2. CASE p \in Arrays
    <3> DEFINE before == IF p \in ps THEN <<>> ELSE param[p][idx[p]].array
    <3>1. /\ ~w.active
          /\ before \in Seq(Params \X Nat)
          /\ \A f \in Fields : w.map[f] = NullRef
          /\ p \notin DOMAIN val => w.array = before
          /\ \A q \in ps : p \in DOMAIN val /\ val[p] = Push(Retained(q)) =>
               w.array = Append(before, Retained(q))
      BY <1>3, <2>0, <2>2, NewestArray
    <3>2. \A k \in 1 .. Len(before) : SeenThen(before[k])
      <4>1. CASE p \in ps
        BY <4>1
      <4>2. CASE p \notin ps
        <5>1. idx[p] > 0 /\ before = param[p][idx[p]].array
          BY <1>3, <4>2 DEF Sound
        <5>2. idx[p] \in 1 .. idx[p]
          BY <5>1 DEF Filed
        <5>3. \A k \in 1 .. Len(before) : Seen(before[k])
          BY <5>1, <5>2, StaleBySeen
        <5>4. \A k \in 1 .. Len(before) : before[k] \in Refs
          BY <3>1 DEF Refs
        <5> HIDE DEF before
        <5> QED
          BY <5>3, <5>4, SeenStays
      <4> QED
        BY <4>1, <4>2
    <3> HIDE DEF before
    <3>3. CASE p \notin DOMAIN val
      BY <2>0, <2>1, <3>1, <3>2, <3>3
    <3>4. CASE p \in DOMAIN val
      <4>1. PICK q \in ps : val[p] = Push(Retained(q))
        BY <2>2, <3>4 DEF Sound
      <4>2. PICK ref \in Params \X Nat : ref = Retained(q) /\ SeenThen(ref)
        BY <2>1, SoundIsTyped
      <4>3. w.array = Append(before, ref)
        BY <3>1, <3>4, <4>1, <4>2
      <4>4. \A k \in 1 .. Len(w.array) :
              w.array[k] = ref \/ (k \in 1 .. Len(before) /\ w.array[k] = before[k])
        BY <3>1, <4>3
      <4> QED
        BY <2>0, <2>1, <3>1, <3>2, <4>2, <4>4
    <3> QED
      BY <2>0, <3>3, <3>4
  <2>3. CASE p \in Maps
    <3>1. p \in ps
      BY <1>3, <2>3, MapsAreNotArrays DEF Sound
    <3>2. /\ ~w.active /\ w.array = <<>>
          /\ \A f \in Fields : w.map[f] = NullRef \/ \E q \in ps : w.map[f] = Retained(q)
      BY <1>3, <2>0, <2>3, <3>1, NewestMap
    <3> QED
      BY <2>0, <2>1, <3>2
  <2>4. CASE p \notin Arrays \cup Maps
    <3>1. p \in ps
      BY <1>3, <2>4 DEF Sound
    <3>2. /\ w.active => w.at.pkt = pkt
          /\ w.array = <<>> /\ \A f \in Fields : w.map[f] = NullRef
      BY <1>3, <2>0, <2>4, <3>1, NewestPlain
    <3> QED
      BY <2>0, <2>1, <3>2
  <2> QED
    BY <2>2, <2>3, <2>4
<1> QED
  BY <1>2, <1>3

(* Property, as the steps of all modules keep it.                          *)
PropertyInv == Filed /\ KindsApart /\ ValuesFit /\ NothingStale

(* What is left of the step for the rest of the proof: module m may have   *)
(* retained values, none is taken back, and those set before are as before.*)
FilledBy(m) ==
  /\ \A p \in Params : idx[p] <= idx'[p]
  /\ \A p \in Params : p[1] # m => idx'[p] = idx[p]
  /\ \A p \in Params : \A i \in 1 .. idx[p] :
       param[p][i].active => param'[p][i] = param[p][i]

(* A sound step keeps what Property promises, and touches no value that    *)
(* was set before.                                                         *)
LEMMA UpdateKeepsProperty ==
  ASSUME PropertyInv, NEW ps, NEW val, Sound(ps, val), Update(ps, val),
         pkt' = pkt, pd'.end = pd.end, NEW m, \A p \in ps : p[1] = m
  PROVE  PropertyInv' /\ FilledBy(m)
<1>1. PropertyInv'
  BY UpdateKeepsFiled, UpdateKeepsKinds, UpdateKeepsFit, UpdateKeepsFresh DEF PropertyInv
<1>2. ASSUME NEW p \in Params
      PROVE  idx[p] <= idx'[p] /\ (p[1] # m => idx'[p] = idx[p])
  BY OthersUntouched DEF PropertyInv, Filed
<1>3. ASSUME NEW p \in Params, NEW i \in 1 .. idx[p], param[p][i].active
      PROVE  param'[p][i] = param[p][i]
  <2>1. i \in 1 .. Len(param[p]) /\ idx[p] \in Nat
    BY DEF PropertyInv, Filed
  <2>2. p \notin Arrays \cup Maps
    BY <1>3, <2>1 DEF PropertyInv, KindsApart
  <2>3. /\ idx'[p] = IF p \in ps THEN idx[p] + 1 ELSE idx[p]
        /\ idx'[p] <= Len(param'[p]) /\ param'[p] \in Seq(Values)
    BY OthersUntouched DEF PropertyInv
  <2>4. p \in DOMAIN val => p \in ps
    BY <2>2 DEF Sound
  <2>5. i # idx'[p] \/ p \notin ps \cup DOMAIN val
    BY <2>1, <2>3, <2>4
  <2>6. i \in 1 .. Len(param'[p])
    BY <2>1, <2>3
  <2> QED
    BY <2>5, <2>6, OthersUntouched DEF PropertyInv
<1> QED
  BY <1>1, <1>2, <1>3 DEF FilledBy

-----------------------------------------------------------------------------
(* The steps of the modules                                                *)

(* Bytes that parameter p may be set to.                                   *)
Here(p, b) == b \in ByteRanges /\ b.pkt = pkt /\ InPacket(p, b)

(* Bytes that end within the packet, or within what the parameter may      *)
(* overshoot it by.                                                        *)
LEMMA BytesFit ==
  ASSUME pkt \in 0 .. MaxPkt, CursorOK(pd), NEW off \in Nat, NEW len \in Nat, NEW p,
         off + len <= pd.end + Overshoot(p)
  PROVE  Here(p, Bytes(off, len))
BY DEF Here, Bytes, ByteRanges, InPacket

(* Bytes that end within the packet suit every parameter.                  *)
LEMMA BytesInPacket ==
  ASSUME pkt \in 0 .. MaxPkt, CursorOK(pd), NEW off \in Nat, NEW len \in Nat, NEW p,
         off + len <= pd.end
  PROVE  Here(p, Bytes(off, len))
<1>1. Overshoot(p) = 0 \/ Overshoot(p) = 43
  BY DEF Overshoot
<1>2. pd.end \in Nat
  BY DEF CursorOK
<1>3. off + len <= pd.end + Overshoot(p)
  BY <1>1, <1>2
<1> QED
  BY <1>3, BytesFit

(* So does a length of zero, wherever the pointer leads.                   *)
LEMMA NoBytesFit ==
  ASSUME pkt \in 0 .. MaxPkt, NEW off \in Nat \cup {NullPtr}, NEW p
  PROVE  Here(p, Bytes(off, 0))
BY DEF Here, Bytes, ByteRanges, InPacket

(* Parameters with plain values.                                           *)
Plains == Params \ (Arrays \cup Maps)

(* The arrays by their names.                                              *)
LEMMA ArrayNames == \A p \in Arrays :
  p[2] \in {"options", "question", "answer", "authority", "additional"}
<1>1. \A t \in 0 .. 3 : Section[t + 1] \in {"question", "answer", "authority", "additional"}
  BY DEF Section
<1> QED
  BY <1>1 DEF Arrays, p_record

(* The parameters that the modules set to bytes.                           *)
LEMMA PlainParams ==
  /\ \A m \in Modules : <<m, "hdr">> \in Plains
  /\ \A m \in NsMods : \A a \in Fields : <<m, a>> \in Plains
  /\ \A a \in {"hw_src", "pr_src", "hw_dst", "pr_dst"} : <<"ARP", a>> \in Plains
  /\ \A a \in {"opt", "data"} : <<"IPv4", a>> \in Plains
  /\ \A a \in {"optdata", "segment", "session", "data", "rtt_3wh"} : <<"TCP", a>> \in Plains
  /\ \A a \in {"client_hw_addr", "names", "_opt_type", "_opt_data"} : <<"DHCP", a>> \in Plains
<1>1. ASSUME NEW m, NEW a, <<m, a>> \in Params,
             a \notin {"options", "question", "answer", "authority", "additional",
                       "_option", "records"}
      PROVE  <<m, a>> \in Plains
  BY <1>1, ArrayNames DEF Plains, Maps
<1>2. \A m \in Modules : <<m, "hdr">> \in Params
  BY DEF Modules, Params, NsMods
<1>3. \A m \in NsMods : \A a \in Fields : <<m, a>> \in Params
  BY DEF Params, Fields
<1>4. \A a \in {"hw_src", "pr_src", "hw_dst", "pr_dst"} : <<"ARP", a>> \in Params
  BY DEF Params
<1>5. \A a \in {"opt", "data"} : <<"IPv4", a>> \in Params
  BY DEF Params
<1>6. \A a \in {"optdata", "segment", "session", "data", "rtt_3wh"} : <<"TCP", a>> \in Params
  BY DEF Params
<1>7. \A a \in {"client_hw_addr", "names", "_opt_type", "_opt_data"} :
        <<"DHCP", a>> \in Params
  BY DEF Params
<1> QED
  BY <1>1, <1>2, <1>3, <1>4, <1>5, <1>6, <1>7 DEF Fields

(* A module that sets plain parameters of its own.                         *)
LEMMA PutKeepsProperty ==
  ASSUME PropertyInv, NEW m, NEW bytes, Put(m, bytes),
         \A a \in DOMAIN bytes : <<m, a>> \in Plains /\ Here(<<m, a>>, bytes[a]),
         pkt' = pkt, pd'.end = pd.end
  PROVE  /\ PropertyInv' /\ FilledBy(m)
         /\ \A a \in DOMAIN bytes : idx'[<<m, a>>] > 0
<1> DEFINE ps == {m} \X DOMAIN bytes
           val == [p \in ps |-> SetTo(bytes[p[2]])]
<1>1. Update(ps, val)
  BY DEF Put
<1>2. \A p \in ps : p[1] = m /\ p[2] \in DOMAIN bytes /\ p = <<m, p[2]>>
  OBVIOUS
<1>3. \A p \in ps : p \in Params /\ p \notin Arrays /\ p \notin Maps
  BY <1>2 DEF Plains
<1>4. \A p \in ps : \E b \in ByteRanges : val[p] = SetTo(b) /\ b.pkt = pkt /\ InPacket(p, b)
  <2> TAKE p \in ps
  <2>1. Here(p, bytes[p[2]]) /\ val[p] = SetTo(bytes[p[2]])
    BY <1>2
  <2> QED
    BY <2>1 DEF Here
<1>5. DOMAIN val = ps
  OBVIOUS
<1> HIDE DEF ps, val
<1>6. Sound(ps, val)
  BY <1>3, <1>4, <1>5 DEF Sound
<1>7. PropertyInv' /\ FilledBy(m)
  BY <1>1, <1>2, <1>6, UpdateKeepsProperty
<1>8. ASSUME NEW a \in DOMAIN bytes PROVE idx'[<<m, a>>] > 0
  <2>1. <<m, a>> \in ps
    BY DEF ps
  <2>2. idx'[<<m, a>>] = idx[<<m, a>>] + 1 /\ idx[<<m, a>>] \in Nat
    BY <1>1, <1>3, <2>1 DEF Update, PropertyInv, Filed
  <2> QED
    BY <2>2
<1> QED
  BY <1>7, <1>8

(* A step that leaves Property alone.                                      *)
LEMMA UnchangedKeepsProperty ==
  ASSUME PropertyInv, UNCHANGED <<size, param, idx, pkt>>, pd'.end = pd.end, NEW m
  PROVE  PropertyInv' /\ FilledBy(m)
<1>1. Filed' /\ KindsApart'
  BY DEF PropertyInv, Filed, KindsApart
<1>2. ValuesFit'
  BY DEF PropertyInv, ValuesFit, Visible, InPacket
<1>3. NothingStale'
  <2>1. NothingStale
    BY DEF PropertyInv
  <2> QED
    BY <2>1, StaleBySeen DEF NothingStale, Visible
<1>4. FilledBy(m)
  BY DEF FilledBy, PropertyInv, Filed
<1> QED
  BY <1>1, <1>2, <1>3, <1>4 DEF PropertyInv

(* The header that Enter() has made sure of.                               *)
LEMMA HeaderFits ==
  ASSUME Shape, CursorOK(pd), NEW m \in Modules, CanRetain(pd, HdrLen[m])
  PROVE  /\ \A p : Here(p, Hdr(m))
         /\ CursorOK(AfterHdr(m)) /\ AfterHdr(m).end = pd.end
         /\ AfterHdr(m).ptr = pd.ptr + HdrLen[m]
         /\ HdrLen[m] \in Nat /\ pd.ptr \in Nat /\ pd.ptr + HdrLen[m] <= pd.end
<1>1. HdrLen[m] \in Nat
  BY DEF HdrLen, Modules, NsMods
<1>2. pd.ptr \in Nat /\ pkt \in 0 .. MaxPkt
  BY DEF CursorOK, Shape
<1>3. /\ CursorOK(retain(pd, HdrLen[m])) /\ retain(pd, HdrLen[m]).end = pd.end
      /\ retain(pd, HdrLen[m]).ptr = pd.ptr + HdrLen[m]
      /\ pd.ptr + HdrLen[m] <= pd.end
  BY <1>1, RetainStays
<1>4. \A p : Here(p, Hdr(m))
  BY <1>1, <1>2, <1>3, BytesInPacket DEF Hdr
<1> QED
  BY <1>1, <1>2, <1>3, <1>4 DEF AfterHdr

(* What every step of module m comes to: cursor and values in the packet.  *)
StepOK(m) ==
  /\ PropertyInv' /\ FilledBy(m)
  /\ CursorOK(pd') /\ pd'.end = pd.end

DecodeHyp == Shape /\ CursorOK(pd) /\ PropertyInv

(* A step that sets the values of a header and nothing else.               *)
LEMMA HeaderOnly ==
  ASSUME DecodeHyp, NEW m \in Modules, CanRetain(pd, HdrLen[m]), pkt' = pkt,
         Put(m, [hdr |-> Hdr(m)]), pd'.end = pd.end, CursorOK(pd')
  PROVE  StepOK(m) /\ idx'[<<m, "hdr">>] > 0
<1> DEFINE bytes == [hdr |-> Hdr(m)]
<1>1. DOMAIN bytes = {"hdr"} /\ bytes["hdr"] = Hdr(m)
  OBVIOUS
<1>2. <<m, "hdr">> \in Plains
  BY PlainParams
<1>3. Here(<<m, "hdr">>, Hdr(m))
  BY HeaderFits DEF DecodeHyp
<1> HIDE DEF bytes
<1>4. Put(m, bytes)
  BY DEF bytes
<1>5. \A a \in DOMAIN bytes : <<m, a>> \in Plains /\ Here(<<m, a>>, bytes[a])
  BY <1>1, <1>2, <1>3
<1>6. PropertyInv' /\ FilledBy(m) /\ \A a \in DOMAIN bytes : idx'[<<m, a>>] > 0
  BY <1>4, <1>5, PutKeepsProperty DEF DecodeHyp
<1> QED
  BY <1>1, <1>6 DEF StepOK

(* Ethernet, Dot1Q and ICMP.                                               *)
LEMMA PlainStep ==
  ASSUME DecodeHyp, NEW m \in Modules, NEW nexts, Plain(m, nexts)
  PROVE  StepOK(m) /\ idx'[<<m, "hdr">>] > 0
<1>1. /\ CanRetain(pd, HdrLen[m]) /\ pkt' = pkt /\ pd' = AfterHdr(m)
      /\ Put(m, [hdr |-> Hdr(m)])
  BY DEF Plain, Enter
<1>2. CursorOK(AfterHdr(m)) /\ AfterHdr(m).end = pd.end
  BY <1>1, HeaderFits DEF DecodeHyp
<1> QED
  BY <1>1, <1>2, HeaderOnly

(* UDP::decode().                                                          *)
LEMMA UdpStep ==
  ASSUME DecodeHyp, UDP
  PROVE  StepOK("UDP") /\ idx'[<<"UDP", "hdr">>] > 0
<1>1. /\ CanRetain(pd, HdrLen["UDP"]) /\ pkt' = pkt /\ pd' = AfterHdr("UDP")
      /\ Put("UDP", [hdr |-> Hdr("UDP")]) /\ "UDP" \in Modules
  BY DEF UDP, Enter, Modules
<1>2. CursorOK(AfterHdr("UDP")) /\ AfterHdr("UDP").end = pd.end
  BY <1>1, HeaderFits DEF DecodeHyp
<1> QED
  BY <1>1, <1>2, HeaderOnly

(* PPPoE::decode(): the protocol number may be cut off.                    *)
LEMMA PppoeStep ==
  ASSUME DecodeHyp, PPPoE
  PROVE  StepOK("PPPoE")
<1> DEFINE d == AfterHdr("PPPoE")
<1>1. /\ CanRetain(pd, HdrLen["PPPoE"]) /\ pkt' = pkt /\ "PPPoE" \in Modules
      /\ Put("PPPoE", [hdr |-> Hdr("PPPoE")])
      /\ IF CanRetain(d, 2) THEN pd' = retain(d, 2) ELSE pd' = d
  BY DEF PPPoE, Enter, Modules
<1>2. CursorOK(d) /\ d.end = pd.end
  BY <1>1, HeaderFits DEF DecodeHyp
<1> HIDE DEF d
<1>3. CursorOK(pd') /\ pd'.end = pd.end
  <2>1. CASE CanRetain(d, 2)
    BY <1>1, <1>2, <2>1, RetainStays
  <2>2. CASE ~CanRetain(d, 2)
    BY <1>1, <1>2, <2>2
  <2> QED
    BY <2>1, <2>2
<1> QED
  BY <1>1, <1>3, HeaderOnly

(* ARP::decode(): as many addresses as the packet holds.                   *)
LEMMA ArpStep ==
  ASSUME DecodeHyp, ARP
  PROVE  StepOK("ARP")
<1>1. PICK hw \in AddrLens, pr \in AddrLens, ev \in ArpEvents :
        LET d == AfterHdr("ARP")
            len == [hw_src |-> hw, pr_src |-> pr, hw_dst |-> hw, pr_dst |-> pr]
            off == [hw_src |-> 0, pr_src |-> hw, hw_dst |-> hw + pr, pr_dst |-> 2 * hw + pr]
            held == {a \in DOMAIN len : CanRetain(d, off[a] + len[a])}
            taken == {0} \cup {off[a] + len[a] : a \in held}
        IN /\ Enter("ARP", ev)
           /\ pd' = retain(d, MaxOf(taken))
           /\ Put("ARP", [a \in held \cup {"hdr"} |->
                IF a = "hdr" THEN Hdr("ARP") ELSE Bytes(d.ptr + off[a], len[a])])
  BY DEF ARP
<1> DEFINE d == AfterHdr("ARP")
           names == {"hw_src", "pr_src", "hw_dst", "pr_dst"}
           len == [hw_src |-> hw, pr_src |-> pr, hw_dst |-> hw, pr_dst |-> pr]
           off == [hw_src |-> 0, pr_src |-> hw, hw_dst |-> hw + pr, pr_dst |-> 2 * hw + pr]
           held == {a \in DOMAIN len : CanRetain(d, off[a] + len[a])}
           taken == {0} \cup {off[a] + len[a] : a \in held}
           bytes == [a \in held \cup {"hdr"} |->
                      IF a = "hdr" THEN Hdr("ARP") ELSE Bytes(d.ptr + off[a], len[a])]
<1>2. /\ CanRetain(pd, HdrLen["ARP"]) /\ pkt' = pkt /\ "ARP" \in Modules
      /\ pd' = retain(d, MaxOf(taken)) /\ Put("ARP", bytes)
  BY <1>1 DEF Enter, Modules
<1>3. hw \in Nat /\ pr \in Nat
  BY DecoderAssumption
<1>4. /\ DOMAIN len = names
      /\ \A a \in names : len[a] \in Nat /\ off[a] \in Nat
  BY <1>3
<1>5. CursorOK(d) /\ d.end = pd.end /\ Here(<<"ARP", "hdr">>, Hdr("ARP"))
  BY <1>2, HeaderFits DEF DecodeHyp
<1>6. d.ptr \in Nat /\ d.length \in Nat /\ d.end \in Nat /\ d.ptr + d.length <= d.end
  BY <1>5 DEF CursorOK
<1> HIDE DEF d, len, off
<1>7. \A a \in held : /\ a \in names /\ off[a] + len[a] <= d.length
                      /\ len[a] \in Nat /\ off[a] \in Nat
  BY <1>4 DEF CanRetain
<1>8. taken \in SUBSET (0 .. d.length) /\ taken # {}
  <2>1. ASSUME NEW a \in held PROVE off[a] + len[a] \in 0 .. d.length
    BY <1>6, <1>7
  <2> QED
    BY <1>6, <2>1
<1>9. MaxOf(taken) \in 0 .. d.length
  <2> HIDE DEF taken
  <2> QED
    BY <1>6, <1>8, MaxOfBounded
<1> HIDE DEF taken
<1>10. CursorOK(pd') /\ pd'.end = pd.end
  <2>1. MaxOf(taken) \in Nat /\ CanRetain(d, MaxOf(taken))
    BY <1>6, <1>9 DEF CanRetain
  <2> QED
    BY <1>2, <1>5, <2>1, RetainStays
<1>11. ASSUME NEW a \in held \cup {"hdr"}
       PROVE  <<"ARP", a>> \in Plains /\ Here(<<"ARP", a>>, bytes[a])
  <2>1. CASE a = "hdr"
    BY <1>2, <1>5, <2>1, PlainParams
  <2>2. CASE a # "hdr"
    <3>1. /\ a \in names /\ off[a] + len[a] <= d.length
          /\ len[a] \in Nat /\ off[a] \in Nat
      BY <1>7, <2>2
    <3>2. bytes[a] = Bytes(d.ptr + off[a], len[a])
      BY <2>2
    <3>3. d.ptr + off[a] \in Nat /\ d.ptr + off[a] + len[a] <= pd.end
      BY <1>5, <1>6, <3>1
    <3>4. Here(<<"ARP", a>>, Bytes(d.ptr + off[a], len[a]))
      BY <3>1, <3>3, BytesInPacket DEF DecodeHyp, Shape
    <3> QED
      BY <3>1, <3>2, <3>4, PlainParams
  <2> QED
    BY <2>1, <2>2
<1>12. DOMAIN bytes = held \cup {"hdr"}
  OBVIOUS
<1> HIDE DEF bytes, held
<1>13. PropertyInv' /\ FilledBy("ARP")
  BY <1>2, <1>10, <1>11, <1>12, PutKeepsProperty DEF DecodeHyp
<1> QED
  BY <1>10, <1>13 DEF StepOK

(* IPv4::decode(): the header length and the total length are only claims. *)
LEMMA IPv4Step ==
  ASSUME DecodeHyp, IPv4
  PROVE  StepOK("IPv4")
<1>1. PICK hdr_len \in HdrLens, total_len \in TotalLens :
       LET d1 == AfterHdr("IPv4")
           opt_len == hdr_len - 20
           held == opt_len > 0 /\ CanRetain(d1, opt_len)
           d2 == IF held THEN retain(d1, opt_len) ELSE d1
           d3 == shrink(d2, total_len - hdr_len)
           hdr == [hdr |-> Hdr("IPv4"), data |-> Bytes(d3.ptr, d3.length)]
           opt == Bytes(IF held THEN d1.ptr ELSE NullPtr, opt_len)
       IN /\ total_len >= hdr_len
          /\ pd' = d3
          /\ Put("IPv4", [a \in DOMAIN hdr \cup (IF opt_len > 0 THEN {"opt"} ELSE {}) |->
                           IF a = "opt" THEN opt ELSE hdr[a]])
  BY DEF IPv4
<1> DEFINE d1 == AfterHdr("IPv4")
           opt_len == hdr_len - 20
           held == opt_len > 0 /\ CanRetain(d1, opt_len)
           d2 == IF held THEN retain(d1, opt_len) ELSE d1
           d3 == shrink(d2, total_len - hdr_len)
           hdr == [hdr |-> Hdr("IPv4"), data |-> Bytes(d3.ptr, d3.length)]
           opt == Bytes(IF held THEN d1.ptr ELSE NullPtr, opt_len)
           given == DOMAIN hdr \cup (IF opt_len > 0 THEN {"opt"} ELSE {})
           bytes == [a \in given |-> IF a = "opt" THEN opt ELSE hdr[a]]
<1>2. /\ CanRetain(pd, HdrLen["IPv4"]) /\ pkt' = pkt /\ "IPv4" \in Modules
      /\ pd' = d3 /\ Put("IPv4", bytes) /\ total_len >= hdr_len
  BY <1>1 DEF IPv4, Enter, Modules
<1>3. hdr_len \in Nat /\ total_len \in Nat /\ total_len - hdr_len \in Nat /\ opt_len \in Int
      /\ (opt_len > 0 => opt_len \in Nat)
  BY <1>2, DecoderAssumption
<1>4. CursorOK(d1) /\ d1.end = pd.end /\ Here(<<"IPv4", "hdr">>, Hdr("IPv4"))
  BY <1>2, HeaderFits DEF DecodeHyp
<1>5. pkt \in 0 .. MaxPkt /\ CursorOK(pd)
  BY DEF DecodeHyp, Shape
<1>6. hdr["hdr"] = Hdr("IPv4") /\ hdr["data"] = Bytes(d3.ptr, d3.length)
      /\ DOMAIN hdr = {"hdr", "data"}
  OBVIOUS
<1> HIDE DEF d1, opt_len, hdr
<1>7. CursorOK(d2) /\ d2.end = pd.end
  <2>1. CASE held
    <3>1. d2 = retain(d1, opt_len)
      BY <2>1
    <3> QED
      BY <1>3, <1>4, <2>1, <3>1, RetainStays
  <2>2. CASE ~held
    BY <1>4, <2>2
  <2> QED
    BY <2>1, <2>2
<1> HIDE DEF d2
<1>8. CursorOK(d3) /\ d3.end = pd.end
  BY <1>3, <1>7, ShrinkStays
<1> HIDE DEF d3
<1>9. Here(<<"IPv4", "data">>, Bytes(d3.ptr, d3.length))
  <2>1. d3.ptr \in Nat /\ d3.length \in Nat /\ d3.ptr + d3.length <= pd.end
    BY <1>8 DEF CursorOK
  <2> QED
    BY <1>5, <2>1, BytesInPacket
<1>10. opt_len > 0 => Here(<<"IPv4", "opt">>, opt)
  <2>1. CASE held
    <3>1. d1.ptr \in Nat /\ opt_len \in Nat /\ d1.ptr + opt_len <= pd.end
      BY <1>3, <1>4, <2>1 DEF CursorOK, CanRetain
    <3> QED
      BY <1>5, <2>1, <3>1, BytesInPacket
  <2>2. CASE ~held
    <3>1. opt_len > 0 => opt = Bytes(NullPtr, opt_len) /\ opt_len \in Nat
      BY <1>3, <2>2
    <3> HIDE DEF opt
    <3> QED
      BY <1>5, <3>1 DEF Here, Bytes, ByteRanges, InPacket
  <2> QED
    BY <2>1, <2>2
<1> HIDE DEF opt, held
<1>11. ASSUME NEW a \in given PROVE <<"IPv4", a>> \in Plains /\ Here(<<"IPv4", a>>, bytes[a])
  <2>1. CASE a = "opt"
    <3>1. opt_len > 0 /\ bytes[a] = opt
      BY <1>6, <2>1
    <3> QED
      BY <1>10, <2>1, <3>1, PlainParams
  <2>2. CASE a = "hdr"
    BY <1>2, <1>4, <1>6, <2>2, PlainParams
  <2>3. CASE a = "data"
    BY <1>6, <1>9, <2>3, PlainParams
  <2> QED
    BY <1>6, <2>1, <2>2, <2>3
<1>12. DOMAIN bytes = given
  OBVIOUS
<1> HIDE DEF bytes, given
<1>13. CursorOK(pd') /\ pd'.end = pd.end
  BY <1>2, <1>8
<1>14. PropertyInv' /\ FilledBy("IPv4")
  BY <1>2, <1>11, <1>12, <1>13, PutKeepsProperty DEF DecodeHyp
<1> QED
  BY <1>13, <1>14 DEF StepOK

(* TCP::decode(): so is the data offset.                                   *)
LEMMA TcpStep ==
  ASSUME DecodeHyp, TCP
  PROVE  StepOK("TCP")
<1>1. PICK offset \in Offsets, ev \in TcpEvents, accepted \in BOOLEAN :
    LET d1 == AfterHdr("TCP")
        optlen == (offset - 20) % SizeMod
        d2 == retain(d1, optlen)
        ok == CanRetain(d1, optlen)
        ssn == ok /\ enable_ssn_mgmt
        has == [hdr |-> TRUE, optdata |-> ok /\ optlen > 0, segment |-> ok /\ d2.length > 0,
                session |-> ssn, data |-> accepted, rtt_3wh |-> ev = <<"TCP.established">>]
        all == [hdr |-> Hdr("TCP"), optdata |-> Bytes(d1.ptr, optlen),
                segment |-> Bytes(d2.ptr, d2.length), session |-> Copy, rtt_3wh |-> Copy,
                data |-> Bytes(IF d2.length > 0 THEN d2.ptr ELSE NullPtr, d2.length)]
    IN /\ ev # <<>> => accepted
       /\ accepted => ssn
       /\ Enter("TCP", ev)
       /\ pd' = IF ok THEN retain(d2, d2.length) ELSE d1
       /\ Put("TCP", [a \in {a \in DOMAIN has : has[a]} |-> all[a]])
       /\ set_port
       /\ next' = NONE
       /\ UNCHANGED <<addr, rr>>
  BY Zenon DEF TCP
<1> DEFINE
        d1 == AfterHdr("TCP")
        optlen == (offset - 20) % SizeMod
        d2 == retain(d1, optlen)
        ok == CanRetain(d1, optlen)
        ssn == ok /\ enable_ssn_mgmt
        has == [hdr |-> TRUE, optdata |-> ok /\ optlen > 0, segment |-> ok /\ d2.length > 0,
                session |-> ssn, data |-> accepted, rtt_3wh |-> ev = <<"TCP.established">>]
        all == [hdr |-> Hdr("TCP"), optdata |-> Bytes(d1.ptr, optlen),
                segment |-> Bytes(d2.ptr, d2.length), session |-> Copy, rtt_3wh |-> Copy,
                data |-> Bytes(IF d2.length > 0 THEN d2.ptr ELSE NullPtr, d2.length)]
        given == {a \in DOMAIN has : has[a]}
        bytes == [a \in given |-> all[a]]
<1>2. /\ CanRetain(pd, HdrLen["TCP"]) /\ pkt' = pkt /\ "TCP" \in Modules
      /\ accepted => ok
      /\ pd' = IF ok THEN retain(d2, d2.length) ELSE d1
      /\ Put("TCP", bytes)
  BY <1>1 DEF Enter, Modules
<1>3. optlen \in Nat
  <2>1. offset \in Int /\ SizeMod \in Nat /\ SizeMod > 0
    BY DecoderAssumption
  <2> QED
    BY <2>1
<1>4. CursorOK(d1) /\ d1.end = pd.end /\ Here(<<"TCP", "hdr">>, Hdr("TCP"))
  BY <1>2, HeaderFits DEF DecodeHyp
<1>5. pkt \in 0 .. MaxPkt /\ CursorOK(pd)
  BY DEF DecodeHyp, Shape
<1>6. /\ all["hdr"] = Hdr("TCP") /\ all["optdata"] = Bytes(d1.ptr, optlen)
      /\ all["segment"] = Bytes(d2.ptr, d2.length)
      /\ all["session"] = Copy /\ all["rtt_3wh"] = Copy
      /\ all["data"] = Bytes(IF d2.length > 0 THEN d2.ptr ELSE NullPtr, d2.length)
  OBVIOUS
<1>7. /\ DOMAIN has = {"hdr", "optdata", "segment", "session", "data", "rtt_3wh"}
      /\ has["optdata"] => ok /\ (has["segment"] => ok) /\ (has["data"] => accepted)
  OBVIOUS
<1>8. (has["segment"] => ok) /\ (has["data"] => ok) /\ (has["optdata"] => ok)
  BY <1>2
<1> HIDE DEF d1, optlen, all, has
<1>9. ok => /\ CursorOK(d2) /\ d2.end = pd.end /\ d1.ptr + optlen <= pd.end
  BY <1>3, <1>4, RetainStays
<1>10. ok => /\ CursorOK(retain(d2, d2.length)) /\ retain(d2, d2.length).end = pd.end
  <2> HIDE DEF d2, ok
  <2> QED
    BY <1>9, AllCanBeRetained, RetainStays
<1> HIDE DEF d2, ok
<1>11. CursorOK(pd') /\ pd'.end = pd.end
  <2>1. CASE ok
    BY <1>2, <1>10, <2>1
  <2>2. CASE ~ok
    BY <1>2, <1>4, <2>2
  <2> QED
    BY <2>1, <2>2
<1>12. ok => Here(<<"TCP", "optdata">>, Bytes(d1.ptr, optlen))
  <2>1. d1.ptr \in Nat
    BY <1>4 DEF CursorOK
  <2> QED
    BY <1>3, <1>5, <1>9, <2>1, BytesInPacket
<1>13. ok => d2.ptr \in Nat /\ d2.length \in Nat /\ d2.ptr + d2.length <= pd.end
  BY <1>9 DEF CursorOK
<1>14. ok => Here(<<"TCP", "segment">>, Bytes(d2.ptr, d2.length))
  BY <1>5, <1>13, BytesInPacket
<1>15. ok => Here(<<"TCP", "data">>,
                  Bytes(IF d2.length > 0 THEN d2.ptr ELSE NullPtr, d2.length))
  <2>1. CASE d2.length > 0
    BY <1>5, <1>13, <2>1, BytesInPacket
  <2>2. CASE ~(d2.length > 0)
    <3>1. ok => d2.length = 0
      BY <1>13, <2>2
    <3> QED
      BY <1>5, <2>2, <3>1, NoBytesFit
  <2> QED
    BY <2>1, <2>2
<1>16. \A p : Here(p, Copy)
  BY <1>5, NoBytesFit DEF Copy
<1>17. ASSUME NEW a \in given PROVE <<"TCP", a>> \in Plains /\ Here(<<"TCP", a>>, bytes[a])
  <2>1. bytes[a] = all[a] /\ has[a] /\ a \in DOMAIN has
    OBVIOUS
  <2>2. <<"TCP", a>> \in Plains
    BY <1>2, <1>7, <2>1, PlainParams
  <2>3. CASE a = "hdr"
    BY <1>4, <1>6, <2>1, <2>2, <2>3
  <2>4. CASE a = "optdata"
    BY <1>6, <1>8, <1>12, <2>1, <2>2, <2>4
  <2>5. CASE a = "segment"
    BY <1>6, <1>8, <1>14, <2>1, <2>2, <2>5
  <2>6. CASE a = "data"
    BY <1>6, <1>8, <1>15, <2>1, <2>2, <2>6
  <2>7. CASE a \in {"session", "rtt_3wh"}
    BY <1>6, <1>16, <2>1, <2>2, <2>7
  <2> QED
    BY <1>7, <2>1, <2>3, <2>4, <2>5, <2>6, <2>7
<1>18. DOMAIN bytes = given
  OBVIOUS
<1> HIDE DEF bytes, given
<1>19. PropertyInv' /\ FilledBy("TCP")
  BY <1>2, <1>11, <1>17, <1>18, PutKeepsProperty DEF DecodeHyp
<1> QED
  BY <1>11, <1>19 DEF StepOK

(* DHCP::decode(), up to the options.                                      *)
LEMMA DhcpStep ==
  ASSUME DecodeHyp, DHCP
  PROVE  StepOK("DHCP") /\ idx'[<<"DHCP", "options">>] > 0
<1>1. PICK len \in AddrLens, names \in SUBSET {"names"} :
       LET all == [hdr |-> Hdr("DHCP"), client_hw_addr |-> Bytes(pd.ptr + 28, len),
                   names |-> Bytes(pd.ptr + 44, 192)]
           set == {"DHCP"} \X ({"hdr", "client_hw_addr"} \cup names)
       IN Update(set \cup {<<"DHCP", "options">>}, [p \in set |-> SetTo(all[p[2]])])
  BY DEF DHCP
<1> DEFINE all == [hdr |-> Hdr("DHCP"), client_hw_addr |-> Bytes(pd.ptr + 28, len),
                   names |-> Bytes(pd.ptr + 44, 192)]
           set == {"DHCP"} \X ({"hdr", "client_hw_addr"} \cup names)
           options == <<"DHCP", "options">>
           ps == set \cup {options}
           val == [p \in set |-> SetTo(all[p[2]])]
<1>2. /\ CanRetain(pd, HdrLen["DHCP"]) /\ pkt' = pkt /\ "DHCP" \in Modules
      /\ pd' = AfterHdr("DHCP")
  BY DEF DHCP, Enter, Modules
<1>3. /\ CursorOK(pd') /\ pd'.end = pd.end /\ Here(<<"DHCP", "hdr">>, Hdr("DHCP"))
      /\ pd.ptr \in Nat /\ pd.ptr + 240 <= pd.end
  <2>1. HdrLen["DHCP"] = 240
    BY DEF HdrLen
  <2> QED
    BY <1>2, <2>1, HeaderFits DEF DecodeHyp
<1>4. pkt \in 0 .. MaxPkt /\ CursorOK(pd) /\ pd.end \in Nat
  BY DEF DecodeHyp, Shape, CursorOK
<1>5. Here(<<"DHCP", "client_hw_addr">>, Bytes(pd.ptr + 28, len))
  <2>1. Overshoot(<<"DHCP", "client_hw_addr">>) = 43
    BY DEF Overshoot
  <2>2. len \in 0 .. 255
    BY DecoderAssumption
  <2>3. /\ pd.ptr + 28 \in Nat /\ len \in Nat
        /\ pd.ptr + 28 + len <= pd.end + 43
    BY <1>3, <1>4, <2>2
  <2> QED
    BY <1>4, <2>1, <2>3, BytesFit
<1>6. Here(<<"DHCP", "names">>, Bytes(pd.ptr + 44, 192))
  <2>1. pd.ptr + 44 \in Nat /\ pd.ptr + 44 + 192 <= pd.end
    BY <1>3, <1>4
  <2> QED
    BY <1>4, <2>1, BytesInPacket
<1>7. ASSUME NEW p \in set
      PROVE  p \in Plains /\ p[1] = "DHCP" /\ Here(p, all[p[2]])
  <2>1. p = <<"DHCP", "hdr">> \/ p = <<"DHCP", "client_hw_addr">> \/ p = <<"DHCP", "names">>
    <3>1. p = <<p[1], p[2]>> /\ p[1] = "DHCP" /\ p[2] \in {"hdr", "client_hw_addr"} \cup names
      OBVIOUS
    <3>2. p[2] \in {"hdr", "client_hw_addr", "names"}
      BY <3>1
    <3> QED
      BY <3>1, <3>2
  <2>2. /\ all["hdr"] = Hdr("DHCP") /\ all["client_hw_addr"] = Bytes(pd.ptr + 28, len)
        /\ all["names"] = Bytes(pd.ptr + 44, 192)
    OBVIOUS
  <2>3. p \in Plains
    BY <1>2, <2>1, PlainParams
  <2> HIDE DEF all
  <2> QED
    BY <1>3, <1>5, <1>6, <2>1, <2>2, <2>3
<1>8. options \in Arrays /\ options \in Params /\ options \notin Maps
  BY MapsAreNotArrays DEF Arrays, Params
<1>9. DOMAIN val = set /\ \A p \in set : val[p] = SetTo(all[p[2]])
  OBVIOUS
<1>10. Update(ps, val)
  BY <1>1
<1> HIDE DEF all, set, val, options
<1>11. Sound(ps, val)
  <2>1. \A p \in set : \E b \in ByteRanges :
          val[p] = SetTo(b) /\ b.pkt = pkt /\ InPacket(p, b)
    BY <1>7, <1>9 DEF Here
  <2>2. \A p \in set : p \in Params /\ p \notin Arrays /\ p \notin Maps
    BY <1>7 DEF Plains
  <2> QED
    BY <1>8, <1>9, <2>1, <2>2 DEF Sound
<1>12. \A p \in ps : p[1] = "DHCP"
  BY <1>7 DEF options
<1>13. idx'[options] > 0
  <2>1. idx'[options] = idx[options] + 1 /\ idx[options] \in Nat
    BY <1>8, <1>10 DEF Update, DecodeHyp, PropertyInv, Filed
  <2> QED
    BY <2>1
<1> HIDE DEF ps
<1>14. PropertyInv' /\ FilledBy("DHCP")
  BY <1>2, <1>3, <1>10, <1>11, <1>12, UpdateKeepsProperty DEF DecodeHyp
<1> QED
  BY <1>3, <1>13, <1>14 DEF StepOK, options

(* One option: the option, its type and its data are retained, and the     *)
(* option is pushed on the array.                                          *)
LEMMA DhcpOptionStep ==
  ASSUME DecodeHyp, DhcpOption, idx[<<"DHCP", "options">>] > 0
  PROVE  StepOK("DHCP")
<1> DEFINE options == <<"DHCP", "options">>
           option == <<"DHCP", "_option">>
           type == <<"DHCP", "_opt_type">>
           data == <<"DHCP", "_opt_data">>
           d == retain(pd, 2)
           links == [type |-> Retained(type), data |-> Retained(data)]
           ps == {option, type, data}
<1>1. PICK len \in DataLens :
       /\ CanRetain(d, len)
       /\ pd' = retain(d, len)
       /\ Update(ps, [p \in {option, type, data, options} |->
              CASE p = option -> LinkTo(links)
                [] p = type   -> SetTo(Bytes(pd.ptr, 1))
                [] p = data   -> SetTo(Bytes(d.ptr, len))
                [] OTHER      -> Push(Retained(option))])
  BY DEF DhcpOption
<1> DEFINE val == [p \in {option, type, data, options} |->
              CASE p = option -> LinkTo(links)
                [] p = type   -> SetTo(Bytes(pd.ptr, 1))
                [] p = data   -> SetTo(Bytes(d.ptr, len))
                [] OTHER      -> Push(Retained(option))]
<1>2. CanRetain(pd, 2) /\ pkt' = pkt /\ pkt \in 0 .. MaxPkt /\ CursorOK(pd)
  BY DEF DhcpOption, DecodeHyp, Shape
<1>3. len \in Nat
  BY DecoderAssumption
<1>4. /\ CursorOK(d) /\ d.end = pd.end /\ d.ptr = pd.ptr + 2
      /\ pd.ptr + 2 <= pd.end /\ pd.ptr \in Nat /\ pd.end \in Nat
  BY <1>2, RetainStays DEF CursorOK
<1>5. /\ DOMAIN val = {option, type, data, options}
      /\ val[option] = LinkTo(links) /\ val[type] = SetTo(Bytes(pd.ptr, 1))
      /\ val[data] = SetTo(Bytes(d.ptr, len)) /\ val[options] = Push(Retained(option))
  OBVIOUS
<1>6. DOMAIN links = {"type", "data"} /\ links["type"] = Retained(type)
      /\ links["data"] = Retained(data)
  OBVIOUS
<1>7. Update(ps, val)
  BY <1>1
<1>8. /\ type \in Plains /\ data \in Plains
      /\ option \in Maps /\ option \in Params /\ option \notin Arrays
      /\ options \in Arrays /\ options \in Params /\ options \notin Maps
  BY PlainParams, MapsAreNotArrays DEF Maps, Arrays, Params
<1>9. ps \in SUBSET Params /\ \A p \in ps : p[1] = "DHCP"
  BY <1>8 DEF Plains
<1>10. option[2] # "records"
  OBVIOUS
<1> HIDE DEF d, val, links
<1>11. CursorOK(pd') /\ pd'.end = pd.end /\ d.ptr \in Nat /\ d.ptr + len <= pd.end
  BY <1>1, <1>3, <1>4, RetainStays DEF CursorOK
<1>12. Here(type, Bytes(pd.ptr, 1)) /\ Here(data, Bytes(d.ptr, len))
  <2>1. pd.ptr + 1 <= pd.end
    BY <1>4
  <2> QED
    BY <1>2, <1>3, <1>4, <1>11, <2>1, BytesInPacket
<1>13. links \in NewLinks(ps)
  <2>1. \A q \in ps : Retained(q) \in Params \X Nat
    <3> TAKE q \in ps
    <3>1. q \in Params /\ idx[q] \in Nat
      BY <1>9 DEF DecodeHyp, PropertyInv, Filed
    <3> QED
      BY <3>1 DEF Retained
  <2>2. {"type", "data"} \in SUBSET Fields
    BY DEF Fields
  <2>3. links \in [{"type", "data"} -> Params \X Nat]
    BY <2>1 DEF links
  <2>4. links \in Links
    BY <2>2, <2>3 DEF Links
  <2> QED
    BY <1>6, <2>4 DEF NewLinks
<1>14. idx[options] > 0
  OBVIOUS
<1> HIDE DEF options, option, type, data
<1>15. Sound(ps, val)
  <2>1. \A p \in DOMAIN val : p \in ps \/ (p \in Arrays /\ idx[p] > 0)
    BY <1>5, <1>8, <1>14
  <2>2. \A p \in DOMAIN val : p \in Arrays => val[p] = Push(Retained(option))
    BY <1>5, <1>8 DEF Plains
  <2>3. \A p \in DOMAIN val : p \in Maps => p = option
    BY <1>5, <1>8 DEF Plains
  <2>4. \A p \in DOMAIN val : p \notin Arrays \cup Maps =>
       \E b \in ByteRanges : val[p] = SetTo(b) /\ b.pkt = pkt /\ InPacket(p, b)
    BY <1>5, <1>8, <1>12 DEF Here
  <2>5. DOMAIN val \subseteq Params /\ option \in ps
    BY <1>5, <1>8 DEF Plains
  <2>6. \A p \in DOMAIN val : p \in Maps => \E m \in NewLinks(ps) : val[p] = LinkTo(m)
    BY <1>5, <1>13, <2>3
  <2>7. \A p \in ps \cap Maps : p \in DOMAIN val /\ p[2] # "records"
    BY <1>5, <1>8, <1>10 DEF Plains
  <2> HIDE DEF ps
  <2> QED
    BY <1>9, <2>1, <2>2, <2>4, <2>5, <2>6, <2>7 DEF Sound
<1>16. PropertyInv' /\ FilledBy("DHCP")
  <2> HIDE DEF ps
  <2> QED
    BY <1>2, <1>7, <1>9, <1>11, <1>15, UpdateKeepsProperty DEF DecodeHyp
<1> QED
  BY <1>11, <1>16 DEF StepOK

-----------------------------------------------------------------------------
(* NameService::ns_decode()                                                *)

(* The locals of the loop, by type.                                        *)
LEMMA RrFields ==
  ASSUME NEW r, r \in RrLocals
  PROVE  /\ r.mod \in NsMods /\ r.count \in [0 .. 3 -> Nat] /\ r.c \in Nat
         /\ r.target \in 0 .. 3 /\ r.rr_c \in Nat /\ r.arr \in Refs
         /\ r.ptr \in Nat /\ r.ep \in Nat
BY DEF RrLocals

(* The arrays of the sections are four, apart from all else.               *)
LEMMA SectionParams ==
  ASSUME NEW m \in NsMods
  PROVE  /\ \A t \in 0 .. 3 : p_record(m, t) \in Params /\ p_record(m, t) \in Arrays
                              /\ p_record(m, t)[1] = m /\ p_record(m, t) # <<m, "hdr">>
         /\ \A t, u \in 0 .. 3 : p_record(m, t) = p_record(m, u) => t = u
         /\ <<m, "records">> \in Params /\ <<m, "records">> \in Maps
<1>1. \A t \in 0 .. 3 : p_record(m, t) \in Arrays
  BY DEF Arrays
<1>2. \A t \in 0 .. 3 : p_record(m, t) = <<m, Section[t + 1]>>
  BY DEF p_record
<1>3. /\ Section[0 + 1] = "question" /\ Section[1 + 1] = "answer"
      /\ Section[2 + 1] = "authority" /\ Section[3 + 1] = "additional"
  BY DEF Section
<1>4. \A t \in 0 .. 3 : t = 0 \/ t = 1 \/ t = 2 \/ t = 3
  OBVIOUS
<1>5. \A t \in 0 .. 3 : Section[t + 1] # "hdr"
  BY <1>3, <1>4
<1>6. \A t, u \in 0 .. 3 : Section[t + 1] = Section[u + 1] => t = u
  BY <1>3, <1>4
<1>7. <<m, "records">> \in Params /\ <<m, "records">> \in Maps
  BY DEF Maps, Params
<1>8. Arrays \subseteq Params
  BY DEF Params
<1> QED
  BY <1>1, <1>2, <1>5, <1>6, <1>7, <1>8

(* The while loop finds the section of the next record and leaves the loop *)
(* as it should be.                                                        *)
LEMMA LocatedCounts ==
  ASSUME NEW r, r \in RrLocals, Counted(r), r.c < Records(r.count, 4)
  PROVE  LET s == Located(r)
         IN /\ s \in RrLocals /\ Counted(s) /\ s.rr_c < s.count[s.target]
            /\ s.mod = r.mod /\ s.count = r.count /\ s.c = r.c
            /\ s.ptr = r.ptr /\ s.ep = r.ep
            /\ \/ s = r
               \/ /\ s.target > r.target /\ s.rr_c = 0 /\ s.arr = NullRef
                  /\ r.rr_c = r.count[r.target]
                  /\ \A u \in 0 .. 3 : u > r.target /\ u < s.target => r.count[u] = 0
<1>1. /\ r.mod \in NsMods /\ r.count \in [0 .. 3 -> Nat] /\ r.c \in Nat
      /\ r.target \in 0 .. 3 /\ r.rr_c \in Nat /\ r.arr \in Refs
      /\ r.ptr \in Nat /\ r.ep \in Nat
  BY RrFields
<1>2. CASE r.rr_c < r.count[r.target]
  <2>1. Located(r) = r
    BY <1>2 DEF Located
  <2> QED
    BY <1>2, <2>1
<1>3. CASE ~(r.rr_c < r.count[r.target])
  <2> DEFINE later == {t \in 0 .. 3 : t > r.target /\ r.count[t] > 0}
             n == CHOOSE t \in later : \A u \in later : t <= u
             s == [r EXCEPT !.target = n, !.rr_c = 0, !.arr = NullRef]
             count == r.count
             target == r.target
  <2>1. Located(r) = s
    BY <1>3 DEF Located
  <2>2. r.rr_c = count[target] /\ r.c = Records(count, target) + count[target]
    BY <1>1, <1>3 DEF Counted
  <2>3. /\ count[0] \in Nat /\ count[1] \in Nat /\ count[2] \in Nat /\ count[3] \in Nat
        /\ count \in [0 .. 3 -> Nat] /\ target \in 0 .. 3
    BY <1>1
  <2>4. Records(r.count, 4) = Records(count, 4)
    OBVIOUS
  <2>5. later = {t \in 0 .. 3 : t > target /\ count[t] > 0}
    OBVIOUS
  <2> HIDE DEF count, target, later
  <2>6. /\ Records(count, 4) = count[0] + count[1] + count[2] + count[3]
        /\ Records(count, 0) = 0 /\ Records(count, 1) = count[0]
        /\ Records(count, 2) = count[0] + count[1]
        /\ Records(count, 3) = count[0] + count[1] + count[2]
    BY <2>3, RecordsSum
  <2>7. target = 0 \/ target = 1 \/ target = 2 \/ target = 3
    BY <2>3
  <2>8. later # {}
    <3> SUFFICES ASSUME \A t \in 0 .. 3 : t > target => count[t] = 0 PROVE FALSE
      BY <2>3, <2>5
    <3>1. (target < 1 => count[1] = 0) /\ (target < 2 => count[2] = 0)
          /\ (target < 3 => count[3] = 0)
      BY <2>3
    <3>2. r.c < Records(count, 4)
      BY <2>4
    <3> QED
      BY <2>2, <2>3, <2>6, <2>7, <3>1, <3>2
  <2>9. n \in later /\ \A u \in later : n <= u
    <3>1. later \in SUBSET Nat
      BY <2>5
    <3>2. \E t \in later : \A u \in later : t <= u
      BY <2>8, <3>1, NatMin
    <3> QED
      BY <3>2
  <2> HIDE DEF n
  <2>10. n \in 0 .. 3 /\ n > target /\ count[n] > 0
    BY <2>5, <2>9
  <2>11. ASSUME NEW u \in 0 .. 3, u > target, u < n PROVE count[u] = 0
    <3>1. u \notin later
      BY <2>9, <2>10, <2>11
    <3> QED
      BY <2>3, <2>5, <2>11, <3>1
  <2>12. Records(count, n) = Records(count, target) + count[target]
    <3>1. (target < 1 /\ 1 < n => count[1] = 0) /\ (target < 2 /\ 2 < n => count[2] = 0)
      BY <2>11
    <3>2. n = 0 \/ n = 1 \/ n = 2 \/ n = 3
      BY <2>10
    <3> QED
      BY <2>3, <2>6, <2>7, <2>10, <3>1, <3>2
  <2>13. /\ s.mod = r.mod /\ s.count = r.count /\ s.c = r.c /\ s.target = n
         /\ s.rr_c = 0 /\ s.arr = NullRef /\ s.ptr = r.ptr /\ s.ep = r.ep
    BY DEF RrLocals
  <2>14. s \in RrLocals
    <3>1. NullRef \in Refs
      BY DEF Refs
    <3> QED
      BY <2>10, <3>1 DEF RrLocals
  <2> HIDE DEF s
  <2>15. Counted(s)
    <3>1. Records(count, n) + 0 = Records(count, n) /\ Records(count, target) + count[target] = r.c
      <4>1. Records(count, n) = r.c
        BY <2>2, <2>12
      <4> QED
        BY <1>1, <2>2, <4>1
    <3> QED
      BY <1>1, <2>10, <2>12, <2>13, <3>1 DEF Counted, count
  <2>16. /\ s.rr_c < s.count[s.target] /\ s.target > r.target
         /\ r.rr_c = r.count[r.target]
         /\ \A u \in 0 .. 3 : u > r.target /\ u < s.target => r.count[u] = 0
    BY <2>2, <2>10, <2>11, <2>13 DEF count, target
  <2> QED
    BY <2>1, <2>13, <2>14, <2>15, <2>16
<1> QED
  BY <1>2, <1>3

(* ... with the sections as they were: the ones passed over are empty.     *)
LEMMA LocatedOK ==
  ASSUME NEW r, RrOK(r), r.c < Records(r.count, 4)
  PROVE  RrOK(Located(r)) /\ Located(r).rr_c < Located(r).count[Located(r).target]
         /\ Located(r).ptr = r.ptr /\ Located(r).ep = r.ep
<1> DEFINE s == Located(r)
<1>1. r \in RrLocals /\ Counted(r) /\ ArrayOpen(r) /\ Sectioned(r) /\ HoldsRecords(r)
  BY DEF RrOK
<1>2. /\ s \in RrLocals /\ Counted(s) /\ s.rr_c < s.count[s.target]
      /\ s.mod = r.mod /\ s.count = r.count /\ s.c = r.c
      /\ s.ptr = r.ptr /\ s.ep = r.ep
      /\ \/ s = r
         \/ /\ s.target > r.target /\ s.rr_c = 0 /\ s.arr = NullRef
            /\ r.rr_c = r.count[r.target]
            /\ \A u \in 0 .. 3 : u > r.target /\ u < s.target => r.count[u] = 0
  BY <1>1, LocatedCounts
<1> HIDE DEF s
<1>3. CASE s = r
  BY <1>2, <1>3 DEF s
<1>4. CASE s # r
  <2>1. /\ s.target > r.target /\ s.rr_c = 0 /\ s.arr = NullRef
        /\ r.rr_c = r.count[r.target]
        /\ \A u \in 0 .. 3 : u > r.target /\ u < s.target => r.count[u] = 0
    BY <1>2, <1>4
  <2>2. s.target \in 0 .. 3 /\ r.target \in 0 .. 3
    BY <1>1, <1>2, RrFields
  <2>3. ArrayOpen(s)
    BY <1>1, <1>2, <2>1, <2>2 DEF ArrayOpen
  <2>4. \A t \in 0 .. 3 : InSection(s, t) = InSection(r, t)
    BY <1>2 DEF InSection
  <2>5. Sectioned(s)
    <3> SUFFICES ASSUME NEW t \in 0 .. 3
                 PROVE  Len(InSection(s, t)) = IF t < s.target THEN s.count[t]
                                               ELSE IF t = s.target THEN s.rr_c ELSE 0
      BY <1>1, <1>2, <2>4 DEF Sectioned
    <3>1. Len(InSection(s, t)) = IF t < r.target THEN r.count[t]
                                 ELSE IF t = r.target THEN r.rr_c ELSE 0
      BY <1>1, <2>4 DEF Sectioned
    <3> QED
      BY <1>2, <2>1, <2>2, <3>1
  <2>6. HoldsRecords(s)
    BY <1>1, <1>2, <2>4 DEF HoldsRecords
  <2>7. s.ptr <= s.ep /\ s.ep <= pd.end
    BY <1>2 DEF RrOK
  <2> QED
    BY <1>2, <2>3, <2>5, <2>6, <2>7 DEF RrOK, s
<1> QED
  BY <1>3, <1>4

(* The array that gets the record is that of the section.                  *)
LEMMA ArrayOfSection ==
  ASSUME Filed, NEW r, RrOK(r)
  PROVE  Array(r) = <<p_record(r.mod, r.target), 1>>
<1>1. r.mod \in NsMods /\ r.target \in 0 .. 3
  BY RrFields DEF RrOK
<1>2. CASE r.arr = NullRef
  <2>1. idx[p_record(r.mod, r.target)] = 0
    BY <1>1, <1>2 DEF RrOK, ArrayOpen
  <2> QED
    BY <1>2, <2>1 DEF Array, Retained
<1>3. CASE r.arr # NullRef
  BY <1>3 DEF Array, RrOK, ArrayOpen
<1> QED
  BY <1>2, <1>3

(* What one iteration files.                                               *)
FilesOne(r, set, ps, val) ==
  LET m == r.mod
      rec == <<m, "records">>
      arr == p_record(m, r.target)
  IN /\ Sound(ps, val)
     /\ Update(ps, val)
     /\ \A p \in ps : p[1] = m
     /\ rec \in ps
     /\ arr \in ps <=> r.arr = NullRef
     /\ arr \in DOMAIN val /\ val[arr] = Push(Retained(rec))
     /\ \A t \in 0 .. 3 : t # r.target => p_record(m, t) \notin ps \cup DOMAIN val
     /\ \E links : /\ val[rec] = LinkTo(links)
                   /\ "data" \in DOMAIN links <=> "data" \in DOMAIN set
                   /\ "data" \in DOMAIN links => links["data"] # NullRef

(* One iteration of the loop files one record in the array of its section. *)
LEMMA FileIsSound ==
  ASSUME DecodeHyp, NEW r, RrOK(r), r.ptr < r.ep, NEW set,
         DOMAIN set \subseteq {"type", "data"},
         \A a \in DOMAIN set : Here(<<r.mod, a>>, set[a]), File(r, set)
  PROVE  \E ps, val : FilesOne(r, set, ps, val)
<1> DEFINE m == r.mod
           rec == <<m, "records">>
           arr == p_record(m, r.target)
           bytes == [n \in {"name"} \cup DOMAIN set |->
                      IF n = "name" THEN Bytes(r.ptr, r.ep - r.ptr) ELSE set[n]]
           new == {m} \X ({"records", "name", "type"} \cup DOMAIN set)
           links == [n \in {"name", "type"} \cup DOMAIN set |-> Retained(<<m, n>>)]
           ps == new \cup (IF r.arr = NullRef THEN {arr} ELSE {})
           plain == {m} \X ({"name"} \cup DOMAIN set)
           val == [p \in {rec, arr} \cup plain |->
                    CASE p = rec -> LinkTo(links)
                      [] p = arr -> Push(Retained(rec))
                      [] OTHER   -> SetTo(bytes[p[2]])]
<1>1. /\ m \in NsMods /\ r.target \in 0 .. 3 /\ r.ptr \in Nat /\ r.ep \in Nat
      /\ r.ep <= pd.end
  BY RrFields DEF RrOK
<1>2. Array(r)[1] = arr
  BY ArrayOfSection DEF DecodeHyp, PropertyInv
<1>3. Update(ps, val)
  <2>1. DOMAIN bytes = {"name"} \cup DOMAIN set
    OBVIOUS
  <2> QED
    BY <1>2, <2>1 DEF File
<1>4. /\ arr \in Params /\ arr \in Arrays /\ arr[1] = m
      /\ rec \in Params /\ rec \in Maps
  BY <1>1, SectionParams
<1>5. arr \notin Maps /\ rec \notin Arrays /\ arr # rec
  BY <1>4, MapsAreNotArrays
<1>6. Here(<<m, "name">>, Bytes(r.ptr, r.ep - r.ptr))
  <2>1. pd.end \in Nat /\ r.ep - r.ptr \in Nat /\ r.ptr + (r.ep - r.ptr) <= pd.end
    BY <1>1 DEF DecodeHyp, CursorOK
  <2> QED
    BY <1>1, <2>1, BytesInPacket DEF DecodeHyp, Shape
<1>7. \A a \in {"name", "type", "data"} : <<m, a>> \in Plains
  BY <1>1, PlainParams DEF Fields
<1>8. \A p \in plain : /\ p[1] = m /\ p[2] \in {"name"} \cup DOMAIN set
                       /\ p = <<m, p[2]>> /\ p \in Plains
  BY <1>7
<1>9. \A p \in plain : Here(p, bytes[p[2]])
  <2> TAKE p \in plain
  <2>1. p[2] = "name" \/ p[2] \in DOMAIN set
    BY <1>8
  <2>2. p = <<m, p[2]>>
    BY <1>8
  <2>3. CASE p[2] = "name"
    BY <1>6, <2>2, <2>3
  <2>4. CASE p[2] # "name"
    <3>1. bytes[p[2]] = set[p[2]]
      BY <2>1, <2>4
    <3> QED
      BY <2>1, <2>2, <2>4, <3>1
  <2> QED
    BY <2>3, <2>4
<1>10. \A p \in new : /\ p[1] = m
                      /\ p = rec \/ p \in Plains
  <2> TAKE p \in new
  <2>1. p[1] = m /\ p = <<m, p[2]>>
        /\ (p[2] = "records" \/ p[2] \in {"name", "type"} \cup DOMAIN set)
    OBVIOUS
  <2> QED
    BY <1>7, <2>1
<1>11. /\ plain \subseteq new /\ rec \in new
       /\ \A a \in {"name", "type"} \cup DOMAIN set : <<m, a>> \in new
  OBVIOUS
<1>12. /\ DOMAIN val = {rec, arr} \cup plain
       /\ val[rec] = LinkTo(links)
       /\ val[arr] = Push(Retained(rec))
       /\ \A p \in plain : val[p] = SetTo(bytes[p[2]])
  <2>1. rec \notin plain /\ arr \notin plain
    BY <1>4, <1>8 DEF Plains
  <2>2. DOMAIN val = {rec, arr} \cup plain
    OBVIOUS
  <2> HIDE DEF rec, arr, plain, links, bytes
  <2> QED
    BY <1>5, <2>1, <2>2
<1>13. /\ DOMAIN links = {"name", "type"} \cup DOMAIN set
       /\ \A a \in DOMAIN links : links[a] = Retained(<<m, a>>)
  OBVIOUS
<1>14. ps = new \/ ps = new \cup {arr}
  OBVIOUS
<1>15. arr \in ps <=> r.arr = NullRef
  <2>1. arr \notin new
    BY <1>4, <1>5, <1>10 DEF Plains
  <2> QED
    BY <2>1
<1>16. \A t \in 0 .. 3 : t # r.target => p_record(m, t) \notin ps \cup DOMAIN val
  <2> TAKE t \in 0 .. 3
  <2> SUFFICES ASSUME t # r.target PROVE p_record(m, t) \notin ps \cup DOMAIN val
    OBVIOUS
  <2>1. p_record(m, t) # arr /\ p_record(m, t) \in Arrays /\ p_record(m, t) \notin Maps
    BY <1>1, SectionParams, MapsAreNotArrays
  <2>2. p_record(m, t) \notin Plains /\ p_record(m, t) # rec
    BY <1>4, <2>1 DEF Plains
  <2> HIDE DEF new, plain, val, ps, arr, rec
  <2> QED
    BY <1>8, <1>10, <1>12, <1>14, <2>1, <2>2
<1> HIDE DEF val, bytes, links, new, plain, ps, arr
<1>17. \A p \in ps : p \in Params /\ p[1] = m
  BY <1>4, <1>10, <1>14 DEF Plains
<1>18. new \subseteq ps /\ rec \in ps
  BY <1>11, <1>14
<1>19. \A q \in ps : Retained(q) \in Params \X Nat /\ Retained(q) # NullRef
  <2> TAKE q \in ps
  <2>1. q \in Params /\ idx[q] \in Nat
    BY <1>17 DEF DecodeHyp, PropertyInv, Filed
  <2> QED
    BY <2>1 DEF Retained, NullRef
<1>20. /\ links \in NewLinks(ps) /\ {"name", "type"} \subseteq DOMAIN links
       /\ "data" \in DOMAIN links => links["data"] # NullRef
  <2>1. \A a \in DOMAIN links : <<m, a>> \in ps
    BY <1>11, <1>13, <1>18
  <2>2. DOMAIN links \in SUBSET Fields
    BY <1>13 DEF Fields
  <2>3. links = [a \in DOMAIN links |-> links[a]]
    BY DEF links
  <2>4. links \in [DOMAIN links -> Params \X Nat]
    <3>1. \A a \in DOMAIN links : links[a] \in Params \X Nat
      BY <1>13, <1>19, <2>1
    <3> QED
      BY <2>3, <3>1
  <2>5. links \in Links
    BY <2>2, <2>4 DEF Links
  <2> QED
    BY <1>13, <1>19, <2>1, <2>5 DEF NewLinks
<1>21. Sound(ps, val)
  <2>1. \A p \in DOMAIN val : p \in ps \/ (p \in Arrays /\ idx[p] > 0)
    <3>1. r.arr # NullRef => idx[arr] > 0
      BY <1>1 DEF RrOK, ArrayOpen, arr
    <3> QED
      BY <1>4, <1>11, <1>12, <1>15, <1>18, <3>1
  <2>2. \A p \in plain : p \in Params /\ p \notin Arrays /\ p \notin Maps
    BY <1>8 DEF Plains
  <2>3. DOMAIN val \subseteq Params
    BY <1>4, <1>12, <2>2
  <2>4. \A p \in DOMAIN val : p \in Arrays => p = arr
    BY <1>5, <1>12, <2>2
  <2>5. \A p \in DOMAIN val : p \in Maps => p = rec
    BY <1>5, <1>12, <2>2
  <2>6. \A p \in ps \cap Maps : p = rec
    BY <1>5, <1>10, <1>14 DEF Plains
  <2>7. \A p \in plain : \E b \in ByteRanges :
          val[p] = SetTo(b) /\ b.pkt = pkt /\ InPacket(p, b)
    BY <1>9, <1>12 DEF Here
  <2>8. \A p \in DOMAIN val : p \notin Arrays \cup Maps => p \in plain
    BY <1>4, <1>12
  <2>9. ps \in SUBSET Params
    BY <1>17
  <2>10. \A p \in DOMAIN val : p \in Arrays => \E q \in ps : val[p] = Push(Retained(q))
    BY <1>12, <1>18, <2>4
  <2>11. \A p \in DOMAIN val : p \in Maps => \E l \in NewLinks(ps) : val[p] = LinkTo(l)
    BY <1>12, <1>20, <2>5
  <2>12. \A p \in ps \cap Maps :
           /\ p \in DOMAIN val
           /\ \E l \in NewLinks(ps) : val[p] = LinkTo(l) /\ {"name", "type"} \subseteq DOMAIN l
    BY <1>12, <1>20, <2>6
  <2> HIDE DEF rec, m
  <2> QED
    BY <2>1, <2>3, <2>7, <2>8, <2>9, <2>10, <2>11, <2>12 DEF Sound
<1>22. "data" \in DOMAIN links <=> "data" \in DOMAIN set
  BY <1>13
<1>23. FilesOne(r, set, ps, val)
  BY <1>3, <1>12, <1>15, <1>16, <1>17, <1>18, <1>20, <1>21, <1>22 DEF FilesOne, arr
<1> QED
  BY <1>23

(* One iteration: the values are in place, the array of the section is one *)
(* longer, and the record has resource data if the iteration has set it.   *)
LEMMA FileStep ==
  ASSUME DecodeHyp, NEW r, RrOK(r), r.ptr < r.ep, NEW set,
         DOMAIN set \subseteq {"type", "data"},
         \A a \in DOMAIN set : Here(<<r.mod, a>>, set[a]), File(r, set),
         pkt' = pkt, pd' = pd
  PROVE  LET rec == <<r.mod, "records">>
             arr == p_record(r.mod, r.target)
             new == <<rec, idx[rec] + 1>>
         IN /\ StepOK(r.mod)
            /\ \A i \in 1 .. idx[rec] : param'[rec][i] = param[rec][i]
            /\ (param'[rec][idx[rec] + 1].map["data"] # NullRef) <=> "data" \in DOMAIN set
            /\ idx'[arr] = 1
            /\ param'[arr][1].array = Append(InSection(r, r.target), new)
            /\ InSection(r, r.target) \in Seq(Params \X Nat)
            /\ \A t \in 0 .. 3 : t # r.target =>
                 LET p == p_record(r.mod, t)
                 IN idx'[p] = idx[p] /\ (idx[p] = 1 => param'[p][1] = param[p][1])
<1> DEFINE m == r.mod
           rec == <<m, "records">>
           arr == p_record(m, r.target)
           new == <<rec, idx[rec] + 1>>
<1>1. PICK ps, val : FilesOne(r, set, ps, val)
  BY FileIsSound
<1>2. /\ Sound(ps, val) /\ Update(ps, val)
      /\ \A p \in ps : p[1] = m
      /\ rec \in ps
      /\ arr \in ps <=> r.arr = NullRef
      /\ arr \in DOMAIN val /\ val[arr] = Push(Retained(rec))
      /\ \A t \in 0 .. 3 : t # r.target => p_record(m, t) \notin ps \cup DOMAIN val
  BY <1>1 DEF FilesOne
<1>3. PICK links : /\ val[rec] = LinkTo(links)
                   /\ "data" \in DOMAIN links <=> "data" \in DOMAIN set
                   /\ "data" \in DOMAIN links => links["data"] # NullRef
  BY <1>1 DEF FilesOne
<1>4. Filed /\ KindsApart /\ PropertyInv /\ CursorOK(pd)
  BY DEF DecodeHyp, PropertyInv
<1>5. /\ m \in NsMods /\ r.target \in 0 .. 3 /\ ArrayOpen(r) /\ Sectioned(r)
  BY RrFields DEF RrOK
<1>6. /\ arr \in Params /\ arr \in Arrays /\ rec \in Params /\ rec \in Maps
      /\ \A t \in 0 .. 3 : p_record(m, t) \in Params
  BY <1>5, SectionParams
<1>7. Retained(rec) = new
  BY DEF Retained
<1>8. StepOK(m)
  <2>1. PropertyInv' /\ FilledBy(m)
    BY <1>2, <1>4, UpdateKeepsProperty
  <2> QED
    BY <1>4, <2>1 DEF StepOK
<1>9. \A i \in 1 .. idx[rec] : param'[rec][i] = param[rec][i]
  <2> HIDE DEF rec
  <2>1. idx'[rec] = idx[rec] + 1 /\ idx'[rec] <= Len(param'[rec]) /\ idx[rec] \in Nat
        /\ param'[rec] \in Seq(Values)
    BY <1>2, <1>4, <1>6, OthersUntouched DEF Filed
  <2>2. \A i \in 1 .. idx[rec] : i \in 1 .. Len(param'[rec]) /\ i # idx'[rec]
    BY <2>1
  <2> QED
    BY <1>2, <1>4, <1>6, <2>2, OthersUntouched
<1>10. (param'[rec][idx[rec] + 1].map["data"] # NullRef) <=> "data" \in DOMAIN set
  <2> HIDE DEF rec
  <2>1. idx'[rec] = idx[rec] + 1
    BY <1>2, <1>4, <1>6, OthersUntouched
  <2>2. param'[rec][idx'[rec]].map["data"] =
          IF "data" \in DOMAIN links THEN links["data"] ELSE NullRef
    BY <1>2, <1>3, <1>4, <1>6, NewestMap
  <2> QED
    BY <1>3, <2>1, <2>2
<1>11. idx[arr] = IF r.arr = NullRef THEN 0 ELSE 1
  BY <1>5 DEF ArrayOpen
<1>12. idx'[arr] = 1
  <2> HIDE DEF arr
  <2>1. idx'[arr] = IF arr \in ps THEN idx[arr] + 1 ELSE idx[arr]
    BY <1>2, <1>4, <1>6, OthersUntouched
  <2> QED
    BY <1>2, <1>11, <2>1
<1>13. InSection(r, r.target) = IF arr \in ps THEN <<>> ELSE param[arr][idx[arr]].array
  BY <1>2, <1>11 DEF InSection
<1>14. /\ param'[arr][1].array = Append(InSection(r, r.target), new)
       /\ InSection(r, r.target) \in Seq(Params \X Nat)
  <2> DEFINE before == IF arr \in ps THEN <<>> ELSE param[arr][idx[arr]].array
  <2>1. /\ before \in Seq(Params \X Nat)
        /\ \A q \in ps : arr \in DOMAIN val /\ val[arr] = Push(Retained(q)) =>
             param'[arr][idx'[arr]].array = Append(before, Retained(q))
    <3> HIDE DEF arr
    <3> QED
      BY <1>2, <1>4, <1>6, NewestArray
  <2> HIDE DEF before, arr
  <2>2. InSection(r, r.target) = before
    BY <1>13 DEF before
  <2>3. param'[arr][idx'[arr]].array = Append(before, new)
    BY <1>2, <1>7, <2>1
  <2> QED
    BY <1>12, <2>1, <2>2, <2>3
<1>15. ASSUME NEW t \in 0 .. 3, t # r.target, NEW p, p = p_record(m, t)
       PROVE  idx'[p] = idx[p] /\ (idx[p] = 1 => param'[p][1] = param[p][1])
  <2>1. p \in Params /\ p \notin ps \cup DOMAIN val
    BY <1>2, <1>6, <1>15
  <2>2. idx'[p] = idx[p] /\ idx'[p] <= Len(param'[p]) /\ param'[p] \in Seq(Values)
    BY <1>2, <1>4, <2>1, OthersUntouched
  <2>3. idx[p] = 1 => 1 \in 1 .. Len(param'[p])
    BY <2>2
  <2> QED
    BY <1>2, <1>4, <2>1, <2>2, <2>3, OthersUntouched
<1> HIDE DEF m, rec, arr, new
<1>16. \A t \in 0 .. 3 : t # r.target =>
         LET p == p_record(m, t)
         IN idx'[p] = idx[p] /\ (idx[p] = 1 => param'[p][1] = param[p][1])
  BY <1>15
<1> QED
  BY <1>8, <1>9, <1>10, <1>12, <1>14, <1>16 DEF m, rec, arr, new

(* The loop is as it should be before the next iteration.  A question has  *)
(* no resource data, every other record has.                               *)
LEMMA IterationStep ==
  ASSUME DecodeHyp, NEW r, RrOK(r), r.ptr < r.ep, r.rr_c < r.count[r.target], NEW set,
         DOMAIN set \subseteq {"type", "data"},
         \A a \in DOMAIN set : Here(<<r.mod, a>>, set[a]), File(r, set),
         pkt' = pkt, pd' = pd,
         "data" \in DOMAIN set <=> r.c >= r.count[0],
         NEW ptr \in Nat, ptr <= r.ep, GoOn(r, ptr)
  PROVE  StepOK(r.mod) /\ RrOK(rr)'
<1> DEFINE rec == <<r.mod, "records">>
           arr == p_record(r.mod, r.target)
           new == <<rec, idx[rec] + 1>>
           old == InSection(r, r.target)
<1>1. /\ StepOK(r.mod)
      /\ \A i \in 1 .. idx[rec] : param'[rec][i] = param[rec][i]
      /\ (param'[rec][idx[rec] + 1].map["data"] # NullRef) <=> "data" \in DOMAIN set
      /\ idx'[arr] = 1
      /\ param'[arr][1].array = Append(old, new)
      /\ old \in Seq(Params \X Nat)
      /\ \A t \in 0 .. 3 : t # r.target =>
           LET p == p_record(r.mod, t)
           IN idx'[p] = idx[p] /\ (idx[p] = 1 => param'[p][1] = param[p][1])
  BY FileStep
<1>2. /\ r \in RrLocals /\ Counted(r) /\ ArrayOpen(r) /\ Sectioned(r) /\ HoldsRecords(r)
      /\ r.ep <= pd.end
  BY DEF RrOK
<1>3. /\ r.mod \in NsMods /\ r.count \in [0 .. 3 -> Nat] /\ r.c \in Nat
      /\ r.target \in 0 .. 3 /\ r.rr_c \in Nat /\ r.ep \in Nat
  BY <1>2, RrFields
<1>4. Array(r) = <<arr, 1>> /\ <<arr, 1>> \in Refs /\ <<arr, 1>> # NullRef
  BY <1>3, ArrayOfSection, SectionParams DEF DecodeHyp, PropertyInv, Refs, NullRef
<1>5. rr' = [r EXCEPT !.c = @ + 1, !.rr_c = @ + 1, !.arr = Array(r), !.ptr = ptr]
  BY DEF GoOn
<1>6. /\ rr'.mod = r.mod /\ rr'.count = r.count /\ rr'.c = r.c + 1
      /\ rr'.target = r.target /\ rr'.rr_c = r.rr_c + 1 /\ rr'.arr = <<arr, 1>>
      /\ rr'.ptr = ptr /\ rr'.ep = r.ep
  BY <1>2, <1>4, <1>5 DEF RrLocals
<1>7. rr' \in RrLocals
  <2>1. r.c + 1 \in Nat /\ r.rr_c + 1 \in Nat
    BY <1>3
  <2> QED
    BY <1>2, <1>4, <1>5, <2>1 DEF RrLocals
<1>8. Counted(rr)'
  <2>1. Records(r.count, r.target) \in Nat
    <3>1. r.count[0] \in Nat /\ r.count[1] \in Nat /\ r.count[2] \in Nat /\ r.count[3] \in Nat
      BY <1>3
    <3> QED
      BY <1>3, <3>1, RecordsSum
  <2>2. r.c = Records(r.count, r.target) + r.rr_c
    BY <1>2 DEF Counted
  <2>3. r.c + 1 = Records(r.count, r.target) + (r.rr_c + 1)
    BY <1>3, <2>1, <2>2
  <2>4. r.rr_c + 1 <= r.count[r.target]
    BY <1>3
  <2> QED
    BY <1>6, <2>3, <2>4 DEF Counted
<1>9. r.target = 0 <=> r.c < r.count[0]
  <2>1. r.c = Records(r.count, r.target) + r.rr_c
    BY <1>2 DEF Counted
  <2>2. r.count[0] \in Nat /\ r.count[1] \in Nat /\ r.count[2] \in Nat /\ r.count[3] \in Nat
    BY <1>3
  <2>3. CASE r.target = 0
    <3>1. Records(r.count, 0) = 0
      BY <1>3, RecordsSum
    <3> QED
      BY <1>3, <2>1, <2>3, <3>1
  <2>4. CASE r.target # 0
    <3>1. Records(r.count, r.target) \in Nat /\ Records(r.count, r.target) >= r.count[0]
      BY <1>3, <2>2, <2>4, RecordsSum
    <3> QED
      BY <1>3, <2>1, <2>2, <2>4, <3>1
  <2> QED
    BY <2>3, <2>4
<1>10. ArrayOpen(rr)'
  <2>1. \A t \in 0 .. 3 : t > r.target => idx'[p_record(r.mod, t)] = 0
    BY <1>1, <1>2, <1>3 DEF ArrayOpen
  <2>2. ~(<<arr, 1>> = NullRef)
    BY <1>4
  <2> QED
    BY <1>1, <1>6, <2>1, <2>2 DEF ArrayOpen
<1>11. \A t \in 0 .. 3 : idx[p_record(r.mod, t)] \in {0, 1}
  <2> TAKE t \in 0 .. 3
  <2>1. idx[p_record(r.mod, t)] \in Nat
    BY <1>3, SectionParams DEF DecodeHyp, PropertyInv, Filed
  <2>2. idx[p_record(r.mod, t)] <= 1
    BY <1>2 DEF Sectioned
  <2> QED
    BY <2>1, <2>2
<1>12. ASSUME NEW t \in 0 .. 3
       PROVE  InSection(rr, t)' = IF t = r.target THEN Append(old, new) ELSE InSection(r, t)
  <2>1. InSection(rr, t)' = IF idx'[p_record(r.mod, t)] = 0 THEN <<>>
                            ELSE param'[p_record(r.mod, t)][1].array
    BY <1>6 DEF InSection
  <2>2. CASE t = r.target
    <3>1. p_record(r.mod, t) = arr
      BY <2>2
    <3> HIDE DEF arr, old, new
    <3>2. InSection(rr, t)' = param'[arr][1].array
      BY <1>1, <2>1, <3>1
    <3> QED
      BY <1>1, <2>2, <3>2
  <2>3. CASE t # r.target
    BY <1>1, <1>11, <2>1, <2>3 DEF InSection
  <2> QED
    BY <2>2, <2>3
<1>13. ASSUME NEW t \in 0 .. 3, NEW k \in 1 .. Len(InSection(r, t))
       PROVE  /\ InSection(r, t)[k][1] = rec
              /\ InSection(r, t)[k][2] \in 1 .. idx[rec]
  <2> DEFINE p == p_record(r.mod, t)
  <2>1. InSection(r, t)[k][1] = rec
    BY <1>2 DEF HoldsRecords
  <2>2. p \in Params /\ idx[p] = 1 /\ InSection(r, t) = param[p][1].array
    <3>1. idx[p] # 0
      <4> SUFFICES ASSUME idx[p] = 0 PROVE FALSE
        OBVIOUS
      <4>1. InSection(r, t) = <<>>
        BY DEF InSection
      <4> QED
        BY <4>1
    <3> QED
      BY <1>3, <1>11, <3>1, SectionParams DEF InSection
  <2>3. Seen(param[p][1].array[k])
    <3> HIDE DEF p
    <3>1. 1 \in 1 .. idx[p] /\ k \in 1 .. Len(param[p][1].array) /\ NothingStale
      BY <2>2 DEF DecodeHyp, PropertyInv
    <3> QED
      BY <2>2, <3>1, StaleBySeen
  <2>4. InSection(r, t)[k] # NullRef
    <3>1. param[p][1] \in Values
      <4> HIDE DEF p
      <4> QED
        BY <2>2 DEF DecodeHyp, PropertyInv, Filed
    <3>2. InSection(r, t)[k] \in Params \X Nat
      <4> HIDE DEF p
      <4> QED
        BY <2>2, <3>1 DEF Values
    <3>3. InSection(r, t)[k] = <<InSection(r, t)[k][1], InSection(r, t)[k][2]>>
      BY <3>2
    <3>4. \A a, b : <<a, b>> # NullRef
      BY DEF NullRef
    <3> QED
      BY <3>3, <3>4
  <2> QED
    BY <2>1, <2>2, <2>3, <2>4 DEF Seen
<1>14. ASSUME NEW t \in 0 .. 3
       PROVE  /\ idx'[p_record(r.mod, t)] <= 1
              /\ Len(InSection(rr, t)') = IF t < r.target THEN r.count[t]
                                          ELSE IF t = r.target THEN r.rr_c + 1 ELSE 0
              /\ \A k \in 1 .. Len(InSection(rr, t)') :
                   LET ref == InSection(rr, t)'[k]
                   IN /\ ref[1] = rec
                      /\ (param'[rec][ref[2]].map["data"] # NullRef) <=> t # 0
  <2>1. /\ idx[p_record(r.mod, t)] <= 1
        /\ Len(InSection(r, t)) = IF t < r.target THEN r.count[t]
                                  ELSE IF t = r.target THEN r.rr_c ELSE 0
        /\ \A k \in 1 .. Len(InSection(r, t)) :
             LET ref == InSection(r, t)[k]
             IN (param[ref[1]][ref[2]].map["data"] # NullRef) <=> t # 0
    BY <1>2 DEF Sectioned
  <2>2. ASSUME NEW k \in 1 .. Len(InSection(r, t))
        PROVE  /\ InSection(r, t)[k][1] = rec
               /\ (param'[rec][InSection(r, t)[k][2]].map["data"] # NullRef) <=> t # 0
    <3>1. InSection(r, t)[k][1] = rec /\ InSection(r, t)[k][2] \in 1 .. idx[rec]
      BY <1>13
    <3>2. (param[rec][InSection(r, t)[k][2]].map["data"] # NullRef) <=> t # 0
      BY <2>1, <3>1
    <3> HIDE DEF rec
    <3> QED
      BY <1>1, <3>1, <3>2
  <2>3. CASE t # r.target
    <3>1. InSection(rr, t)' = InSection(r, t) /\ idx'[p_record(r.mod, t)] <= 1
      BY <1>1, <1>12, <2>1, <2>3
    <3> QED
      BY <2>1, <2>2, <2>3, <3>1
  <2>4. CASE t = r.target
    <3>1. InSection(rr, t)' = Append(old, new) /\ old = InSection(r, t)
      BY <1>12, <2>4
    <3>2. new[1] = rec /\ new[2] = idx[rec] + 1
      OBVIOUS
    <3>3. (param'[rec][new[2]].map["data"] # NullRef) <=> t # 0
      BY <1>1, <1>3, <1>9, <2>4, <3>2
    <3> HIDE DEF old, new, rec
    <3>4. Len(Append(old, new)) = Len(old) + 1
      BY <1>1
    <3>5. \A k \in 1 .. Len(Append(old, new)) :
            \/ Append(old, new)[k] = new
            \/ k \in 1 .. Len(old) /\ Append(old, new)[k] = old[k]
      BY <1>1
    <3>6. idx'[p_record(r.mod, t)] <= 1
      BY <1>1, <2>4
    <3>7. Len(old) = r.rr_c
      BY <1>3, <2>1, <2>4, <3>1
    <3>8. \A k \in 1 .. Len(InSection(rr, t)') :
             LET ref == InSection(rr, t)'[k]
             IN /\ ref[1] = rec
                /\ (param'[rec][ref[2]].map["data"] # NullRef) <=> t # 0
      BY <2>2, <3>1, <3>2, <3>3, <3>5
    <3> QED
      BY <1>3, <2>4, <3>1, <3>4, <3>6, <3>7, <3>8
  <2> QED
    BY <2>3, <2>4
<1>15. Sectioned(rr)'
  <2> HIDE DEF rec
  <2>1. \A t \in 0 .. 3 : \A k \in 1 .. Len(InSection(rr, t)') :
          LET ref == InSection(rr, t)'[k]
          IN (param'[ref[1]][ref[2]].map["data"] # NullRef) <=> t # 0
    BY <1>14
  <2> QED
    BY <1>6, <1>14, <2>1 DEF Sectioned
<1>16. HoldsRecords(rr)'
  BY <1>6, <1>14 DEF HoldsRecords
<1>17. rr'.ptr <= rr'.ep /\ rr'.ep <= pd'.end
  BY <1>2, <1>6
<1> QED
  BY <1>1, <1>7, <1>8, <1>10, <1>15, <1>16, <1>17 DEF RrOK

(* The header of a message opens the loop with its counts.                 *)
LEMMA NsHeaderStep ==
  ASSUME DecodeHyp, OnceEach, NEW m \in NsMods, NsHeader(m)
  PROVE  StepOK(m) /\ RrOK(rr)'
<1> DEFINE d == AfterHdr(m)
<1>1. PICK count \in RrCounts, ev \in NsEvents[m] :
        /\ Enter(m, <<ev>>)
        /\ pd' = retain(d, d.length)
        /\ Put(m, [hdr |-> Hdr(m)])
        /\ rr' = [mod |-> m, count |-> count, c |-> 0, target |-> 0, rr_c |-> 0,
                  arr |-> NullRef, ptr |-> d.ptr, ep |-> d.ptr + d.length]
  BY DEF NsHeader
<1>2. CanRetain(pd, HdrLen[m]) /\ pkt' = pkt /\ m \in Modules /\ next = m
  BY <1>1 DEF Enter, Modules
<1>3. CursorOK(d) /\ d.end = pd.end
  BY <1>2, HeaderFits DEF DecodeHyp
<1> HIDE DEF d
<1>4. CursorOK(pd') /\ pd'.end = pd.end
  BY <1>1, <1>3, AllCanBeRetained, RetainStays
<1>5. StepOK(m)
  BY <1>1, <1>2, <1>4, HeaderOnly
<1>6. /\ rr'.mod = m /\ rr'.count = count /\ rr'.c = 0 /\ rr'.target = 0 /\ rr'.rr_c = 0
      /\ rr'.arr = NullRef /\ rr'.ptr = d.ptr /\ rr'.ep = d.ptr + d.length
  BY <1>1
<1>7. count \in [0 .. 3 -> Nat] /\ count[0] \in Nat
  BY DecoderAssumption
<1>8. d.ptr \in Nat /\ d.length \in Nat /\ d.ptr + d.length <= pd.end
  BY <1>3 DEF CursorOK
<1>9. rr' \in RrLocals
  <2>1. NullRef \in Refs /\ d.ptr + d.length \in Nat /\ 0 \in Nat /\ 0 \in 0 .. 3
    BY <1>8 DEF Refs
  <2> QED
    BY <1>1, <1>7, <1>8, <2>1 DEF RrLocals
<1>10. Counted(rr)'
  <2>1. Records(count, 0) = 0
    BY <1>7, RecordsSum
  <2> QED
    BY <1>6, <1>7, <2>1 DEF Counted
<1>11. \A t \in 0 .. 3 : idx'[p_record(m, t)] = 0
  <2> TAKE t \in 0 .. 3
  <2> DEFINE p == p_record(m, t)
  <2>1. p \in Params /\ p[1] = m /\ p # <<m, "hdr">>
    BY SectionParams
  <2>2. Layer[m] = 5
    BY DEF Layer, NsMods
  <2> HIDE DEF p
  <2>3. idx[p] \in Nat /\ ~(idx[p] > 0)
    BY <1>2, <2>1, <2>2 DEF OnceEach, DecodeHyp, PropertyInv, Filed
  <2>4. idx'[p] = idx[p]
    <3>1. DOMAIN [hdr |-> Hdr(m)] = {"hdr"}
      OBVIOUS
    <3>2. p \notin {m} \X {"hdr"}
      BY <2>1
    <3> QED
      BY <1>1, <2>1, <3>1, <3>2 DEF Put, Update
  <2> QED
    BY <2>3, <2>4 DEF p
<1>12. ArrayOpen(rr)'
  BY <1>6, <1>11 DEF ArrayOpen
<1>13. \A t \in 0 .. 3 : InSection(rr, t)' = <<>>
  BY <1>6, <1>11 DEF InSection
<1>14. Sectioned(rr)' /\ HoldsRecords(rr)'
  <2>1. \A t \in 0 .. 3 : Len(InSection(rr, t)') = 0
    BY <1>13
  <2>2. \A t \in 0 .. 3 : 1 .. Len(InSection(rr, t)') = {}
    BY <2>1
  <2> QED
    BY <1>6, <1>11, <2>1, <2>2 DEF Sectioned, HoldsRecords
<1>15. rr'.ptr <= rr'.ep /\ rr'.ep <= pd'.end
  BY <1>4, <1>6, <1>8
<1> QED
  BY <1>5, <1>9, <1>10, <1>12, <1>14, <1>15 DEF RrOK

(* What the guards of an iteration give.                                   *)
LEMMA ReadyLocated ==
  ASSUME DecodeHyp, LoopInv, NsReady
  PROVE  /\ RrOK(Located(rr)) /\ Located(rr).ptr = rr.ptr /\ Located(rr).ep = rr.ep
         /\ Located(rr).rr_c < Located(rr).count[Located(rr).target]
         /\ Located(rr).ptr < Located(rr).ep /\ rr.ptr \in Nat /\ rr.ep \in Nat
         /\ rr.ep <= pd.end
         /\ pkt' = pkt /\ pd' = pd
<1>1. RrOK(rr) /\ rr.c < Records(rr.count, 4) /\ rr.ptr < rr.ep /\ pkt' = pkt /\ pd' = pd
  BY DEF LoopInv, NsReady, InRecords
<1>2. rr.ptr \in Nat /\ rr.ep \in Nat /\ rr.ep <= pd.end
  BY <1>1, RrFields DEF RrOK
<1>3. PICK r : r = rr
  OBVIOUS
<1>4. RrOK(Located(r)) /\ Located(r).rr_c < Located(r).count[Located(r).target]
      /\ Located(r).ptr = r.ptr /\ Located(r).ep = r.ep
  BY <1>1, <1>3, LocatedOK
<1> QED
  BY <1>1, <1>2, <1>3, <1>4

(* A question.                                                             *)
LEMMA NsQuestionStep ==
  ASSUME DecodeHyp, LoopInv, NsQuestion
  PROVE  (\E m \in NsMods : StepOK(m) /\ rr.mod = m) /\ RrOK(rr)'
<1>1. PICK name \in Names, r \in {Located(rr)} :
        /\ r.c < r.count[0]
        /\ r.ep - (r.ptr + name) >= 4
        /\ File(r, [type |-> Bytes(r.ptr + name, 2)])
        /\ GoOn(r, r.ptr + name + 4)
  BY DEF NsQuestion
<1>2. /\ RrOK(r) /\ r.ptr = rr.ptr /\ r.ep = rr.ep /\ r.rr_c < r.count[r.target]
      /\ r.ptr < r.ep /\ r.ptr \in Nat /\ r.ep \in Nat /\ r.ep <= pd.end
      /\ pkt' = pkt /\ pd' = pd
  BY ReadyLocated DEF NsQuestion
<1>3. name \in Nat
  BY DecoderAssumption DEF Names
<1>4. /\ r.mod \in NsMods /\ r.c \in Nat /\ r.count[0] \in Nat /\ r.mod = rr.mod
  <2>1. r \in RrLocals /\ rr \in RrLocals
    BY <1>2 DEF RrOK, LoopInv, NsQuestion, NsReady, InRecords
  <2>2. Located(rr).mod = rr.mod
    BY <2>1 DEF Located, RrLocals
  <2> QED
    BY <1>1, <2>1, <2>2, RrFields
<1> DEFINE p == r.ptr + name
           set == [type |-> Bytes(p, 2)]
<1>5. DOMAIN set = {"type"} /\ set["type"] = Bytes(p, 2)
  OBVIOUS
<1>6. p \in Nat /\ p + 4 <= r.ep /\ p + 4 \in Nat /\ p + 2 <= pd.end
  BY <1>1, <1>2, <1>3 DEF DecodeHyp, CursorOK
<1>7. File(r, set) /\ GoOn(r, p + 4)
  BY <1>1
<1> HIDE DEF p, set
<1>8. Here(<<r.mod, "type">>, Bytes(p, 2))
  BY <1>6, BytesInPacket DEF DecodeHyp, Shape
<1>9. /\ DOMAIN set \subseteq {"type", "data"}
      /\ \A a \in DOMAIN set : Here(<<r.mod, a>>, set[a])
      /\ "data" \in DOMAIN set <=> r.c >= r.count[0]
  BY <1>1, <1>4, <1>5, <1>8
<1>10. StepOK(r.mod) /\ RrOK(rr)'
  <2> DEFINE ptr == p + 4
  <2>1. ptr \in Nat /\ ptr <= r.ep /\ GoOn(r, ptr)
    BY <1>6, <1>7
  <2> HIDE DEF ptr
  <2> QED
    BY <1>2, <1>7, <1>9, <2>1, IterationStep
<1> QED
  BY <1>4, <1>10

(* A record with resource data, in one of the other sections.              *)
LEMMA NsAnswerStep ==
  ASSUME DecodeHyp, LoopInv, NsAnswer
  PROVE  (\E m \in NsMods : StepOK(m) /\ rr.mod = m) /\ RrOK(rr)'
<1>1. PICK name \in Names, data \in DataLens, r \in {Located(rr)} :
        /\ r.c >= r.count[0]
        /\ r.ep - (r.ptr + name) >= 10 + data
        /\ File(r, [type |-> Bytes(r.ptr + name, 2), data |-> Bytes(r.ptr + name + 10, data)])
        /\ GoOn(r, r.ptr + name + 10 + data)
  BY DEF NsAnswer
<1>2. /\ RrOK(r) /\ r.ptr = rr.ptr /\ r.ep = rr.ep /\ r.rr_c < r.count[r.target]
      /\ r.ptr < r.ep /\ r.ptr \in Nat /\ r.ep \in Nat /\ r.ep <= pd.end
      /\ pkt' = pkt /\ pd' = pd
  BY ReadyLocated DEF NsAnswer
<1>3. name \in Nat /\ data \in Nat
  BY DecoderAssumption DEF Names
<1>4. /\ r.mod \in NsMods /\ r.c \in Nat /\ r.count[0] \in Nat /\ r.mod = rr.mod
  <2>1. r \in RrLocals /\ rr \in RrLocals
    BY <1>2 DEF RrOK, LoopInv, NsAnswer, NsReady, InRecords
  <2>2. Located(rr).mod = rr.mod
    BY <2>1 DEF Located, RrLocals
  <2> QED
    BY <1>1, <2>1, <2>2, RrFields
<1> DEFINE p == r.ptr + name
           set == [type |-> Bytes(p, 2), data |-> Bytes(p + 10, data)]
<1>5. DOMAIN set = {"type", "data"} /\ set["type"] = Bytes(p, 2)
      /\ set["data"] = Bytes(p + 10, data)
  OBVIOUS
<1>6. /\ p \in Nat /\ p + 10 + data <= r.ep /\ p + 10 + data \in Nat /\ p + 2 <= pd.end
      /\ p + 10 \in Nat /\ p + 10 + data <= pd.end
  BY <1>1, <1>2, <1>3 DEF DecodeHyp, CursorOK
<1>7. File(r, set) /\ GoOn(r, p + 10 + data)
  BY <1>1
<1> HIDE DEF p, set
<1>8. Here(<<r.mod, "type">>, Bytes(p, 2)) /\ Here(<<r.mod, "data">>, Bytes(p + 10, data))
  BY <1>3, <1>6, BytesInPacket DEF DecodeHyp, Shape
<1>9. /\ DOMAIN set \subseteq {"type", "data"}
      /\ \A a \in DOMAIN set : Here(<<r.mod, a>>, set[a])
      /\ "data" \in DOMAIN set <=> r.c >= r.count[0]
  BY <1>1, <1>4, <1>5, <1>8
<1>10. StepOK(r.mod) /\ RrOK(rr)'
  <2> DEFINE ptr == p + 10 + data
  <2>1. ptr \in Nat /\ ptr <= r.ep /\ GoOn(r, ptr)
    BY <1>6, <1>7
  <2> HIDE DEF ptr
  <2> QED
    BY <1>2, <1>7, <1>9, <2>1, IterationStep
<1> QED
  BY <1>4, <1>10

(* A record that breaks off ends the loop with what has been set.          *)
LEMMA NsBrokenStep ==
  ASSUME DecodeHyp, LoopInv, NsBroken
  PROVE  \E m \in NsMods : StepOK(m) /\ rr.mod = m
<1>1. PICK r : r = Located(rr)
  OBVIOUS
<1>2. /\ RrOK(r) /\ r.ptr = rr.ptr /\ r.ep = rr.ep
      /\ r.ptr < r.ep /\ r.ptr \in Nat /\ r.ep \in Nat /\ r.ep <= pd.end
      /\ pkt' = pkt /\ pd' = pd
  BY <1>1, ReadyLocated DEF NsBroken
<1>3. r.mod \in NsMods /\ r.mod = rr.mod
  <2>1. r \in RrLocals /\ rr \in RrLocals
    BY <1>2 DEF RrOK, LoopInv, NsBroken, NsReady, InRecords
  <2>2. Located(rr).mod = rr.mod
    BY <2>1 DEF Located, RrLocals
  <2> QED
    BY <1>1, <2>1, <2>2, RrFields
<1>4. CASE File(r, <<>>)
  <2>1. DOMAIN <<>> = {}
    OBVIOUS
  <2> QED
    BY <1>2, <1>3, <1>4, <2>1, FileStep
<1>5. CASE \E name \in Names : r.ep - (r.ptr + name) >= 4
                               /\ File(r, [type |-> Bytes(r.ptr + name, 2)])
  <2>1. PICK name \in Names : r.ep - (r.ptr + name) >= 4
                              /\ File(r, [type |-> Bytes(r.ptr + name, 2)])
    BY <1>5
  <2>2. name \in Nat
    BY DecoderAssumption DEF Names
  <2> DEFINE p == r.ptr + name
             set == [type |-> Bytes(p, 2)]
  <2>3. DOMAIN set = {"type"} /\ set["type"] = Bytes(p, 2) /\ File(r, set)
    BY <2>1
  <2>4. p \in Nat /\ p + 2 <= pd.end
    BY <1>2, <2>1, <2>2 DEF DecodeHyp, CursorOK
  <2> HIDE DEF p, set
  <2>5. Here(<<r.mod, "type">>, Bytes(p, 2))
    BY <2>4, BytesInPacket DEF DecodeHyp, Shape
  <2>6. /\ DOMAIN set \subseteq {"type", "data"}
        /\ \A a \in DOMAIN set : Here(<<r.mod, a>>, set[a])
    BY <2>3, <2>5
  <2> QED
    BY <1>2, <1>3, <2>3, <2>6, FileStep
<1> QED
  BY <1>1, <1>4, <1>5 DEF NsBroken

-----------------------------------------------------------------------------
(* Events                                                                  *)

(* push_event() writes behind the events of the packet and nowhere else.   *)
LEMMA Pushed ==
  ASSUME event \in Seq(Events), event_idx \in 0 .. Len(event), NEW evs \in Seq(Events),
         push_event(evs)
  PROVE  /\ event' \in Seq(Events)
         /\ event_idx' = event_idx + Len(evs)
         /\ event_idx' \in 0 .. Len(event')
         /\ \A i \in 1 .. event_idx : event'[i] = event[i]
         /\ \A j \in 1 .. Len(evs) : event'[event_idx + j] = evs[j]
<1> DEFINE n == event_idx
           l == Len(evs)
           head == SubSeq(event, 1, n)
           tail == SubSeq(event, n + l + 1, Len(event))
<1>1. n \in Nat /\ l \in Nat /\ Len(event) \in Nat /\ n <= Len(event)
  OBVIOUS
<1>2. head \in Seq(Events) /\ Len(head) = n /\ \A i \in 1 .. n : head[i] = event[i]
  BY <1>1
<1>3. tail \in Seq(Events)
  BY <1>1
<1>4. event' = head \o evs \o tail /\ event_idx' = n + l
  BY DEF push_event
<1> HIDE DEF head, tail, n
<1>5. /\ head \o evs \in Seq(Events) /\ Len(head \o evs) = n + l
      /\ \A i \in 1 .. n : (head \o evs)[i] = head[i]
      /\ \A j \in 1 .. l : (head \o evs)[n + j] = evs[j]
  BY <1>1, <1>2
<1> DEFINE mid == head \o evs
<1>6. /\ mid \in Seq(Events) /\ Len(mid) = n + l
      /\ \A i \in 1 .. n : mid[i] = head[i]
      /\ \A j \in 1 .. l : mid[n + j] = evs[j]
  BY <1>5
<1> HIDE DEF mid
<1>7. /\ mid \o tail \in Seq(Events) /\ Len(mid \o tail) = n + l + Len(tail)
      /\ Len(tail) \in Nat
      /\ \A i \in 1 .. n + l : (mid \o tail)[i] = mid[i]
  BY <1>1, <1>3, <1>6
<1>8. event' = mid \o tail
  BY <1>4 DEF mid
<1>9. event_idx' \in 0 .. Len(event')
  BY <1>1, <1>4, <1>7, <1>8
<1>10. \A i \in 1 .. n : event'[i] = event[i]
  BY <1>1, <1>2, <1>6, <1>7, <1>8
<1>11. \A j \in 1 .. l : event'[n + j] = evs[j]
  <2> TAKE j \in 1 .. l
  <2>1. n + j \in 1 .. n + l
    BY <1>1
  <2> QED
    BY <1>6, <1>7, <1>8, <2>1
<1> QED
  BY <1>4, <1>7, <1>8, <1>9, <1>10, <1>11 DEF n

(* The protocol stack.                                                     *)
LEMMA Stack ==
  /\ Modules \subseteq Events
  /\ After["Ethernet"] = {"ARP", "IPv4", "Dot1Q", "PPPoE"}
  /\ After["Dot1Q"] = {"ARP", "IPv4", "PPPoE"}
  /\ After["PPPoE"] = {"IPv4"}
  /\ After["IPv4"] = {"ICMP", "TCP", "UDP"}
  /\ After["UDP"] = {"DNS", "MDNS", "DHCP"}
  /\ \A e \in event_map["ARP"] \ {"ARP"} : e \in Events /\ e \in After["ARP"]
  /\ \A e \in event_map["TCP"] \ {"TCP"} : e \in Events /\ e \in After["TCP"]
  /\ \A m \in NsMods : \A e \in NsEvents[m] : e \in Events /\ e \in After[m]
<1>1. ASSUME NEW m \in Modules PROVE event_map[m] \subseteq Events
  BY DEF Events
<1>2. \A m \in Modules : m \in event_map[m]
  BY DEF event_map, Modules, NsMods
<1>3. Modules \subseteq Events
  BY <1>1, <1>2
<1>4. {"Ethernet", "Dot1Q", "PPPoE", "IPv4", "UDP", "ARP", "TCP", "DNS", "MDNS"} \subseteq Events
  BY <1>3 DEF Modules, NsMods
<1>5. /\ After["Ethernet"] = {"ARP", "IPv4", "Dot1Q", "PPPoE"}
      /\ After["Dot1Q"] = {"ARP", "IPv4", "PPPoE"}
      /\ After["PPPoE"] = {"IPv4"}
      /\ After["IPv4"] = {"ICMP", "TCP", "UDP"}
      /\ After["UDP"] = {"DNS", "MDNS", "DHCP"}
      /\ After["ARP"] = {"ARP.request", "ARP.reply"}
      /\ After["TCP"] = {"TCP.new_session", "TCP.established", "TCP.closed"}
  BY <1>4 DEF After, NsMods
<1>6. After["DNS"] = NsEvents["DNS"] /\ After["MDNS"] = NsEvents["MDNS"]
  BY <1>4 DEF After, NsMods
<1>7. /\ event_map["ARP"] = {"ARP", "ARP.request", "ARP.reply"}
      /\ event_map["TCP"] = {"TCP", "TCP.new_session", "TCP.established", "TCP.closed"}
  BY DEF event_map
<1>8. \A m \in NsMods : NsEvents[m] = event_map[m] \ {m}
  BY DEF NsEvents
<1>9. event_map["ARP"] \subseteq Events /\ event_map["TCP"] \subseteq Events
      /\ \A m \in NsMods : event_map[m] \subseteq Events
  BY <1>1 DEF Modules
<1>10. \A m \in NsMods : After[m] = NsEvents[m]
  BY <1>6 DEF NsMods
<1> QED
  BY <1>3, <1>5, <1>7, <1>8, <1>9, <1>10

-----------------------------------------------------------------------------
(* The chain                                                               *)

Running == IF next = "DHCP.options" THEN "DHCP" ELSE IF next = "records" THEN rr.mod ELSE next

(* A module pushes its own event first, and at most one more, which ends   *)
(* the chain.                                                              *)
Raises ==
  IF next \in Modules
  THEN \E evs : /\ push_event(evs)
                /\ \/ evs = <<next>>
                   \/ /\ next' \notin Modules
                      /\ \E e \in Events : e \in After[next] /\ evs = <<next, e>>
  ELSE UNCHANGED <<event, event_idx>>

(* What the steps of all modules have in common.                           *)
Chain ==
  /\ pkt' = pkt /\ enable_ssn_mgmt' = enable_ssn_mgmt
  /\ StepOK(Running)
  /\ next' \in Modules \cup {NONE, "DHCP.options", "records"}
  /\ next' \in Modules => next \in Modules /\ next' \in After[next]
  /\ next' \in NsMods => idx'[<<"UDP", "hdr">>] > 0
  /\ next' = "DHCP.options" => idx'[<<"DHCP", "options">>] > 0
  /\ next' = "records" => next \in NsMods \cup {"records"} /\ RrOK(rr)'
  /\ addr' \in {addr, pkt} /\ port' \in {port, pkt}
  /\ next' \in {"TCP", "UDP"} => addr' = pkt
  /\ next \in {"TCP", "UDP"} => port' = pkt \/ idx' = idx
  /\ Raises

ChainHyp == DecodeHyp /\ OnceEach /\ LoopInv

(* Two sequences of one element.                                           *)
LEMMA Joined ==
  ASSUME NEW S, NEW a \in S, NEW b \in S
  PROVE  <<a>> \o <<b>> = <<a, b>>
<1>1. <<a>> \in Seq(S) /\ <<b>> \in Seq(S) /\ <<a, b>> \in Seq(S)
  OBVIOUS
<1>2. Len(<<a>>) = 1 /\ Len(<<b>>) = 1 /\ Len(<<a, b>>) = 2
  OBVIOUS
<1> DEFINE s == <<a>> \o <<b>>
<1>3. s \in Seq(S) /\ Len(s) = 2 /\ s[1] = a /\ s[2] = b
  BY <1>1, <1>2
<1> HIDE DEF s
<1>4. s = [i \in 1 .. 2 |-> s[i]]
  BY <1>3
<1>5. s = <<a, b>>
  BY <1>3, <1>4
<1> QED
  BY <1>5 DEF s

(* What a module pushes after its own event ends the chain.                *)
LEMMA EnterRaises ==
  ASSUME NEW m \in Modules, NEW evs, Enter(m, evs),
         \/ evs = <<>>
         \/ next' \notin Modules /\ \E e \in Events : e \in After[m] /\ evs = <<e>>
  PROVE  /\ Raises /\ next = m /\ Running = m
         /\ pkt' = pkt /\ enable_ssn_mgmt' = enable_ssn_mgmt
<1>1. next = m /\ push_event(<<m>> \o evs) /\ pkt' = pkt /\ enable_ssn_mgmt' = enable_ssn_mgmt
  BY DEF Enter
<1>2. Running = m
  BY <1>1 DEF Running, Modules, NsMods
<1>3. CASE evs = <<>>
  <2>1. <<m>> \o <<>> = <<m>>
    OBVIOUS
  <2> QED
    BY <1>1, <1>2, <1>3, <2>1 DEF Raises
<1>4. CASE next' \notin Modules /\ \E e \in Events : e \in After[m] /\ evs = <<e>>
  <2>1. PICK e \in Events : e \in After[m] /\ evs = <<e>>
    BY <1>4
  <2>2. <<m>> \o <<e>> = <<m, e>>
    BY Joined, Stack
  <2>3. <<m>> \o evs = <<m, e>>
    BY <2>1, <2>2
  <2> QED
    BY <1>1, <1>2, <1>4, <2>1, <2>3 DEF Raises
<1> QED
  BY <1>3, <1>4

(* Names that are no module's.                                             *)
LEMMA NoModule ==
  /\ NONE \notin Modules /\ "DHCP.options" \notin Modules /\ "records" \notin Modules
  /\ "new" \notin Modules /\ "refused" \notin Modules
  /\ NsMods \subseteq Modules
  /\ {"Ethernet", "Dot1Q", "PPPoE", "ARP", "IPv4", "ICMP", "UDP", "TCP", "DHCP"}
       \subseteq Modules
  /\ NONE \notin {"DHCP.options", "records"}
BY DEF NONE, Modules, NsMods

(* The packet ends inside the header: the module sets nothing and returns  *)
(* no next one.                                                            *)
LEMMA TooShortChain ==
  ASSUME ChainHyp, NEW m \in Modules, TooShort(m)
  PROVE  Chain
<1>1. /\ next = m /\ push_event(<<m>>) /\ next' = NONE
      /\ UNCHANGED <<enable_ssn_mgmt, pkt, pd, size, param, idx, addr, port, rr>>
  BY DEF TooShort
<1>2. Running = m
  BY <1>1 DEF Running, Modules, NsMods
<1>3. PropertyInv' /\ FilledBy(m)
  BY <1>1, UnchangedKeepsProperty DEF ChainHyp, DecodeHyp
<1>4. StepOK(Running)
  BY <1>1, <1>2, <1>3 DEF StepOK, ChainHyp, DecodeHyp
<1>5. Raises
  BY <1>1 DEF Raises
<1> QED
  BY <1>1, <1>4, <1>5, NoModule DEF Chain

(* Ethernet, Dot1Q and ICMP.                                               *)
LEMMA PlainChain ==
  ASSUME ChainHyp, NEW m \in {"Ethernet", "Dot1Q", "ICMP"}, NEW nexts,
         \A n \in nexts : n = NONE \/ (n \in After[m] /\ n \in {"ARP", "IPv4", "Dot1Q", "PPPoE"}),
         Plain(m, nexts)
  PROVE  Chain
<1>1. m \in Modules /\ Enter(m, <<>>) /\ next' \in nexts /\ UNCHANGED <<addr, port, rr>>
  BY NoModule DEF Plain
<1>2. /\ Raises /\ next = m /\ Running = m
      /\ pkt' = pkt /\ enable_ssn_mgmt' = enable_ssn_mgmt
  BY <1>1, EnterRaises
<1>3. StepOK(Running)
  BY <1>1, <1>2, PlainStep DEF ChainHyp
<1>4. /\ next' \in Modules \cup {NONE}
      /\ next' \in Modules => next' \in After[m]
      /\ next' \notin NsMods \cup {"TCP", "UDP", "DHCP.options", "records"}
  BY <1>1, NoModule DEF NONE, NsMods
<1>5. m \notin {"TCP", "UDP"}
  OBVIOUS
<1> QED
  BY <1>1, <1>2, <1>3, <1>4, <1>5 DEF Chain

(* PPPoE leads to IPv4 or to nothing.                                      *)
LEMMA PppoeChain ==
  ASSUME ChainHyp, PPPoE
  PROVE  Chain
<1>1. /\ Enter("PPPoE", <<>>) /\ next' \in {"IPv4", NONE} /\ UNCHANGED <<addr, port, rr>>
  BY DEF PPPoE
<1>2. /\ Raises /\ next = "PPPoE" /\ Running = "PPPoE"
      /\ pkt' = pkt /\ enable_ssn_mgmt' = enable_ssn_mgmt
  BY <1>1, EnterRaises, NoModule
<1>3. StepOK(Running)
  BY <1>2, PppoeStep DEF ChainHyp
<1>4. /\ next' \in Modules \cup {NONE}
      /\ next' \in Modules => next' \in After["PPPoE"]
      /\ next' \notin NsMods \cup {"TCP", "UDP", "DHCP.options", "records"}
  BY <1>1, Stack, NoModule DEF NONE, NsMods
<1> QED
  BY <1>1, <1>2, <1>3, <1>4, NoModule DEF Chain

(* ARP ends the chain.                                                     *)
LEMMA ArpChain ==
  ASSUME ChainHyp, ARP
  PROVE  Chain
<1>1. PICK ev \in ArpEvents : Enter("ARP", ev)
  BY DEF ARP
<1>2. next' = NONE /\ UNCHANGED <<addr, port, rr>>
  BY DEF ARP
<1>3. ev = <<>> \/ \E e \in Events : e \in After["ARP"] /\ ev = <<e>>
  BY Stack DEF ArpEvents
<1>4. /\ Raises /\ next = "ARP" /\ Running = "ARP"
      /\ pkt' = pkt /\ enable_ssn_mgmt' = enable_ssn_mgmt
  BY <1>1, <1>2, <1>3, EnterRaises, NoModule
<1>5. StepOK(Running)
  BY <1>4, ArpStep DEF ChainHyp
<1> QED
  BY <1>2, <1>4, <1>5, NoModule DEF Chain

(* IPv4 sets the addresses before TCP or UDP can run.                      *)
LEMMA IPv4Chain ==
  ASSUME ChainHyp, IPv4
  PROVE  Chain
<1>1. /\ Enter("IPv4", <<>>) /\ addr' = pkt /\ next' \in {"ICMP", "TCP", "UDP", NONE}
      /\ UNCHANGED <<port, rr>>
  BY DEF IPv4, set_addr
<1>2. /\ Raises /\ next = "IPv4" /\ Running = "IPv4"
      /\ pkt' = pkt /\ enable_ssn_mgmt' = enable_ssn_mgmt
  BY <1>1, EnterRaises, NoModule
<1>3. StepOK(Running)
  BY <1>2, IPv4Step DEF ChainHyp
<1>4. /\ next' \in Modules \cup {NONE}
      /\ next' \in Modules => next' \in After["IPv4"]
      /\ next' \notin NsMods \cup {"DHCP.options", "records"}
  BY <1>1, Stack, NoModule DEF NONE, NsMods
<1> QED
  BY <1>1, <1>2, <1>3, <1>4, NoModule DEF Chain

(* A header that claims less than its own length ends the chain.           *)
LEMMA IPv4InvalidChain ==
  ASSUME ChainHyp, IPv4Invalid
  PROVE  Chain
<1>1. /\ Enter("IPv4", <<>>) /\ pd' = AfterHdr("IPv4") /\ next' = NONE
      /\ UNCHANGED <<size, param, idx, addr, port, rr>>
  BY DEF IPv4Invalid
<1>2. /\ Raises /\ next = "IPv4" /\ Running = "IPv4"
      /\ pkt' = pkt /\ enable_ssn_mgmt' = enable_ssn_mgmt
  BY <1>1, EnterRaises, NoModule
<1>3. CursorOK(pd') /\ pd'.end = pd.end
  BY <1>1, HeaderFits, NoModule DEF ChainHyp, DecodeHyp, Enter
<1>4. PropertyInv' /\ FilledBy("IPv4")
  BY <1>1, <1>2, <1>3, UnchangedKeepsProperty DEF ChainHyp, DecodeHyp
<1>5. StepOK(Running)
  BY <1>2, <1>3, <1>4 DEF StepOK
<1> QED
  BY <1>1, <1>2, <1>5, NoModule DEF Chain

(* UDP sets the ports, and its header before a name service can run.       *)
LEMMA UdpChain ==
  ASSUME ChainHyp, UDP
  PROVE  Chain
<1>1. /\ Enter("UDP", <<>>) /\ port' = pkt /\ UNCHANGED <<addr, rr>>
      /\ next' \in {UdpNext(sport, dport) : sport, dport \in Ports}
  BY DEF UDP, set_port
<1>2. next' \in {"DNS", "MDNS", "DHCP", NONE}
  BY <1>1 DEF UdpNext
<1>3. /\ Raises /\ next = "UDP" /\ Running = "UDP"
      /\ pkt' = pkt /\ enable_ssn_mgmt' = enable_ssn_mgmt
  BY <1>1, EnterRaises, NoModule
<1>4. StepOK(Running) /\ idx'[<<"UDP", "hdr">>] > 0
  BY <1>3, UdpStep DEF ChainHyp
<1>5. /\ next' \in Modules \cup {NONE}
      /\ next' \in Modules => next' \in After["UDP"]
      /\ next' \notin {"TCP", "UDP", "DHCP.options", "records"}
  BY <1>2, Stack, NoModule DEF NONE, NsMods
<1> QED
  BY <1>1, <1>3, <1>4, <1>5, NoModule DEF Chain

(* TCP sets the ports and ends the chain.                                  *)
LEMMA TcpChain ==
  ASSUME ChainHyp, TCP
  PROVE  Chain
<1>1. PICK ev \in TcpEvents : Enter("TCP", ev)
  BY DEF TCP
<1>2. next' = NONE /\ port' = pkt /\ UNCHANGED <<addr, rr>>
  BY DEF TCP, set_port
<1>3. ev = <<>> \/ \E e \in Events : e \in After["TCP"] /\ ev = <<e>>
  BY Stack DEF TcpEvents
<1>4. /\ Raises /\ next = "TCP" /\ Running = "TCP"
      /\ pkt' = pkt /\ enable_ssn_mgmt' = enable_ssn_mgmt
  BY <1>1, <1>2, <1>3, EnterRaises, NoModule
<1>5. StepOK(Running)
  BY <1>4, TcpStep DEF ChainHyp
<1> QED
  BY <1>2, <1>4, <1>5, NoModule DEF Chain

(* DHCP retains the array of its options before their loop.                *)
LEMMA DhcpChain ==
  ASSUME ChainHyp, DHCP
  PROVE  Chain
<1>1. Enter("DHCP", <<>>) /\ next' = "DHCP.options" /\ UNCHANGED <<addr, port, rr>>
  BY DEF DHCP
<1>2. /\ Raises /\ next = "DHCP" /\ Running = "DHCP"
      /\ pkt' = pkt /\ enable_ssn_mgmt' = enable_ssn_mgmt
  BY <1>1, EnterRaises, NoModule
<1>3. StepOK(Running) /\ idx'[<<"DHCP", "options">>] > 0
  BY <1>2, DhcpStep DEF ChainHyp
<1> QED
  BY <1>1, <1>2, <1>3, NoModule DEF Chain

(* The loop over the options goes on with the array in use.                *)
LEMMA DhcpOptionChain ==
  ASSUME ChainHyp, DhcpOption
  PROVE  Chain
<1>1. /\ next = "DHCP.options"
      /\ UNCHANGED <<enable_ssn_mgmt, pkt, next, event, event_idx, addr, port, rr>>
  BY DEF DhcpOption
<1>2. idx[<<"DHCP", "options">>] > 0
  BY <1>1 DEF ChainHyp, LoopInv
<1>3. StepOK("DHCP")
  BY <1>2, DhcpOptionStep DEF ChainHyp
<1>4. Running = "DHCP"
  BY <1>1 DEF Running
<1>5. idx'[<<"DHCP", "options">>] > 0
  <2> DEFINE p == <<"DHCP", "options">>
  <2>1. p \in Params
    BY DEF Params, Arrays
  <2> HIDE DEF p
  <2>2. idx[p] <= idx'[p] /\ idx[p] \in Nat /\ idx'[p] \in Nat
    BY <1>3, <2>1 DEF StepOK, FilledBy, PropertyInv, Filed, ChainHyp, DecodeHyp
  <2> QED
    BY <1>2, <2>2 DEF p
<1>6. Raises
  BY <1>1, NoModule DEF Raises
<1> QED
  BY <1>1, <1>3, <1>4, <1>5, <1>6, NoModule DEF Chain, NsMods

(* The loop ends, at the end mark or the end of the packet.                *)
LEMMA DhcpEndChain ==
  ASSUME ChainHyp, DhcpEnd
  PROVE  Chain
<1>1. /\ next = "DHCP.options" /\ next' = NONE
      /\ pd' = IF CanRetain(pd, 2) THEN retain(pd, 2) ELSE pd
      /\ UNCHANGED <<enable_ssn_mgmt, pkt, size, param, idx, event, event_idx, addr, port, rr>>
  BY DEF DhcpEnd, propvars
<1>2. CursorOK(pd') /\ pd'.end = pd.end
  <2>1. CASE CanRetain(pd, 2)
    BY <1>1, <2>1, RetainStays DEF ChainHyp, DecodeHyp
  <2>2. CASE ~CanRetain(pd, 2)
    BY <1>1, <2>2 DEF ChainHyp, DecodeHyp
  <2> QED
    BY <2>1, <2>2
<1>3. PropertyInv' /\ FilledBy("DHCP")
  BY <1>1, <1>2, UnchangedKeepsProperty DEF ChainHyp, DecodeHyp
<1>4. Running = "DHCP"
  BY <1>1 DEF Running
<1>5. StepOK(Running)
  BY <1>2, <1>3, <1>4 DEF StepOK
<1>6. Raises
  BY <1>1, NoModule DEF Raises
<1> QED
  BY <1>1, <1>5, <1>6, NoModule DEF Chain

(* A name service goes on with its loop over the records.                  *)
LEMMA NsHeaderChain ==
  ASSUME ChainHyp, NEW m \in NsMods, NsHeader(m)
  PROVE  Chain
<1>1. PICK ev \in NsEvents[m] : Enter(m, <<ev>>)
  BY DEF NsHeader
<1>2. next' = "records" /\ UNCHANGED <<addr, port>>
  BY DEF NsHeader
<1>3. \E e \in Events : e \in After[m] /\ <<ev>> = <<e>>
  BY Stack
<1>4. /\ Raises /\ next = m /\ Running = m
      /\ pkt' = pkt /\ enable_ssn_mgmt' = enable_ssn_mgmt
  BY <1>1, <1>2, <1>3, EnterRaises, NoModule
<1>5. StepOK(Running) /\ RrOK(rr)'
  BY <1>4, NsHeaderStep DEF ChainHyp
<1> QED
  BY <1>2, <1>4, <1>5, NoModule DEF Chain, NsMods

(* An iteration leaves the locals of the loop in order.                    *)
LEMMA NsRecordChain ==
  ASSUME ChainHyp, NsQuestion \/ NsAnswer
  PROVE  Chain
<1>1. /\ next = "records" /\ next' = "records"
      /\ UNCHANGED <<enable_ssn_mgmt, pkt, event, event_idx, addr, port>>
  BY DEF NsQuestion, NsAnswer, NsReady, InRecords, GoOn
<1>2. (\E m \in NsMods : StepOK(m) /\ rr.mod = m) /\ RrOK(rr)'
  BY NsQuestionStep, NsAnswerStep DEF ChainHyp
<1>3. Running = rr.mod
  BY <1>1 DEF Running
<1>4. StepOK(Running)
  BY <1>2, <1>3
<1>5. Raises
  BY <1>1, NoModule DEF Raises
<1> QED
  BY <1>1, <1>2, <1>4, <1>5, NoModule DEF Chain, NsMods

(* The loop ends before its time.                                          *)
LEMMA NsBrokenChain ==
  ASSUME ChainHyp, NsBroken
  PROVE  Chain
<1>1. /\ next = "records" /\ next' = NONE
      /\ UNCHANGED <<enable_ssn_mgmt, pkt, event, event_idx, addr, port>>
  BY DEF NsBroken, NsReady, InRecords
<1>2. \E m \in NsMods : StepOK(m) /\ rr.mod = m
  BY NsBrokenStep DEF ChainHyp
<1>3. Running = rr.mod
  BY <1>1 DEF Running
<1>4. StepOK(Running)
  BY <1>2, <1>3
<1>5. Raises
  BY <1>1, NoModule DEF Raises
<1> QED
  BY <1>1, <1>4, <1>5, NoModule DEF Chain

(* The loop ends with all records, or without a byte for the next.         *)
LEMMA NsEndChain ==
  ASSUME ChainHyp, NsEnd
  PROVE  Chain
<1>1. /\ next = "records" /\ next' = NONE
      /\ UNCHANGED <<enable_ssn_mgmt, pkt, pd, event, event_idx, addr, port, size, param, idx>>
  BY DEF NsEnd, InRecords
<1>2. PICK m : m = rr.mod
  OBVIOUS
<1>3. PropertyInv' /\ FilledBy(m)
  BY <1>1, UnchangedKeepsProperty DEF ChainHyp, DecodeHyp
<1>4. Running = m
  BY <1>1, <1>2 DEF Running
<1>5. StepOK(Running)
  BY <1>1, <1>3, <1>4 DEF StepOK, ChainHyp, DecodeHyp
<1>6. Raises
  BY <1>1, NoModule DEF Raises
<1> QED
  BY <1>1, <1>5, <1>6, NoModule DEF Chain

(* Every step of decode() is a link of the chain.                          *)
LEMMA DecodeChain ==
  ASSUME ChainHyp, Decode
  PROVE  Chain
<1>1. CASE Ethernet
  BY <1>1, PlainChain, Stack DEF Ethernet
<1>2. CASE Dot1Q
  BY <1>2, PlainChain, Stack DEF Dot1Q
<1>3. CASE ICMP
  BY <1>3, PlainChain DEF ICMP
<1> QED
  BY <1>1, <1>2, <1>3, TooShortChain, PppoeChain, ArpChain, IPv4Chain, IPv4InvalidChain,
     UdpChain, TcpChain, DhcpChain, DhcpOptionChain, DhcpEndChain, NsHeaderChain,
     NsRecordChain, NsBrokenChain, NsEndChain DEF Decode

-----------------------------------------------------------------------------
(* The invariant: every part of it, after a link of the chain.             *)

(* The modules of the stack, from the outside in.                          *)
LEMMA Inwards ==
  \A m \in Modules : \A n \in Modules : n \in After[m] => Layer[m] < Layer[n]
<1>1. ASSUME NEW m \in {"Ethernet", "Dot1Q", "PPPoE", "IPv4", "UDP"}, NEW n \in After[m]
      PROVE  Layer[m] < Layer[n]
  BY Stack DEF Layer
<1>2. ASSUME NEW m \in {"ARP", "ICMP", "TCP", "DHCP", "DNS", "MDNS"}, NEW n \in After[m]
      PROVE  n \notin Modules
  <2>1. {"ARP", "ICMP", "TCP", "DHCP", "DNS", "MDNS"} \subseteq Events
    BY Stack DEF Modules, NsMods
  <2>2. CASE m \in NsMods
    <3>1. n \in event_map[m] \ {m}
      BY <2>1, <2>2 DEF After, NsMods, NsEvents
    <3>2. event_map["DNS"] = {"DNS", "DNS.query", "DNS.reply"}
          /\ event_map["MDNS"] = {"MDNS", "MDNS.query", "MDNS.reply"}
      BY DEF event_map
    <3> QED
      BY <2>2, <3>1, <3>2 DEF Modules, NsMods
  <2>3. CASE m \notin NsMods
    BY <2>1, <2>3 DEF After, NsMods, Modules
  <2> QED
    BY <2>2, <2>3
<1>3. Modules = {"Ethernet", "Dot1Q", "PPPoE", "IPv4", "UDP"}
                  \cup {"ARP", "ICMP", "TCP", "DHCP", "DNS", "MDNS"}
  BY DEF Modules, NsMods
<1> QED
  BY <1>1, <1>2, <1>3

(* The events are of a kind, and stay on a path of the stack.              *)
LEMMA RaisesKeepsPath ==
  ASSUME Shape, EventsFollowStack, Raises,
         next' \in Modules => next \in Modules /\ next' \in After[next]
  PROVE  /\ event' \in Seq(Events) /\ event_idx' \in 0 .. Len(event')
         /\ EventsFollowStack'
<1>1. CASE next \in Modules
  <2>1. PICK evs : /\ push_event(evs)
                   /\ \/ evs = <<next>>
                      \/ /\ next' \notin Modules
                         /\ \E e \in Events : e \in After[next] /\ evs = <<next, e>>
    BY <1>1 DEF Raises
  <2>2. PICK m \in Modules : m = next
    BY <1>1
  <2>3. m \in Events
    BY Stack
  <2> DEFINE n == event_idx
  <2>4. event \in Seq(Events) /\ n \in 0 .. Len(event) /\ n \in Nat
    BY DEF Shape
  <2>5. IF n = 0 THEN m = "Ethernet" ELSE m \in After[event[n]]
    BY <2>2 DEF EventsFollowStack
  <2>6. /\ n > 0 => event[1] = "Ethernet"
        /\ \A i \in 1 .. n - 1 : event[i + 1] \in After[event[i]]
    BY DEF EventsFollowStack
  <2>7. CASE evs = <<m>>
    <3>1. evs \in Seq(Events) /\ Len(evs) = 1 /\ evs[1] = m
      BY <2>3, <2>7
    <3>2. /\ event' \in Seq(Events) /\ event_idx' = n + 1
          /\ event_idx' \in 0 .. Len(event')
          /\ \A i \in 1 .. n : event'[i] = event[i]
          /\ event'[n + 1] = m
      <4>1. /\ event' \in Seq(Events) /\ event_idx' = n + Len(evs)
            /\ event_idx' \in 0 .. Len(event')
            /\ \A i \in 1 .. n : event'[i] = event[i]
            /\ \A j \in 1 .. Len(evs) : event'[n + j] = evs[j]
        BY <2>1, <2>4, <3>1, Pushed
      <4> HIDE DEF n
      <4>2. \A j \in 1 .. 1 : event'[n + j] = evs[j]
        BY <3>1, <4>1
      <4> QED
        BY <3>1, <4>1, <4>2
    <3> HIDE DEF n
    <3>3. event_idx' > 0 => event'[1] = "Ethernet"
      BY <2>4, <2>5, <2>6, <3>2
    <3>4. \A i \in 1 .. event_idx' - 1 : event'[i + 1] \in After[event'[i]]
      <4> SUFFICES ASSUME NEW i \in 1 .. event_idx' - 1
                   PROVE  event'[i + 1] \in After[event'[i]]
        OBVIOUS
      <4>1. i \in 1 .. n /\ (i # n => i + 1 \in 1 .. n /\ i \in 1 .. n - 1)
        BY <2>4, <3>2
      <4>2. CASE i = n
        BY <2>4, <2>5, <3>2, <4>1, <4>2
      <4>3. CASE i # n
        BY <2>6, <3>2, <4>1, <4>3
      <4> QED
        BY <4>2, <4>3
    <3>5. next' \in Modules => event_idx' # 0 /\ next' \in After[event'[event_idx']]
      BY <2>2, <2>4, <3>2
    <3> QED
      BY <3>2, <3>3, <3>4, <3>5 DEF EventsFollowStack
  <2>8. CASE next' \notin Modules /\ \E e \in Events : e \in After[m] /\ evs = <<m, e>>
    <3>0. PICK e \in Events : e \in After[m] /\ evs = <<m, e>>
      BY <2>8
    <3>1. evs \in Seq(Events) /\ Len(evs) = 2 /\ evs[1] = m /\ evs[2] = e
      BY <2>3, <3>0
    <3>2. /\ event' \in Seq(Events) /\ event_idx' = n + 2
          /\ event_idx' \in 0 .. Len(event')
          /\ \A i \in 1 .. n : event'[i] = event[i]
          /\ event'[n + 1] = m
          /\ event'[n + 2] = e
      <4>1. /\ event' \in Seq(Events) /\ event_idx' = n + Len(evs)
            /\ event_idx' \in 0 .. Len(event')
            /\ \A i \in 1 .. n : event'[i] = event[i]
            /\ \A j \in 1 .. Len(evs) : event'[n + j] = evs[j]
        BY <2>1, <2>4, <3>1, Pushed
      <4> HIDE DEF n
      <4>2. \A j \in 1 .. 2 : event'[n + j] = evs[j]
        BY <3>1, <4>1
      <4> QED
        BY <3>1, <4>1, <4>2
    <3> HIDE DEF n
    <3>3. event_idx' > 0 => event'[1] = "Ethernet"
      BY <2>4, <2>5, <2>6, <3>2
    <3>4. \A i \in 1 .. event_idx' - 1 : event'[i + 1] \in After[event'[i]]
      <4> SUFFICES ASSUME NEW i \in 1 .. event_idx' - 1
                   PROVE  event'[i + 1] \in After[event'[i]]
        OBVIOUS
      <4>1. i \in 1 .. n + 1 /\ (i < n => i + 1 \in 1 .. n /\ i \in 1 .. n - 1)
        BY <2>4, <3>2
      <4>2. CASE i = n
        BY <2>4, <2>5, <3>2, <4>1, <4>2
      <4>3. CASE i < n
        <5>1. i \in 1 .. n /\ i + 1 \in 1 .. n /\ i \in 1 .. n - 1
          BY <2>4, <4>1, <4>3
        <5>2. event[i + 1] \in After[event[i]]
          BY <2>6, <5>1
        <5> QED
          BY <3>2, <5>1, <5>2
      <4>4. CASE i = n + 1
        <5>1. i + 1 = n + 2
          BY <2>4, <4>4
        <5> QED
          BY <3>0, <3>2, <4>4, <5>1
      <4> QED
        BY <2>4, <4>1, <4>2, <4>3, <4>4
    <3> QED
      BY <2>8, <3>2, <3>3, <3>4 DEF EventsFollowStack
  <2> QED
    BY <2>1, <2>2, <2>7, <2>8
<1>2. CASE next \notin Modules
  <2>1. UNCHANGED <<event, event_idx>> /\ next' \notin Modules
    BY <1>2 DEF Raises
  <2> QED
    BY <2>1 DEF Shape, EventsFollowStack
<1> QED
  BY <1>1, <1>2

(* The parameters by their modules.                                        *)
LEMMA OwnerIsModule == \A p \in Params : p[1] \in Modules
BY DEF Params, Arrays, p_record, Modules, NsMods

(* Layers are numbers.                                                     *)
LEMMA LayerType == Layer \in [Modules -> Nat]
BY DEF Layer, Modules, NsMods

(* Every module has a header.                                              *)
LEMMA HdrParams == \A m \in Modules : <<m, "hdr">> \in Params
BY DEF Params, Modules, NsMods

(* Which module a step of the chain is a part of.                          *)
LEMMA RunningIs ==
  ASSUME LoopInv
  PROVE  /\ next \in Modules => Running = next
         /\ next = "DHCP.options" => Running = "DHCP"
         /\ next = "records" => Running \in NsMods
         /\ next \notin Modules \cup {"DHCP.options", "records"} => Running \notin Modules
<1>1. next = "records" => rr.mod \in NsMods
  BY DEF LoopInv, RrOK, RrLocals
<1> QED
  BY <1>1, NoModule DEF Running

(* No module runs twice for a packet: the next one is further in than all  *)
(* that have run.                                                          *)
LEMMA ChainOnceEach ==
  ASSUME DecoderInv, Chain
  PROVE  OnceEach'
<1> SUFFICES ASSUME next' \in Modules, NEW p \in Params, idx'[p] > 0
             PROVE  Layer[p[1]] < Layer[next']
  BY DEF OnceEach
<1>1. next \in Modules /\ next' \in After[next]
  BY DEF Chain
<1>2. Layer[next] < Layer[next']
  BY <1>1, Inwards
<1>3. Layer[p[1]] \in Nat /\ Layer[next] \in Nat /\ Layer[next'] \in Nat
  BY <1>1, LayerType, OwnerIsModule
<1>4. Running = next
  BY <1>1, RunningIs DEF DecoderInv
<1>5. FilledBy(Running)
  BY DEF Chain, StepOK
<1>6. CASE p[1] = next
  BY <1>2, <1>6
<1>7. CASE p[1] # next
  <2>1. idx'[p] = idx[p]
    BY <1>4, <1>5, <1>7 DEF FilledBy
  <2>2. Layer[p[1]] < Layer[next]
    BY <1>1, <2>1 DEF DecoderInv, OnceEach
  <2> QED
    BY <1>2, <1>3, <2>2
<1> QED
  BY <1>6, <1>7

(* A name service runs after UDP only.                                     *)
LEMMA ChainAfterUdp ==
  ASSUME DecoderInv, Chain
  PROVE  AfterUdp'
<1> SUFFICES ASSUME NEW m \in NsMods,
                    next' \in {m, "records"} \/ idx'[<<m, "hdr">>] > 0
             PROVE  idx'[<<"UDP", "hdr">>] > 0
  BY DEF AfterUdp
<1> DEFINE u == <<"UDP", "hdr">>
           h == <<m, "hdr">>
<1>1. u \in Params /\ h \in Params
  BY HdrParams, NoModule
<1>2. h[1] = m
  OBVIOUS
<1>3. next \in NsMods \cup {"records"} \/ idx[h] > 0 => idx[u] > 0
  BY DEF DecoderInv, AfterUdp
<1>4. FilledBy(Running) /\ Filed /\ Filed'
  BY DEF Chain, StepOK, PropertyInv, DecoderInv
<1> HIDE DEF u, h
<1>5. idx[u] \in Nat /\ idx'[u] \in Nat /\ idx[u] <= idx'[u]
  BY <1>1, <1>4 DEF FilledBy, Filed
<1>6. idx[u] > 0 => idx'[u] > 0
  BY <1>5
<1>7. CASE next' = m
  BY <1>7 DEF Chain, u
<1>8. CASE next' = "records"
  BY <1>3, <1>6, <1>8 DEF Chain, u
<1>9. CASE idx'[h] > 0
  <2>1. CASE Running = m
    <3>1. m \in Modules /\ m # "DHCP"
      BY NoModule DEF NsMods
    <3>2. next \in NsMods \cup {"records"}
      BY <2>1, <3>1, RunningIs DEF DecoderInv
    <3> QED
      BY <1>3, <1>6, <3>2 DEF u
  <2>2. CASE Running # m
    <3>1. idx'[h] = idx[h]
      BY <1>1, <1>2, <1>4, <2>2 DEF FilledBy
    <3> QED
      BY <1>3, <1>6, <1>9, <3>1 DEF u
  <2> QED
    BY <2>1, <2>2
<1> QED
  BY <1>7, <1>8, <1>9 DEF h

(* Addresses and ports belong to the packet where they are used.           *)
LEMMA ChainKey ==
  ASSUME DecoderInv, Chain
  PROVE  KeyIsOfThisPacket'
<1> SUFFICES ASSUME NEW m \in {"TCP", "UDP"}
             PROVE  /\ next' = m => addr' = pkt'
                    /\ idx'[<<m, "hdr">>] > 0 => addr' = pkt' /\ port' = pkt'
  BY DEF KeyIsOfThisPacket
<1> DEFINE h == <<m, "hdr">>
<1>1. h \in Params /\ h[1] = m
  BY HdrParams, NoModule
<1>2. pkt' = pkt /\ addr' \in {addr, pkt} /\ port' \in {port, pkt}
  BY DEF Chain
<1>3. next' = m => addr' = pkt
  BY DEF Chain
<1>4. (next = m => addr = pkt) /\ (idx[h] > 0 => addr = pkt /\ port = pkt)
  BY DEF DecoderInv, KeyIsOfThisPacket
<1>5. next = m => port' = pkt \/ idx' = idx
  BY DEF Chain
<1>6. FilledBy(Running)
  BY DEF Chain, StepOK
<1> HIDE DEF h
<1>7. ASSUME idx'[h] > 0 PROVE addr' = pkt /\ port' = pkt
  <2>1. CASE idx[h] > 0
    BY <1>2, <1>4, <2>1
  <2>2. CASE ~(idx[h] > 0)
    <3>1. idx'[h] # idx[h]
      BY <1>7, <2>2
    <3>2. Running = m
      BY <1>1, <1>6, <3>1 DEF FilledBy
    <3>3. m \in Modules /\ m # "DHCP" /\ m \notin NsMods
      BY NoModule DEF NsMods
    <3>4. next = m
      BY <3>2, <3>3, RunningIs DEF DecoderInv
    <3> QED
      BY <1>2, <1>4, <1>5, <3>1, <3>4
  <2> QED
    BY <2>1, <2>2
<1> QED
  BY <1>2, <1>3, <1>7 DEF h

(* A link of the chain keeps the invariant.                                *)
LEMMA ChainKeepsInv ==
  ASSUME DecoderInv, Chain
  PROVE  DecoderInv'
<1>1. PropertyInv' /\ CursorOK(pd')
  BY DEF Chain, StepOK
<1>2. event' \in Seq(Events) /\ event_idx' \in 0 .. Len(event') /\ EventsFollowStack'
  BY RaisesKeepsPath DEF DecoderInv, Chain
<1>3. Shape'
  BY <1>2 DEF DecoderInv, Shape, Chain
<1>4. LoopInv'
  BY DEF Chain, LoopInv
<1>5. CursorOK(pd)'
  BY <1>1 DEF CursorOK
<1> QED
  BY <1>1, <1>2, <1>3, <1>4, <1>5, ChainOnceEach, ChainAfterUdp, ChainKey
  DEF DecoderInv, PropertyInv

(* decode() keeps it.                                                      *)
LEMMA DecodeKeepsInv ==
  ASSUME DecoderInv, Decode
  PROVE  DecoderInv'
<1>1. ChainHyp
  BY DEF ChainHyp, DecodeHyp, PropertyInv, DecoderInv
<1> QED
  BY <1>1, DecodeChain, ChainKeepsInv

(* Nothing has been decoded yet.                                           *)
LEMMA InitInv ==
  ASSUME Init
  PROVE  DecoderInv
<1>1. \A p \in Params : idx[p] = 0 /\ param[p] = <<>> /\ Len(param[p]) = 0
  BY DEF Init
<1>2. Shape
  <2>1. pkt \in 0 .. MaxPkt /\ addr \in 0 .. MaxPkt /\ port \in 0 .. MaxPkt
    BY DecoderAssumption DEF Init
  <2>2. event \in Seq(Events) /\ event_idx \in 0 .. Len(event)
    BY DEF Init
  <2>3. next \in {"new"} /\ enable_ssn_mgmt \in BOOLEAN
    BY DEF Init
  <2> QED
    BY <2>1, <2>2, <2>3 DEF Shape
<1>3. CursorOK(pd)
  BY DEF Init, CursorOK, reset
<1>4. Filed
  <2>1. size \in 0 .. Len(params_)
    BY TablesAssumption DEF Init
  <2>2. param \in [Params -> Seq(Values)] /\ idx \in [Params -> Nat]
    BY DEF Init
  <2> QED
    BY <1>1, <2>1, <2>2 DEF Filed
<1>5. KindsApart
  BY <1>1 DEF KindsApart
<1>6. ValuesFit
  BY <1>1 DEF ValuesFit, Visible
<1>7. NothingStale
  BY <1>1 DEF NothingStale, Visible
<1>8. OnceEach /\ LoopInv
  BY NoModule DEF Init, OnceEach, LoopInv
<1>9. AfterUdp
  BY <1>1, HdrParams, NoModule DEF Init, AfterUdp, NsMods
<1>10. EventsFollowStack
  BY NoModule DEF Init, EventsFollowStack
<1>11. KeyIsOfThisPacket
  BY <1>1, HdrParams, NoModule DEF Init, KeyIsOfThisPacket
<1> QED
  BY <1>2, <1>3, <1>4, <1>5, <1>6, <1>7, <1>8, <1>9, <1>10, <1>11 DEF DecoderInv

(* as_bool() returns a bool or throws.                                     *)
LEMMA SetupIsTyped ==
  ASSUME NEW config \in Configs, Construct(config)
  PROVE  enable_ssn_mgmt' \in BOOLEAN
<1> DEFINE key == "TCP.enable_session_mgmt"
           failed == ConfigError(config) \/ TypeError(config)
           v == local_config(config)[key]
<1>1. enable_ssn_mgmt' = (~failed /\ v.val)
  BY DEF Construct
<1>2. CASE failed
  BY <1>1, <1>2
<1>3. CASE ~failed
  <2>1. key \in DOMAIN config_map_ /\ config_map_[key] = BoolValue(TRUE)
    BY DEF config_map_
  <2>2. v.type = "Bool"
    BY <1>3, <2>1 DEF TypeError, BoolValue
  <2>3. v = IF key \in DOMAIN config THEN config[key] ELSE BoolValue(TRUE)
    BY <2>1 DEF local_config, Config_has
  <2>4. v.val \in BOOLEAN
    <3>1. CASE key \in DOMAIN config
      <4>1. v = config[key]
        BY <2>3, <3>1
      <4>2. config[key].type = "Bool" => config[key].val \in BOOLEAN
        BY <3>1, DecoderAssumption
      <4> QED
        BY <2>2, <4>1, <4>2
    <3>2. CASE key \notin DOMAIN config
      <4>1. v = BoolValue(TRUE)
        BY <2>3, <3>2
      <4>2. BoolValue(TRUE).val = TRUE
        BY DEF BoolValue
      <4> QED
        BY <4>1, <4>2
    <3> QED
      BY <3>1, <3>2
  <2> HIDE DEF v, failed
  <2> QED
    BY <1>1, <1>3, <2>4
<1> QED
  BY <1>2, <1>3

(* The constructor leaves Property alone.                                  *)
LEMMA ConstructKeepsInv ==
  ASSUME DecoderInv, NEW config \in Configs, Construct(config)
  PROVE  DecoderInv'
<1>1. next' \in {"refused", NONE}
      /\ UNCHANGED <<pkt, pd, size, param, idx, event, event_idx, addr, port, rr>>
  BY DEF Construct, propvars
<1>2. next' \notin Modules \cup NsMods \cup {"DHCP.options", "records", "TCP", "UDP"}
  BY <1>1, NoModule DEF NONE, NsMods
<1>3. PropertyInv'
  BY <1>1, UnchangedKeepsProperty DEF DecoderInv, PropertyInv
<1>4. Shape'
  BY <1>1, SetupIsTyped DEF DecoderInv, Shape
<1>5. CursorOK(pd)'
  BY <1>1 DEF DecoderInv, CursorOK
<1>6. OnceEach' /\ LoopInv'
  BY <1>2 DEF OnceEach, LoopInv
<1>7. AfterUdp'
  BY <1>1, <1>2 DEF DecoderInv, AfterUdp
<1>8. EventsFollowStack'
  BY <1>1, <1>2 DEF DecoderInv, EventsFollowStack
<1>9. KeyIsOfThisPacket'
  BY <1>1, <1>2 DEF DecoderInv, KeyIsOfThisPacket
<1> QED
  BY <1>3, <1>4, <1>5, <1>6, <1>7, <1>8, <1>9 DEF DecoderInv, PropertyInv

(* Property::init() leaves no value in sight.                              *)
LEMMA NewPacketKeepsInv ==
  ASSUME DecoderInv, NEW len \in PktLens, NewPacket(len)
  PROVE  DecoderInv'
<1>1. /\ next' = "Ethernet" /\ pkt < MaxPkt /\ pkt' = pkt + 1 /\ pd' = reset(len)
      /\ idx' = [p \in Params |-> 0] /\ event_idx' = 0
      /\ UNCHANGED <<enable_ssn_mgmt, size, param, event, addr, port>>
  BY DEF NewPacket, init
<1>2. \A p \in Params : idx'[p] = 0
  BY <1>1
<1>3. Shape'
  BY <1>1, NoModule, DecoderAssumption DEF DecoderInv, Shape
<1>4. CursorOK(pd)'
  BY <1>1, DecoderAssumption DEF CursorOK, reset
<1>5. Filed'
  <2>1. size' \in 0 .. Len(params_) /\ param' \in [Params -> Seq(Values)]
    BY <1>1 DEF DecoderInv, Filed
  <2>2. idx' \in [Params -> Nat]
    BY <1>1
  <2>3. \A p \in Params : idx'[p] <= Len(param'[p])
    BY <1>2, <2>1
  <2> QED
    BY <1>2, <2>1, <2>2, <2>3 DEF Filed
<1>6. KindsApart'
  BY <1>1 DEF DecoderInv, KindsApart
<1>7. ValuesFit'
  BY <1>2 DEF ValuesFit, Visible
<1>8. NothingStale'
  BY <1>2 DEF NothingStale, Visible
<1>9. OnceEach'
  BY <1>2 DEF OnceEach
<1>10. LoopInv'
  BY <1>1 DEF LoopInv
<1>11. AfterUdp'
  BY <1>1, <1>2, HdrParams, NoModule DEF AfterUdp, NsMods
<1>12. EventsFollowStack'
  BY <1>1 DEF EventsFollowStack
<1>13. KeyIsOfThisPacket'
  <2> SUFFICES ASSUME NEW m \in {"TCP", "UDP"}
               PROVE  next' # m /\ ~(idx'[<<m, "hdr">>] > 0)
    BY DEF KeyIsOfThisPacket
  <2>1. <<m, "hdr">> \in Params
    BY HdrParams, NoModule
  <2>2. idx'[<<m, "hdr">>] = 0
    BY <1>2, <2>1
  <2> QED
    BY <1>1, <2>2
<1> QED
  BY <1>3, <1>4, <1>5, <1>6, <1>7, <1>8, <1>9, <1>10, <1>11, <1>12, <1>13 DEF DecoderInv

(* The end of the stream.                                                  *)
LEMMA StutterKeepsInv ==
  ASSUME DecoderInv, UNCHANGED vars
  PROVE  DecoderInv'
<1>1. UNCHANGED <<enable_ssn_mgmt, pkt, next, pd, size, param, idx, event, event_idx,
                  addr, port, rr>>
  BY DEF vars, propvars
<1>2. PropertyInv'
  BY <1>1, UnchangedKeepsProperty DEF DecoderInv, PropertyInv
<1>3. Shape' /\ CursorOK(pd)'
  BY <1>1 DEF DecoderInv, Shape, CursorOK
<1>4. OnceEach' /\ AfterUdp'
  BY <1>1 DEF DecoderInv, OnceEach, AfterUdp
<1>5. LoopInv'
  <2>1. next' = "DHCP.options" => idx'[<<"DHCP", "options">>] > 0
    BY <1>1 DEF DecoderInv, LoopInv
  <2>2. RrOK(rr) => RrOK(rr)'
    BY <1>1 DEF RrOK, Counted, ArrayOpen, Sectioned, HoldsRecords, InSection
  <2> QED
    BY <1>1, <2>1, <2>2 DEF DecoderInv, LoopInv
<1>6. EventsFollowStack' /\ KeyIsOfThisPacket'
  BY <1>1 DEF DecoderInv, EventsFollowStack, KeyIsOfThisPacket
<1> QED
  BY <1>2, <1>3, <1>4, <1>5, <1>6 DEF DecoderInv, PropertyInv

(* The invariant of the decode chain: decode() of every module, for every  *)
(* packet, every sequence of packets and every configuration, keeps the    *)
(* cursor inside the packet and Property's vectors, values and events in   *)
(* order.                                                                  *)
THEOREM DecoderInvariant == Spec => []DecoderInv
<1>1. Init => DecoderInv
  BY InitInv
<1>2. DecoderInv /\ [Next]_vars => DecoderInv'
  <2> SUFFICES ASSUME DecoderInv, [Next]_vars PROVE DecoderInv'
    OBVIOUS
  <2>1. CASE \E config \in Configs : Construct(config)
    BY <2>1, ConstructKeepsInv
  <2>2. CASE \E len \in PktLens : NewPacket(len)
    BY <2>2, NewPacketKeepsInv
  <2>3. CASE Decode
    BY <2>3, DecodeKeepsInv
  <2>4. CASE Finished
    BY <2>4, StutterKeepsInv DEF Finished
  <2>5. CASE UNCHANGED vars
    BY <2>5, StutterKeepsInv
  <2> QED
    BY <2>1, <2>2, <2>3, <2>4, <2>5 DEF Next
<1> QED
  BY <1>1, <1>2, PTL DEF Spec

-----------------------------------------------------------------------------
(* What the invariant says of decode(), of Payload and of Property         *)

(* Types, and the assertions of Property::retain_value() and push_event()  *)
(* on the indices into param_ and event_ (property.cc:141, 163).           *)
THEOREM DecoderTypes == Spec => []DecoderTypeOK
<1>1. DecoderInv => DecoderTypeOK
  <2> SUFFICES ASSUME DecoderInv PROVE DecoderTypeOK
    OBVIOUS
  <2>1. Shape /\ Filed /\ pd \in [ptr : Nat, end : Nat, length : Nat]
    BY DEF DecoderInv, CursorOK
  <2>2. ASSUME NEW p \in Params
        PROVE  /\ idx[p] \in 0 .. Len(param[p])
               /\ \A i \in 1 .. Len(param[p]) : param[p][i] \in Values
    <3>1. param[p] \in Seq(Values) /\ idx[p] \in Nat /\ idx[p] <= Len(param[p])
      BY <2>1 DEF Filed
    <3> QED
      BY <3>1
  <2>3. \A i \in 1 .. Len(event) : event[i] \in Events
    BY <2>1 DEF Shape
  <2> QED
    BY <2>1, <2>2, <2>3 DEF DecoderTypeOK, Shape, Filed
<1> QED
  BY <1>1, DecoderInvariant, PTL

(* Whatever lengths the headers claim, Payload never offers bytes behind   *)
(* the end of the packet, and every value a callback can see lies inside   *)
(* it, but for IPv4.opt and DHCP.client_hw_addr.                           *)
THEOREM ValuesStayInPacket == Spec => []ValuesInPacket
<1>1. DecoderInv => ValuesInPacket
  BY DEF DecoderInv, CursorOK, ValuesFit, InPacket, ValuesInPacket
<1> QED
  BY <1>1, DecoderInvariant, PTL

(* The objects that Property::retain_value() uses again show nothing of    *)
(* the packets before, in values, arrays and maps.                         *)
THEOREM NothingOfEarlierPackets == Spec => []NothingStale
<1>1. DecoderInv => NothingStale
  BY DEF DecoderInv
<1> QED
  BY <1>1, DecoderInvariant, PTL

(* The events of a packet, which push_event() writes over those of the     *)
(* packets before, are a path of the protocol stack from Ethernet inwards. *)
THEOREM EventsAreAPath == Spec => []EventsFollowStack
<1>1. DecoderInv => EventsFollowStack
  BY DEF DecoderInv
<1> QED
  BY <1>1, DecoderInvariant, PTL

(* The addresses and the ports that TCP makes its session key of are those *)
(* of the packet in hand, although Property::init() resets none of them.   *)
THEOREM KeysAreCurrent == Spec => []KeyIsOfThisPacket
<1>1. DecoderInv => KeyIsOfThisPacket
  BY DEF DecoderInv
<1> QED
  BY <1>1, DecoderInvariant, PTL

(* ns_decode() files the records of a message by the counts of its header, *)
(* whatever they are: the search for the next section stays within the     *)
(* four, and each has its own array.                                       *)
THEOREM RecordsInTheirSections == Spec => []SectionsFiled
<1>1. DecoderInv => SectionsFiled
  BY DEF DecoderInv, LoopInv, RrOK, SectionsFiled
<1> QED
  BY <1>1, DecoderInvariant, PTL

(* Once a module has taken its header, value() finds the id of every       *)
(* parameter of that module inside the vectors, but for TCP's counters     *)
(* before the session code has run.                                        *)
THEOREM OwnReads == Spec => []OwnReadsDefined
<1>1. DecoderInv => OwnReadsDefined
  <2> SUFFICES ASSUME DecoderInv, NEW m \in Modules, idx[<<m, "hdr">>] > 0,
                      NEW name \in NamesOf[m]
               PROVE  \/ InRange(name)
                      \/ name \in SessionNames /\ idx[<<"TCP", "session">>] = 0
    BY DEF OwnReadsDefined
  <2>1. name \in ParamNames
    BY TablesAssumption
  <2>2. param_map_[name] \in Int /\ size \in Int
    BY <2>1, TablesAssumption DEF DecoderInv, Filed
  <2>3. ASSUME NEW p \in Params, idx[p] > 0
        PROVE  Psize[p] <= size /\ Psize[p] \in Int
    BY <2>3, TablesAssumption DEF DecoderInv, Filed
  <2>4. CASE name \notin SessionNames
    <3> DEFINE k == IF m \in NsMods THEN "UDP" ELSE m
    <3>1. k \in Modules /\ idx[<<k, "hdr">>] > 0
      BY NoModule DEF DecoderInv, AfterUdp
    <3>2. param_map_[name] < Psize[<<k, "hdr">>]
      BY <2>4, TablesAssumption
    <3> HIDE DEF k
    <3>3. Psize[<<k, "hdr">>] <= size /\ Psize[<<k, "hdr">>] \in Int
      BY <2>3, <3>1, HdrParams
    <3>4. param_map_[name] < size
      BY <2>2, <3>2, <3>3
    <3> QED
      BY <2>1, <3>4 DEF InRange, lookup_param_key
  <2>5. CASE name \in SessionNames /\ idx[<<"TCP", "session">>] # 0
    <3> DEFINE p == <<"TCP", "session">>
    <3>1. p \in Params
      BY DEF Params
    <3>2. name \in Sources[p]
      BY <2>5, <3>1 DEF Sources, SessionNames
    <3>3. param_map_[name] < Psize[p]
      BY <3>1, <3>2, SourcesBelow
    <3>4. idx[p] > 0
      BY <2>5, <3>1 DEF DecoderInv, Filed
    <3> HIDE DEF p
    <3>5. param_map_[name] < size
      BY <2>2, <2>3, <3>1, <3>3, <3>4
    <3> QED
      BY <2>1, <3>5 DEF InRange, lookup_param_key
  <2> QED
    BY <2>4, <2>5
<1> QED
  BY <1>1, DecoderInvariant, PTL

(* A value that a module has set is not touched again while the packet is  *)
(* decoded: later calls of retain_value() return other objects.            *)
THEOREM SetValuesStay == Spec => ValuesKept
<1> DEFINE Kept == pkt' = pkt => \A p \in Params : \A i \in Visible(p) :
                     param[p][i].active => param'[p][i] = param[p][i]
<1>1. DecoderInv /\ [Next]_vars => [Kept]_vars
  <2> SUFFICES ASSUME DecoderInv, Next, pkt' = pkt
               PROVE  \A p \in Params : \A i \in Visible(p) :
                        param[p][i].active => param'[p][i] = param[p][i]
    BY DEF Next
  <2>1. CASE \E config \in Configs : Construct(config)
    <3>1. param' = param
      BY <2>1 DEF Construct, propvars
    <3> QED
      BY <3>1
  <2>2. CASE \E len \in PktLens : NewPacket(len)
    <3>1. pkt' = pkt + 1 /\ pkt \in Nat
      BY <2>2 DEF NewPacket, DecoderInv, Shape
    <3> QED
      BY <3>1
  <2>3. CASE Decode
    <3>1. ChainHyp
      BY DEF ChainHyp, DecodeHyp, PropertyInv, DecoderInv
    <3>2. FilledBy(Running)
      BY <2>3, <3>1, DecodeChain DEF Chain, StepOK
    <3> QED
      BY <3>2 DEF FilledBy, Visible
  <2>4. CASE Finished
    <3>1. param' = param
      BY <2>4 DEF Finished, vars, propvars
    <3> QED
      BY <3>1
  <2> QED
    BY <2>1, <2>2, <2>3, <2>4 DEF Next
<1> QED
  BY <1>1, DecoderInvariant, PTL DEF Spec, ValuesKept

(* A step of decode() ends the chain, goes on to a module further in,      *)
(* enters the loop of a module, or takes from the bytes that loop has:     *)
(* an option its header of two bytes at least, a record five bytes,        *)
(* however many records the header of the message claims.                  *)
DecodeShrinks ==
  next \notin {"new", NONE, "refused"} =>
    \/ next' = NONE
    \/ next \in Modules /\ next' \in Modules /\ Layer[next] < Layer[next']
    \/ next \in Modules /\ next' \in {"DHCP.options", "records"}
    \/ /\ next = "DHCP.options" /\ next' = next
       /\ pd'.length \in 0 .. pd.length - 2
    \/ /\ next = "records" /\ next' = next
       /\ rr'.ep = rr.ep /\ rr'.ptr \in rr.ptr + 5 .. rr.ep

(* An option takes two bytes and its data off the payload.                 *)
LEMMA OptionShrinks ==
  ASSUME DecoderInv, DhcpOption
  PROVE  pd'.length \in 0 .. pd.length - 2
<1> DEFINE d == retain(pd, 2)
<1>1. pd \in [ptr : Nat, end : Nat, length : Nat] /\ CanRetain(pd, 2)
  BY DEF DecoderInv, CursorOK, DhcpOption
<1>2. PICK len \in DataLens : CanRetain(d, len) /\ pd' = retain(d, len)
  BY DEF DhcpOption
<1>3. len \in Nat
  BY DecoderAssumption
<1>4. pd.length \in Nat /\ pd.length >= 2
  BY <1>1 DEF CanRetain
<1>5. d.length = pd.length - 2 /\ "length" \in DOMAIN d
  BY <1>1, <1>4 DEF retain
<1>6. len <= d.length
  BY <1>2 DEF CanRetain
<1> HIDE DEF d
<1>7. pd'.length = d.length - len
  BY <1>2, <1>5 DEF retain
<1> QED
  BY <1>3, <1>4, <1>5, <1>6, <1>7

(* A record takes a name of a byte at least, and four bytes or ten, off    *)
(* the message.                                                            *)
LEMMA RecordShrinks ==
  ASSUME DecoderInv, NsQuestion \/ NsAnswer
  PROVE  rr'.ep = rr.ep /\ rr'.ptr \in rr.ptr + 5 .. rr.ep
<1>1. NsReady
  BY DEF NsQuestion, NsAnswer
<1>2. DecodeHyp /\ LoopInv
  BY DEF DecodeHyp, PropertyInv, DecoderInv
<1> DEFINE r == Located(rr)
<1>3. RrOK(r) /\ r.ptr = rr.ptr /\ r.ep = rr.ep /\ rr.ptr \in Nat /\ rr.ep \in Nat
  BY <1>1, <1>2, ReadyLocated
<1>4. r \in RrLocals
  BY <1>3 DEF RrOK
<1>5. PICK name \in Names, n \in Nat :
        n >= 4 /\ rr.ep - (rr.ptr + name) >= n /\ GoOn(r, rr.ptr + name + n)
  <2>1. CASE NsQuestion
    <3>1. PICK name \in Names : r.ep - (r.ptr + name) >= 4 /\ GoOn(r, r.ptr + name + 4)
      BY <2>1 DEF NsQuestion
    <3> QED
      BY <1>3, <3>1
  <2>2. CASE NsAnswer
    <3>1. PICK name \in Names, data \in DataLens :
            r.ep - (r.ptr + name) >= 10 + data /\ GoOn(r, r.ptr + name + 10 + data)
      BY <2>2 DEF NsAnswer
    <3>2. name \in Nat /\ data \in Nat
      BY DecoderAssumption DEF Names
    <3>3. r.ptr + name + 10 + data = r.ptr + name + (10 + data)
      BY <1>3, <3>2
    <3>4. 10 + data \in Nat /\ 10 + data >= 4
      BY <3>2
    <3> QED
      BY <1>3, <3>1, <3>3, <3>4
  <2> QED
    BY <2>1, <2>2
<1>6. name \in Nat /\ name >= 1
  BY DecoderAssumption, <1>3 DEF Names
<1>7. rr' = [r EXCEPT !.c = @ + 1, !.rr_c = @ + 1, !.arr = Array(r),
                      !.ptr = rr.ptr + name + n]
  BY <1>5 DEF GoOn
<1> HIDE DEF r
<1>8. rr'.ep = r.ep /\ rr'.ptr = rr.ptr + name + n
  BY <1>4, <1>7 DEF RrLocals
<1> QED
  BY <1>3, <1>5, <1>6, <1>8

(* decode() of any packet takes finitely many steps - eleven modules at    *)
(* most, and no loop iteration without taking bytes: what DecodeEnds needs *)
(* beside the fairness of the kernel thread.                               *)
THEOREM DecodeMovesOn == Spec => [][DecodeShrinks]_vars
<1>1. ASSUME DecoderInv, [Next]_vars PROVE [DecodeShrinks]_vars
  <2> SUFFICES ASSUME Next, next \notin {"new", NONE, "refused"} PROVE DecodeShrinks
    BY <1>1 DEF DecodeShrinks
  <2>1. Decode
    BY DEF Next, Construct, NewPacket, Finished
  <2>2. Chain
    <3>1. ChainHyp
      BY <1>1 DEF ChainHyp, DecodeHyp, PropertyInv, DecoderInv
    <3> QED
      BY <2>1, <3>1, DecodeChain
  <2>3. CASE next' \in Modules
    BY <2>2, <2>3, Inwards DEF Chain, DecodeShrinks
  <2>4. CASE next \in Modules /\ next' \notin Modules
    BY <2>2, <2>4 DEF Chain, DecodeShrinks
  <2>5. CASE next \notin Modules /\ next' \notin Modules
    <3>1. CASE DhcpOption
      BY <1>1, <3>1, OptionShrinks DEF DhcpOption, DecodeShrinks
    <3>2. CASE NsQuestion \/ NsAnswer
      <4>1. next = "records" /\ next' = next
        BY <3>2 DEF NsQuestion, NsAnswer, NsReady, InRecords, GoOn
      <4> QED
        BY <1>1, <3>2, <4>1, RecordShrinks DEF DecodeShrinks
    <3>3. CASE DhcpEnd \/ NsBroken \/ NsEnd
      BY <3>3 DEF DhcpEnd, NsBroken, NsEnd, DecodeShrinks
    <3>4. ASSUME NEW m \in Modules, next = m
          PROVE  FALSE
      BY <2>5, <3>4
    <3>5. ~ \E m \in Modules : TooShort(m)
      BY <3>4 DEF TooShort
    <3>6. ~(Ethernet \/ Dot1Q \/ PPPoE \/ ARP \/ IPv4 \/ IPv4Invalid \/ ICMP)
      BY <3>4, NoModule DEF Ethernet, Dot1Q, PPPoE, ARP, IPv4, IPv4Invalid, ICMP, Plain, Enter
    <3>7. ~(UDP \/ TCP \/ DHCP)
      <4>1. ~(UDP \/ DHCP)
        BY <3>4, NoModule DEF UDP, DHCP, Enter
      <4>2. TCP => next = "TCP"
        BY Zenon DEF TCP, Enter
      <4> QED
        BY <3>4, <4>1, <4>2, NoModule
    <3>8. ~ \E m \in NsMods : NsHeader(m)
      BY <3>4, NoModule DEF NsHeader, Enter
    <3> QED
      BY <2>1, <3>1, <3>2, <3>3, <3>5, <3>6, <3>7, <3>8 DEF Decode
  <2> QED
    BY <2>3, <2>4, <2>5
<1> QED
  BY <1>1, DecoderInvariant, PTL DEF Spec
=============================================================================
