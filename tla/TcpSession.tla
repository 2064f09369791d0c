----------------------------- MODULE TcpSession -----------------------------
(***************************************************************************)
(* Session tracking and stream reassembly of the TCP module (tcp.cc), for  *)
(* the packets of one pair of endpoints.  The input is the sequence of     *)
(* captured segments: any of them may be missing, repeated or out of order.*)
(*                                                                         *)
(* decode_stream() calls itself for every stored segment that has become   *)
(* next in order.  One step below is one invocation; todo holds the        *)
(* arguments of the invocations that are still to come, innermost first,   *)
(* and the next packet is decoded when it is empty.                        *)
(*                                                                         *)
(* Sequence numbers are uint32_t: SeqMod stands for 2^32.  A byte of       *)
(* payload is named by its endpoint and its absolute sequence number.  ack *)
(* and window are recorded by recv() and only logged by in_window(), which *)
(* always answers true; they are left out.  tb::LruHash is external: an    *)
(* entry may have expired whenever a later packet arrives.                 *)
(***************************************************************************)
EXTENDS Integers, Sequences, FiniteSets

CONSTANTS SeqMod,        \* 2^32 in the code
          Endpoint,      \* address and port of each of the two endpoints
          Segments,      \* segments the two endpoints put on the wire
          MaxCaptures,   \* bound: captured packets
          MaxSessions    \* bound: ssn_count_

Side == {"a", "b"}
Other(d) == IF d = "a" THEN "b" ELSE "a"
SeqNo == 0 .. SeqMod - 1
Flags == {"SYN", "ACK", "FIN", "RST"}
NoSide == "none"
Statuses == {"NONE", "SYN_SENT", "SYNACK_SENT", "ESTABLISHED", "CLOSING", "CLOSED"}
NoBuf == << <<NoSide, 0>> >>
NoKey == <<>>

ASSUME SeqAssumption == SeqMod \in Nat /\ SeqMod > 1
ASSUME SegmentAssumption ==
  Segments \subseteq
    [from : Side, flags : SUBSET Flags, seq : SeqNo, len : 0 .. SeqMod - 1]
Endpoints == [addr : Nat, port : Nat]
ASSUME EndpointAssumption == Endpoint \in [Side -> Endpoints]
ASSUME BoundAssumption == MaxCaptures \in Nat /\ MaxSessions \in Nat

VARIABLES
  ssn_count,   \* ssn_count_; the session in the table has this id
  key,         \* the key it has in ssn_table_, NoKey if there is none
  client,      \* the endpoint client_ stands for: it sent the first packet
  status,      \* status_
  closing,     \* closing_
  based,       \* has_base_seq_ of each stream
  base,        \* base_seq_
  next_seq,    \* next_seq_, relative to base_seq_
  seg_map,     \* seg_map_: relative sequence number -> chain of segments
  buf,         \* buf_
  sender,      \* sender of the packet being decoded
  todo,        \* invocations of decode_stream() to come
  value,       \* what Property::value() returns for TCP.data: element 0
  newest,      \* the last element that retain_value() made for TCP.data
  events,      \* TCP events of the packet
  captures,    \* history: packets captured
  delivered,   \* history: bytes each stream has taken since its SYN
  got,         \* history: segments captured since their stream has a base
  raised,      \* history: events of the session, in their order
  unaccepted,  \* history: packets of the session that send() has not taken
  crossed      \* history: a lookup met a segment of the other endpoint

ssnvars == <<ssn_count, key, client, status, closing, based, base, next_seq, seg_map>>
propvars == <<value, newest, events>>
histvars == <<captures, delivered, got, raised, unaccepted, crossed>>
vars == <<ssnvars, buf, sender, todo, propvars, histvars>>

Add(x, y) == (x + y) % SeqMod
Rel(d, seq) == (seq - base[d]) % SeqMod       \* Stream::to_rel_seq()

(* The payload of g: a SYN takes the first sequence number itself.         *)
Data(g) ==
  LET first == IF "SYN" \in g.flags THEN 1 ELSE 0
  IN [i \in 1 .. g.len |-> <<g.from, Add(g.seq, first + i - 1)>>]

Init ==
  /\ ssn_count = 0
  /\ key = NoKey
  /\ client = NoSide
  /\ status = "NONE"
  /\ closing = NoSide
  /\ based = [d \in Side |-> FALSE]
  /\ base = [d \in Side |-> 0]
  /\ next_seq = [d \in Side |-> 0]
  /\ seg_map = [k \in SeqNo |-> <<>>]
  /\ buf = NoBuf
  /\ sender = NoSide
  /\ todo = <<>>
  /\ value = NoBuf
  /\ newest = NoBuf
  /\ events = {}
  /\ captures = 0
  /\ delivered = [d \in Side |-> <<>>]
  /\ got = {}
  /\ raised = <<>>
  /\ unaccepted = 0
  /\ crossed = FALSE

-----------------------------------------------------------------------------
(* TCP::decode().                                                          *)

(* Session::make_key(): the larger endpoint first, by address, then port.  *)
Larger(x, y) == x.addr > y.addr \/ (x.addr = y.addr /\ x.port > y.port)
make_key(src, dst) ==
  IF Larger(src, dst) THEN <<src.addr, src.port, dst.addr, dst.port>>
  ELSE <<dst.addr, dst.port, src.addr, src.port>>
KeyOf(g) == make_key(Endpoint[g.from], Endpoint[Other(g.from)])

(* Property::init() empties the values and the events, Session::decode()   *)
(* drops buf_ and picks the sender: g is the argument of the outermost     *)
(* decode_stream().                                                        *)
decode(g, evs) ==
  /\ buf' = NoBuf
  /\ sender' = g.from
  /\ todo' = <<g>>
  /\ value' = NoBuf
  /\ newest' = NoBuf
  /\ events' = evs
  /\ captures' = captures + 1

\* Mutant: the new session takes over closing_ of the one it replaces.
NewSessionClosing(g) ==
  /\ todo = <<>>
  /\ captures < MaxCaptures
  /\ ssn_count < MaxSessions
  /\ ssn_count' = ssn_count + 1
  /\ key' = KeyOf(g)
  /\ client' = g.from
  /\ status' = "NONE"
  /\ based' = [d \in Side |-> FALSE]
  /\ base' = [d \in Side |-> 0]
  /\ next_seq' = [d \in Side |-> 0]
  /\ seg_map' = [k \in SeqNo |-> <<>>]
  /\ delivered' = [d \in Side |-> <<>>]
  /\ got' = {}
  /\ raised' = <<"new_session">>
  /\ unaccepted' = 1
  /\ crossed' = FALSE
  /\ decode(g, {"new_session"})
  /\ UNCHANGED closing

(* The table has no entry for the pair, or it has expired and is deleted   *)
(* first: a new Session, whose client_ is the source of this very packet.  *)
NewSession(g) ==
  /\ todo = <<>>
  /\ captures < MaxCaptures
  /\ ssn_count < MaxSessions
  /\ ssn_count' = ssn_count + 1
  /\ key' = KeyOf(g)
  /\ client' = g.from
  /\ status' = "NONE"
  /\ closing' = NoSide
  /\ based' = [d \in Side |-> FALSE]
  /\ base' = [d \in Side |-> 0]
  /\ next_seq' = [d \in Side |-> 0]
  /\ seg_map' = [k \in SeqNo |-> <<>>]
  /\ delivered' = [d \in Side |-> <<>>]
  /\ got' = {}
  /\ raised' = <<"new_session">>
  /\ unaccepted' = 1
  /\ crossed' = FALSE
  /\ decode(g, {"new_session"})

KnownSession(g) ==
  /\ todo = <<>>
  /\ captures < MaxCaptures
  /\ key = KeyOf(g)
  /\ unaccepted' = unaccepted + 1
  /\ got' = IF based[g.from] THEN got \cup {g} ELSE got
  /\ decode(g, {})
  /\ UNCHANGED <<ssnvars, delivered, raised, crossed>>

-----------------------------------------------------------------------------
(* decode_stream(), one invocation.                                        *)

\* Mutant: a segment ahead of the expected one is accepted as well.
AcceptsAhead(d, g) == based[d] => next_seq[d] <= Rel(d, g.seq)

(* Stream::send(): no base yet, or exactly the expected sequence number.   *)
Accepts(d, g) == based[d] => next_seq[d] = Rel(d, g.seq)

(* next_seq_ once send() has accepted g.                                   *)
Sent(d, g) == IF based[d] THEN Add(next_seq[d], g.len) ELSE next_seq[d]

(* trans_state(): what makes the session leave each status.                *)
Leaves(d, g) ==
  CASE status = "NONE"        -> g.flags = {"SYN"} /\ d = client
    [] status = "SYN_SENT"    -> g.flags = {"SYN", "ACK"} /\ d # client
    [] status = "SYNACK_SENT" -> g.flags = {"ACK"} /\ d = client
    [] status = "ESTABLISHED" -> "FIN" \in g.flags
    [] status = "CLOSING"     -> "FIN" \in g.flags /\ closing # d
    [] status = "CLOSED"      -> FALSE

Successor ==
  [s \in Statuses |->
     CASE s = "NONE"        -> "SYN_SENT"
       [] s = "SYN_SENT"    -> "SYNACK_SENT"
       [] s = "SYNACK_SENT" -> "ESTABLISHED"
       [] s = "ESTABLISHED" -> "CLOSING"
       [] OTHER             -> "CLOSED"]

(* A SYN or SYN|ACK that moves the session sets the base of its stream, a  *)
(* FIN that does so counts as one sequence number.                         *)
SetsBase(d, g) == Leaves(d, g) /\ status \in {"NONE", "SYN_SENT"}
CountsFin(d, g) == Leaves(d, g) /\ status \in {"ESTABLISHED", "CLOSING"}

trans_state(d, g) ==
  /\ status' = IF Leaves(d, g) THEN Successor[status] ELSE status
  /\ closing' = IF Leaves(d, g) /\ status = "ESTABLISHED" THEN d ELSE closing
  /\ based' = IF SetsBase(d, g) THEN [based EXCEPT ![d] = TRUE] ELSE based
  /\ base' = IF SetsBase(d, g) THEN [base EXCEPT ![d] = g.seq] ELSE base
  /\ next_seq' = [next_seq EXCEPT ![d] =
       IF SetsBase(d, g) THEN Add(1, g.len)
       ELSE IF CountsFin(d, g) THEN Add(Sent(d, g), 1)
       ELSE Sent(d, g)]
  /\ LET new == IF status' = status THEN <<>>
                ELSE IF status' = "ESTABLISHED" THEN <<"established">>
                ELSE IF status' = "CLOSED" THEN <<"closed">> ELSE <<>>
     IN /\ events' = events \cup {new[i] : i \in DOMAIN new}
        /\ raised' = raised \o new

\* Mutant: the state machine sees a segment that is out of order too.
StoreAndMove ==
  LET g == Head(todo)
      rel_seq == Rel(sender, g.seq)
  IN /\ todo # <<>>
     /\ ~Accepts(sender, g)
     /\ trans_state(sender, g)
     /\ seg_map' = [seg_map EXCEPT ![rel_seq] = Append(@, g)]
     /\ todo' = Tail(todo)
     /\ UNCHANGED <<ssn_count, key, client, buf, sender, value, newest, captures,
                    delivered, got, unaccepted, crossed>>

\* Mutant: a segment that does not fit is tried again at once.
StoreRetry ==
  /\ todo # <<>>
  /\ ~Accepts(sender, Head(todo))
  /\ UNCHANGED vars

\* Mutant: insert() replaces the chain that is there.
StoreOver ==
  LET g == Head(todo)
      rel_seq == Rel(sender, g.seq)
  IN /\ todo # <<>>
     /\ ~Accepts(sender, g)
     /\ seg_map' = [seg_map EXCEPT ![rel_seq] = <<g>>]
     /\ todo' = Tail(todo)
     /\ UNCHANGED <<ssn_count, key, client, status, closing, based, base, next_seq,
                    buf, sender, propvars, histvars>>

(* The segment is not the expected one: kept under its relative sequence   *)
(* number, behind the segments that are kept there already.                *)
Store ==
  LET g == Head(todo)
      rel_seq == Rel(sender, g.seq)
  IN /\ todo # <<>>
     /\ ~Accepts(sender, g)
     /\ seg_map' = [seg_map EXCEPT ![rel_seq] = Append(@, g)]
     /\ todo' = Tail(todo)
     /\ UNCHANGED <<ssn_count, key, client, status, closing, based, base, next_seq,
                    buf, sender, propvars, histvars>>

(* The value of TCP.data: buf_ with this segment, or the segment alone.    *)
Reassembled(g) == IF buf = NoBuf THEN Data(g) ELSE buf \o Data(g)

\* Mutant: the map is searched for the segment that was just accepted.
lookup_key_before(d) == next_seq[d]

(* The key seg_map_ is searched for: next_seq_ as this invocation left it. *)
lookup_key(d) == next_seq'[d]

erase(k) == [seg_map EXCEPT ![k] = <<>>]

(* The segment is accepted: state, events and TCP.data, and the chain that *)
(* is stored under the new next_seq_ is taken out of the map and decoded   *)
(* next - whichever endpoint its segments came from.                       *)
Deliver ==
  LET g == Head(todo)
      d == sender
      chain == seg_map[lookup_key(d)]
  IN /\ todo # <<>>
     /\ Accepts(d, g)
     /\ trans_state(d, g)
     /\ newest' = Reassembled(g)
     /\ value' = IF value = NoBuf THEN newest' ELSE value
     /\ buf' = IF buf # NoBuf \/ chain # <<>> THEN Reassembled(g) ELSE NoBuf
     /\ seg_map' = erase(lookup_key(d))
     /\ todo' = chain \o Tail(todo)
     /\ delivered' = [delivered EXCEPT ![d] =
          IF SetsBase(d, g) THEN Data(g)
          ELSE IF based[d] THEN @ \o Data(g) ELSE @]
     /\ crossed' = (crossed \/ \E i \in DOMAIN chain : chain[i].from # d)
     /\ unaccepted' = unaccepted - 1
     /\ UNCHANGED <<ssn_count, key, client, sender, captures, got>>

(* The capture has ended.                                                  *)
Finished == todo = <<>> /\ captures = MaxCaptures /\ UNCHANGED vars

Next ==
  \/ \E g \in Segments : NewSession(g)
  \/ \E g \in Segments : KnownSession(g)
  \/ Store
  \/ Deliver
  \/ Finished

Spec == Init /\ [][Next]_vars

(* The kernel thread decodes a packet it has begun: decode() runs on.      *)
FairSpec == Spec /\ WF_vars(Store) /\ WF_vars(Deliver)

-----------------------------------------------------------------------------
Idle == todo = <<>>

Bytes == (Side \cup {NoSide}) \X SeqNo
SessionEvents == {"new_session", "established", "closed"}

(* Every variable has its type.                                            *)
TypeOK ==
  /\ ssn_count \in 0 .. MaxSessions
  /\ key \in Seq(Nat)
  /\ client \in Side \cup {NoSide}
  /\ status \in Statuses
  /\ closing \in Side \cup {NoSide}
  /\ based \in [Side -> BOOLEAN]
  /\ base \in [Side -> SeqNo]
  /\ next_seq \in [Side -> SeqNo]
  /\ seg_map \in [SeqNo -> Seq(Segments)]
  /\ sender \in Side \cup {NoSide}
  /\ todo \in Seq(Segments)
  /\ todo # <<>> => sender \in Side
  /\ buf \in Seq(Bytes) /\ value \in Seq(Bytes) /\ newest \in Seq(Bytes)
  /\ events \subseteq SessionEvents
  /\ captures \in 0 .. MaxCaptures
  /\ delivered \in [Side -> Seq(Bytes)]
  /\ got \subseteq Segments
  /\ raised \in Seq(SessionEvents)
  /\ unaccepted \in Nat
  /\ crossed \in BOOLEAN

(* The events a session has raised by the time it has come to its status.  *)
RaisedBy(st) ==
  IF st = "CLOSED" THEN <<"new_session", "established", "closed">>
  ELSE IF st \in {"ESTABLISHED", "CLOSING"} THEN <<"new_session", "established">>
  ELSE <<"new_session">>

(* A session raises new_session, established and closed in this order and  *)
(* each at most once, however often its handshake and its FINs are repeated*)
(* or come late, through an expiry, a reset or a new connection on the same*)
(* ports; and closing_ is set exactly when one FIN has been accepted.      *)
EventsOncePerSession ==
  /\ raised = IF key = NoKey THEN <<>> ELSE RaisedBy(status)
  /\ closing # NoSide <=> status \in {"CLOSING", "CLOSED"}

(* The places of seg_map_ that hold a segment: a key and an index into the *)
(* chain that is kept under it.                                            *)
Places(k) == {k} \X DOMAIN seg_map[k]
Kept == UNION {Places(k) : k \in SeqNo}

(* A packet of the session is accepted once or kept: none is dropped and   *)
(* none is kept twice, through all the lookups that take chains out of     *)
(* seg_map_ and file what does not fit again.  What the map holds is what  *)
(* was never next in order - repeated segments too, until the session      *)
(* expires.                                                                *)
NoSegmentLost == unaccepted = Cardinality(Kept) + Len(todo)

(* Stream::send() and the recursion of decode_stream(): whatever is lost,  *)
(* repeated or reordered on the wire, the bytes a stream has taken since   *)
(* its SYN are the endpoint's own bytes in order, none twice and none left *)
(* out.  (The two endpoints' sequence numbers must not overlap: a stored   *)
(* segment of the other endpoint is tried against this stream too.)        *)
InOrderDelivery ==
  \A d \in Side : based[d] =>
    delivered[d] = [i \in 1 .. Len(delivered[d]) |-> <<d, Add(base[d], i)>>]

(* TCP.closed is raised only for a session whose two FINs have both been   *)
(* reached in order: every byte each endpoint sent before its FIN has been *)
(* taken by then, stored segments included.                                *)
ClosedAfterAllData ==
  "closed" \in events =>
    \A d \in Side : \E g \in Segments :
      /\ g.from = d /\ "FIN" \in g.flags
      /\ Add(base[d], 1 + Len(delivered[d])) = Add(g.seq, g.len)

(* The next segment of g's stream has been captured and is not decoded.    *)
Overdue(g) == based[g.from] /\ g.len > 0 /\ Rel(g.from, g.seq) = next_seq[g.from]

(* The seg_map_ lookup of decode_stream(): after a packet, no stream waits *)
(* for a segment that has already been captured, as long as no lookup has  *)
(* met a segment of the other endpoint.                                    *)
NoHoleLeft == Idle /\ ~crossed => \A g \in got : ~Overdue(g)

(* Every packet's decoding ends: the recursion over stored segments stops. *)
DecodeTerminates == todo # <<>> ~> Idle

(* What the two endpoints put on the wire for InOrderDelivery and          *)
(* ClosedAfterAllData to hold.  No sequence number that one endpoint comes *)
(* to is one at which the other has a segment; a SYN carries no data, and  *)
(* no data follows a FIN; the endpoint that sends a SYN sends no SYN|ACK.  *)
After(g) == {Add(g.seq, g.len), Add(g.seq, g.len + 1)}
Conversation ==
  /\ \A g, h \in Segments : g.from # h.from => h.seq \notin After(g)
  /\ \A g \in Segments : "SYN" \in g.flags => g.len = 0
  /\ \A g, h \in Segments :
       /\ "FIN" \in g.flags /\ g.from = h.from
       /\ h.seq = Add(g.seq, g.len + 1)
       => h.len = 0
  /\ \A g, h \in Segments :
       g.flags = {"SYN"} /\ h.flags = {"SYN", "ACK"} => g.from # h.from

-----------------------------------------------------------------------------
(* Contradicted by the code.                                               *)

(* docs/configs.md: session management does "segment reassebling".  Both   *)
(* directions share seg_map_, and a lookup of one takes the segments of    *)
(* the other out and files them under a key nobody will look up.           *)
StreamsReassemble == Idle => \A g \in got : ~Overdue(g)

(* docs/parameters.md: TCP.data is the "TCP data segment that is           *)
(* reassembled".  value() reads element 0, which holds the packet's own    *)
(* segment; the reassembled data is in the last element.                   *)
DataIsReassembled == Idle => value = newest
=============================================================================
