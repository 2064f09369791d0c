------------------------------ MODULE Decoder ------------------------------
(***************************************************************************)
(* The decode chain: Decoder::decode(), the decode() of every protocol     *)
(* module it reaches, and the two objects they share from packet to packet *)
(* - Payload, the read cursor, and Property, which keeps the values and    *)
(* the events of the current packet in objects it reuses for the next one. *)
(*                                                                         *)
(* A step is one module's decode(); the loops of DHCP (options) and of the *)
(* name services (resource records) take one step per iteration.  A byte   *)
(* of a packet is read once, by the module that retains it, so the input   *)
(* is chosen where it is read.  A value is the bytes it points at; one     *)
(* parameter stands for all fields that a module sets together from the    *)
(* same header.  What TCP does with its segment is TcpSession's subject:   *)
(* the values of stored segments that follow it are left out here, since   *)
(* value() never returns them.                                             *)
(* No module returns the id of IPv6, which therefore never runs.           *)
(***************************************************************************)
EXTENDS Registry

CONSTANTS
  SizeMod,      \* 2^64: size_t arithmetic wraps
  PktLens,      \* captured lengths
  HdrLens,      \* lengths an IPv4 header may claim, options included
  TotalLens,    \* total lengths an IPv4 header may claim
  Offsets,      \* data offsets a TCP header may claim
  AddrLens,     \* hw_size_ and pr_size_ of ARP, hw_addr_len_ of DHCP
  DataLens,     \* lengths of a DHCP option, a DNS name and resource data
  RrCounts,     \* record counts of the four sections of a DNS message
  Configs,      \* configurations the application may build the Machine with
  MaxPkt        \* bound: packets

ASSUME DecoderAssumption ==
  /\ SizeMod \in Nat
  /\ PktLens \cup HdrLens \cup TotalLens \cup Offsets \cup DataLens
       \subseteq 0 .. SizeMod - 1
  /\ AddrLens \subseteq 0 .. 255   \* uint8_t
  /\ RrCounts \subseteq [0 .. 3 -> Nat]
  /\ \A n \in PktLens : n + 20 < SizeMod
  /\ Configs # {}
  /\ \A config \in Configs : \A key \in DOMAIN config :   \* ConfigValue's classes
       config[key].type = "Bool" => config[key].val \in BOOLEAN
  /\ MaxPkt \in Nat

NsMods == {"DNS", "MDNS"}
Modules == NsMods \cup
  {"Ethernet", "Dot1Q", "PPPoE", "ARP", "IPv4", "ICMP", "UDP", "TCP", "DHCP"}
NONE == "NONE"

(* The sections of a message, by the number that target has in the code.   *)
Section == <<"question", "answer", "authority", "additional">>
p_record(m, t) == <<m, Section[t + 1]>>

Arrays == {<<"DHCP", "options">>} \cup {p_record(m, t) : m \in NsMods, t \in 0 .. 3}
Params == Arrays
  \cup {"Ethernet", "Dot1Q", "PPPoE", "ARP", "IPv4", "ICMP", "UDP", "TCP", "DHCP"}
         \X {"hdr"}
  \cup NsMods \X {"hdr", "records", "name", "type", "data"}
  \cup {"ARP"} \X {"hw_src", "pr_src", "hw_dst", "pr_dst"}
  \cup {"IPv4"} \X {"opt", "data"}
  \cup {"TCP"} \X {"optdata", "segment", "session", "data", "rtt_3wh"}
  \cup {"DHCP"} \X {"client_hw_addr", "names", "_option", "_opt_type", "_opt_data"}

(* The parameters of the source that one parameter here stands for.        *)
Fixed ==
  [Ethernet |-> {"type", "src", "dst"}, Dot1Q |-> {"type", "vlan_id"},
   PPPoE |-> {"version", "type", "code", "session_id", "payload_length"},
   ARP |-> {"hw_type", "pr_type", "hw_size", "pr_size", "op"},
   IPv4 |-> {"hdr", "src", "dst"}, ICMP |-> {"type", "code", "chksum"},
   UDP |-> {"hdr", "src_port", "dst_port", "length", "chksum"},
   TCP |-> {"src_port", "dst_port", "hdr"},
   DHCP |-> {"msg_type", "hw_type", "hw_addr_len", "hops", "trans_id", "flags",
             "client_addr", "your_client_addr", "next_server_addr",
             "relay_agent_addr", "magic_cookie", "seconds"},
   DNS |-> {"tx_id", "is_query"}, MDNS |-> {"tx_id", "is_query"}]
Sources ==
  [p \in Params |-> {p[1]} \X
    (CASE p[2] = "hdr"       -> Fixed[p[1]]
       [] p[2] = "names"     -> {"server_host_name", "boot_file_name"}
       [] p[2] = "_opt_type" -> {"_opt_type", "_opt_length"}
       [] p[2] = "session"   -> {"id", "tx_server", "tx_client"}
       [] OTHER              -> {p[2]})]

NamesOf == [m \in Modules |-> {name \in ParamNames : name[1] = m}]
ParamOf ==
  [name \in ParamNames |-> {p \in Params : <<name[1], name[2]>> \in Sources[p]}]

MaxOf(S) == CHOOSE n \in S : \A k \in S : k <= n

(* The size of param_ that retain_value() makes sure of for each of them.  *)
Psize == [p \in Params |-> 1 + MaxOf({param_map_[name] : name \in Sources[p]})]

SessionNames == {"TCP"} \X {"tx_server", "tx_client"}

(* The tables above and the registry's agree on the names.  Among a        *)
(* module's parameters, one of its header has the largest id, but for the  *)
(* counters of TCP; those of the name services come before UDP's header.   *)
ASSUME TablesAssumption ==
  /\ params_ \in Seq(ParamNames)
  /\ param_map_ \in [ParamNames -> 0 .. Len(params_) - 1]
  /\ Sources \in [Params -> SUBSET ParamNames]
  /\ NamesOf \in [Modules -> SUBSET ParamNames]
  /\ ParamOf \in [ParamNames -> SUBSET Params]
  /\ Psize \in [Params -> 1 .. Len(params_)]
  /\ \A p \in Params : Sources[p] # {}
  /\ \A m \in Modules : \A name \in NamesOf[m] \ SessionNames :
       param_map_[name] < Psize[<<IF m \in NsMods THEN "UDP" ELSE m, "hdr">>]

VARIABLES
  enable_ssn_mgmt,  \* enable_ssn_mgmt_ of TCP
  pkt,        \* number of the packet in hand, 0 before the first
  next,       \* next of Decoder::decode(), or the loop a module is in
  pd,         \* Payload: ptr_ and end_ as offsets, length_
  size,       \* Property: param_.size(), and param_idx_.size() too
  param,      \* param_, the objects of each parameter
  idx,        \* param_idx_: how many of them belong to the packet
  event,      \* event_
  event_idx,  \* event_idx_
  addr,       \* the packet whose addresses src_addr_ and dst_addr_ hold
  port,       \* the packet whose ports src_port_ and dst_port_ hold
  rr          \* locals of the loop over resource records

propvars == <<size, param, idx, event, event_idx, addr, port>>
vars == <<enable_ssn_mgmt, pkt, next, pd, propvars, rr>>

-----------------------------------------------------------------------------
(* Payload                                                                 *)

reset(len) == [ptr |-> 0, end |-> len, length |-> len]

CanRetain(d, n) == n <= d.length /\ d.ptr + n <= d.end
retain(d, n) == [d EXCEPT !.ptr = @ + n, !.length = @ - n]

\* Mutant: the length is believed.
shrink_any(d, length) == [d EXCEPT !.length = length]
shrink(d, length) == IF length > d.length THEN d ELSE [d EXCEPT !.length = length]

-----------------------------------------------------------------------------
(* Values.  A Value points at bytes of a packet, an Array and a Map at     *)
(* other Values, each named by its parameter and its position there.       *)

Fields == {"name", "type", "data"}
NullRef == <<>>
Bytes(off, len) == [pkt |-> pkt, off |-> off, len |-> len]
NoBytes == [pkt |-> 0, off |-> 0, len |-> 0]
NullPtr == -1

new_value ==
  [active |-> FALSE, at |-> NoBytes, array |-> <<>>, map |-> [f \in Fields |-> NullRef]]

(* clear() of each class of Value.                                         *)
Array_clear(v) == [v EXCEPT !.array = <<>>]
Option_clear(v) == [v EXCEPT !.map = [f \in Fields |-> NullRef]]
NSRecord_clear(v) == [v EXCEPT !.map["data"] = NullRef]
Value_clear(v) == [v EXCEPT !.active = FALSE]
\* Mutant: a Map is cleared like a plain Value.
clear_plain(p, v) == IF p \in Arrays THEN Array_clear(v) ELSE Value_clear(v)
clear(p, v) ==
  CASE p \in Arrays     -> Array_clear(v)
    [] p[2] = "_option" -> Option_clear(v)
    [] p[2] = "records" -> NSRecord_clear(v)
    [] OTHER            -> Value_clear(v)

(* What a step does to a value: set() to some bytes, set_name() and its    *)
(* like on a Map, push() on an Array.                                      *)
SetTo(b) == [at |-> <<b>>, map |-> <<>>, push |-> <<>>]
LinkTo(m) == [at |-> <<>>, map |-> m, push |-> <<>>]
Push(ref) == [at |-> <<>>, map |-> <<>>, push |-> <<ref>>]
Assigned(v, a) ==
  [active |-> v.active \/ a.at # <<>>,
   at     |-> IF a.at # <<>> THEN a.at[1] ELSE v.at,
   array  |-> v.array \o a.push,
   map    |-> [f \in Fields |-> IF f \in DOMAIN a.map THEN a.map[f] ELSE v.map[f]]]

-----------------------------------------------------------------------------
(* Property                                                                *)

\* Mutant: the object used again is always the first.
retain_value_first(p) ==
  IF idx[p] < Len(param[p]) THEN [param[p] EXCEPT ![1] = clear(p, @)]
  ELSE Append(param[p], new_value)
(* The object at the index is cleared and used again, or one is added.     *)
retain_value(p) ==
  IF idx[p] < Len(param[p]) THEN [param[p] EXCEPT ![idx[p] + 1] = clear(p, @)]
  ELSE Append(param[p], new_value)

(* The object that retain_value(p) returns in this step.                   *)
Retained(p) == <<p, idx[p] + 1>>

\* Mutant: the vectors grow up to the id, not beyond it.
Grown_short(ps) == MaxOf({size} \cup {Psize[p] - 1 : p \in ps})
(* Both vectors grow until the id of every parameter in ps is an index;    *)
(* they never shrink.                                                      *)
Grown(ps) == MaxOf({size} \cup {Psize[p] : p \in ps})

(* A step retains the parameters in ps, each once, and changes the newest  *)
(* object of those in val.                                                 *)
Update(ps, val) ==
  /\ size' = Grown(ps)
  /\ idx' = [p \in Params |-> IF p \in ps THEN idx[p] + 1 ELSE idx[p]]
  /\ param' = [p \in Params |->
       LET objs == IF p \in ps THEN retain_value(p) ELSE param[p]
       IN IF p \in DOMAIN val THEN [objs EXCEPT ![idx'[p]] = Assigned(@, val[p])]
          ELSE objs]

(* Module m sets each of its parameters that bytes names.                  *)
Put(m, bytes) ==
  LET ps == {m} \X DOMAIN bytes IN Update(ps, [p \in ps |-> SetTo(bytes[p[2]])])

\* Mutant: event_ is written over but never longer.
push_event_over(evs) ==
  /\ event' = IF event = <<>> THEN evs
              ELSE [i \in 1 .. Len(event) |->
                     IF i \in event_idx + 1 .. event_idx + Len(evs)
                     THEN evs[i - event_idx] ELSE event[i]]
  /\ event_idx' = event_idx + Len(evs)
\* Mutant: event_ only grows.
push_event_append(evs) ==
  /\ event' = event \o evs
  /\ event_idx' = event_idx + Len(evs)
(* One push_event() after the other.                                       *)
push_event(evs) ==
  /\ event' = SubSeq(event, 1, event_idx) \o evs
                \o SubSeq(event, event_idx + Len(evs) + 1, Len(event))
  /\ event_idx' = event_idx + Len(evs)

(* value(): the first value the packet has for the parameter of that name, *)
(* or null_.  An id of a vector that has not grown so far is no index: the *)
(* read is undefined.  The objects of minor parameters are made on the     *)
(* first read and set anew, from the header's bytes, on every one.         *)
Null == [is |-> "null_", at |-> NoBytes]
OutOfRange == [is |-> "undefined", at |-> NoBytes]
InRange(name) == lookup_param_key(name) < size
Held(name) == {p \in ParamOf[name] : idx[p] > 0}
value(name) ==
  IF lookup_param_key(name) = NULL_KEY THEN Null
  ELSE IF ~InRange(name) THEN OutOfRange
  ELSE IF Held(name) = {} THEN Null
  ELSE [is |-> "value", at |-> param[CHOOSE p \in Held(name) : TRUE][1].at]

-----------------------------------------------------------------------------
(* Decoder::decode()                                                       *)

Init ==
  /\ enable_ssn_mgmt = FALSE
  /\ pkt = 0
  /\ next = "new"
  /\ size = 0
  /\ pd = reset(0)
  /\ param = [p \in Params |-> <<>>]
  /\ idx = [p \in Params |-> 0]
  /\ event = <<>>
  /\ event_idx = 0
  /\ addr = 0
  /\ port = 0
  /\ rr = NullRef

(* Property::init() resets the indices, not what they index.               *)
init ==
  /\ idx' = [p \in Params |-> 0]
  /\ event_idx' = 0
  /\ UNCHANGED <<size, param, event, addr, port>>

(* The constructor: init() fills the tables of Registry, checks the keys   *)
(* and sets the modules up; an exception leaves no Machine behind.         *)
Construct(config) ==
  LET failed == ConfigError(config) \/ TypeError(config) IN
  /\ next = "new"
  /\ next' = IF failed THEN "refused" ELSE NONE
  /\ enable_ssn_mgmt' =
       (~failed /\ local_config(config)["TCP.enable_session_mgmt"].val)
  /\ UNCHANGED <<pkt, pd, propvars, rr>>

(* The kernel thread pulls a packet and has it decoded.                    *)
NewPacket(len) ==
  /\ next = NONE
  /\ pkt < MaxPkt
  /\ pkt' = pkt + 1
  /\ init
  /\ pd' = reset(len)
  /\ next' = "Ethernet"
  /\ UNCHANGED <<enable_ssn_mgmt, rr>>

HdrLen == [Ethernet |-> 14, Dot1Q |-> 4, PPPoE |-> 6, ARP |-> 8, IPv4 |-> 20,
           ICMP |-> 4, UDP |-> 8, TCP |-> 20, DHCP |-> 240, DNS |-> 12, MDNS |-> 12]

(* "Not enough packet size": the same first lines in every module.  The    *)
(* module's own event has been pushed already.                             *)
TooShort(m) ==
  /\ next = m
  /\ ~CanRetain(pd, HdrLen[m])
  /\ push_event(<<m>>)
  /\ next' = NONE
  /\ UNCHANGED <<enable_ssn_mgmt, pkt, pd, size, param, idx, addr, port, rr>>

(* Module m gets its header and pushes the events evs of its own.          *)
Enter(m, evs) ==
  /\ next = m
  /\ CanRetain(pd, HdrLen[m])
  /\ push_event(<<m>> \o evs)
  /\ UNCHANGED <<enable_ssn_mgmt, pkt>>
AfterHdr(m) == retain(pd, HdrLen[m])
Hdr(m) == Bytes(pd.ptr, HdrLen[m])

(* A module that takes one header and returns the next module.             *)
Plain(m, nexts) ==
  /\ Enter(m, <<>>)
  /\ pd' = AfterHdr(m)
  /\ Put(m, [hdr |-> Hdr(m)])
  /\ next' \in nexts
  /\ UNCHANGED <<addr, port, rr>>

Ethernet == Plain("Ethernet", {"ARP", "IPv4", "Dot1Q", "PPPoE", NONE})
Dot1Q == Plain("Dot1Q", {"ARP", "IPv4", "PPPoE", NONE})
ICMP == Plain("ICMP", {NONE})

(* The PPP protocol number follows the header: 0x21 is IPv4.               *)
PPPoE ==
  LET d == AfterHdr("PPPoE") IN
  /\ Enter("PPPoE", <<>>)
  /\ Put("PPPoE", [hdr |-> Hdr("PPPoE")])
  /\ IF CanRetain(d, 2)
     THEN pd' = retain(d, 2) /\ next' \in {"IPv4", NONE}
     ELSE pd' = d /\ next' = NONE
  /\ UNCHANGED <<addr, port, rr>>

(* request and reply have an event; the four addresses follow, as far as   *)
(* the packet reaches.                                                     *)
ArpEvents == {<<>>} \cup {<<e>> : e \in event_map.ARP \ {"ARP"}}
ARP ==
  \E hw, pr \in AddrLens, ev \in ArpEvents :
    LET d == AfterHdr("ARP")
        len == [hw_src |-> hw, pr_src |-> pr, hw_dst |-> hw, pr_dst |-> pr]
        off == [hw_src |-> 0, pr_src |-> hw, hw_dst |-> hw + pr, pr_dst |-> 2 * hw + pr]
        held == {a \in DOMAIN len : CanRetain(d, off[a] + len[a])}
        taken == {0} \cup {off[a] + len[a] : a \in held}
    IN /\ Enter("ARP", ev)
       /\ pd' = retain(d, MaxOf(taken))
       /\ Put("ARP", [a \in held \cup {"hdr"} |->
                       IF a = "hdr" THEN Hdr("ARP") ELSE Bytes(d.ptr + off[a], len[a])])
       /\ next' = NONE
       /\ UNCHANGED <<addr, port, rr>>

\* Mutant: an address that is known is kept.
set_addr_once == addr' = IF addr = 0 THEN pkt ELSE addr
set_addr == addr' = pkt
set_port == port' = pkt

(* A header that claims less than itself ends the chain.                   *)
IPv4Invalid ==
  /\ Enter("IPv4", <<>>)
  /\ \E hdr_len \in HdrLens, total_len \in TotalLens : total_len < hdr_len
  /\ pd' = AfterHdr("IPv4")
  /\ next' = NONE
  /\ UNCHANGED <<size, param, idx, addr, port, rr>>

(* Options that the packet does not hold are set from the null pointer all *)
(* the same.                                                               *)
IPv4 ==
  /\ Enter("IPv4", <<>>)
  /\ \E hdr_len \in HdrLens, total_len \in TotalLens :
       LET d1 == AfterHdr("IPv4")
           opt_len == hdr_len - 20
           held == opt_len > 0 /\ CanRetain(d1, opt_len)
           d2 == IF held THEN retain(d1, opt_len) ELSE d1
           d3 == shrink(d2, total_len - hdr_len)
           hdr == [hdr |-> Hdr("IPv4"), data |-> Bytes(d3.ptr, d3.length)]
           opt == Bytes(IF held THEN d1.ptr ELSE NullPtr, opt_len)
       IN /\ total_len >= hdr_len
          /\ pd' = d3
          /\ Put("IPv4", [a \in DOMAIN hdr \cup (IF opt_len > 0 THEN {"opt"} ELSE {}) |->
                           IF a = "opt" THEN opt ELSE hdr[a]])
  /\ set_addr
  /\ next' \in {"ICMP", "TCP", "UDP", NONE}
  /\ UNCHANGED <<port, rr>>

(* The port numbers choose the module, the first rule that fits.           *)
Ports == {53, 5353, 67, 68, 0}
UdpNext(sport, dport) ==
  IF 53 \in {sport, dport} THEN "DNS"
  ELSE IF 5353 \in {sport, dport} THEN "MDNS"
  ELSE IF {sport, dport} \cap {67, 68} # {} THEN "DHCP"
  ELSE NONE
UDP ==
  /\ Enter("UDP", <<>>)
  /\ pd' = AfterHdr("UDP")
  /\ Put("UDP", [hdr |-> Hdr("UDP")])
  /\ set_port
  /\ next' \in {UdpNext(sport, dport) : sport, dport \in Ports}
  /\ UNCHANGED <<addr, rr>>

(* set_properties() and the segment.  An offset below 20 makes optlen wrap *)
(* around, and retain() refuse it.  The session code ends a packet with at *)
(* most one of its events (TcpSession), and gives it data if the segment   *)
(* is accepted.  The other values it makes are copies.                     *)
TcpEvents == {<<>>} \cup {<<e>> : e \in event_map.TCP \ {"TCP"}}
Copy == Bytes(0, 0)
TCP ==
  \E offset \in Offsets, ev \in TcpEvents, accepted \in BOOLEAN :
    LET d1 == AfterHdr("TCP")
        optlen == (offset - 20) % SizeMod
        d2 == retain(d1, optlen)
        ok == CanRetain(d1, optlen)
        ssn == ok /\ enable_ssn_mgmt
        has == [hdr |-> TRUE, optdata |-> ok /\ optlen > 0, segment |-> ok /\ d2.length > 0,
                session |-> ssn, data |-> accepted, rtt_3wh |-> ev = <<"TCP.established">>]
        all == [hdr |-> Hdr("TCP"), optdata |-> Bytes(d1.ptr, optlen),
                segment |-> Bytes(d2.ptr, d2.length), session |-> Copy, rtt_3wh |-> Copy,
                data |-> Bytes(IF d2.length > 0 THEN d2.ptr ELSE NullPtr, d2.length)]
    IN /\ ev # <<>> => accepted
       /\ accepted => ssn
       /\ Enter("TCP", ev)
       /\ pd' = IF ok THEN retain(d2, d2.length) ELSE d1
       /\ Put("TCP", [a \in {a \in DOMAIN has : has[a]} |-> all[a]])
       /\ set_port
       /\ next' = NONE
       /\ UNCHANGED <<addr, rr>>

-----------------------------------------------------------------------------
(* DHCP: the header, then options until 0xFF or the end of the bytes.      *)
(* _opt_type stands for _opt_length too.                                   *)

(* client_hw_addr_ is at offset 28 and is given the length the packet says;*)
(* the names behind it are set only when they are not empty (one parameter *)
(* stands for server_host_name and boot_file_name).                        *)
DHCP ==
  /\ Enter("DHCP", <<>>)
  /\ pd' = AfterHdr("DHCP")
  /\ \E len \in AddrLens, names \in SUBSET {"names"} :
       LET all == [hdr |-> Hdr("DHCP"), client_hw_addr |-> Bytes(pd.ptr + 28, len),
                   names |-> Bytes(pd.ptr + 44, 192)]
           set == {"DHCP"} \X ({"hdr", "client_hw_addr"} \cup names)
       IN Update(set \cup {<<"DHCP", "options">>}, [p \in set |-> SetTo(all[p[2]])])
  /\ next' = "DHCP.options"
  /\ UNCHANGED <<addr, port, rr>>

\* Mutant: the loop goes on when no option header is left.
DhcpEnd_retry ==
  /\ next = "DHCP.options"
  /\ pd' = IF CanRetain(pd, 2) THEN retain(pd, 2) ELSE pd
  /\ next' = IF CanRetain(pd, 2) THEN NONE ELSE next
  /\ UNCHANGED <<enable_ssn_mgmt, pkt, propvars, rr>>
(* No option header left, End of Option, or (after its header) an option   *)
(* that is longer than what is left.                                       *)
DhcpEnd ==
  /\ next = "DHCP.options"
  /\ pd' = IF CanRetain(pd, 2) THEN retain(pd, 2) ELSE pd
  /\ next' = NONE
  /\ UNCHANGED <<enable_ssn_mgmt, pkt, propvars, rr>>

DhcpOption ==
  LET option == <<"DHCP", "_option">>
      type == <<"DHCP", "_opt_type">>
      data == <<"DHCP", "_opt_data">>
      d == retain(pd, 2) IN
  /\ next = "DHCP.options"
  /\ CanRetain(pd, 2)
  /\ \E len \in DataLens :
       /\ CanRetain(d, len)
       /\ pd' = retain(d, len)
       /\ Update({option, type, data},
            [p \in {option, type, data, <<"DHCP", "options">>} |->
              CASE p = option -> LinkTo([type |-> Retained(type), data |-> Retained(data)])
                [] p = type   -> SetTo(Bytes(pd.ptr, 1))
                [] p = data   -> SetTo(Bytes(d.ptr, len))
                [] OTHER      -> Push(Retained(option))])
  /\ UNCHANGED <<enable_ssn_mgmt, pkt, next, event, event_idx, addr, port, rr>>

-----------------------------------------------------------------------------
(* NameService::ns_decode(), for DNS and MDNS.                             *)

Records(count, n) ==
  LET sum[t \in 0 .. n] == IF t = 0 THEN 0 ELSE sum[t - 1] + count[t - 1] IN sum[n]

NsEvents == [m \in NsMods |-> event_map[m] \ {m}]

(* The header; the cursor then moves to the end and ptr goes on by itself. *)
NsHeader(m) ==
  LET d == AfterHdr(m) IN
  \E count \in RrCounts, ev \in NsEvents[m] :
    /\ Enter(m, <<ev>>)
    /\ pd' = retain(d, d.length)
    /\ Put(m, [hdr |-> Hdr(m)])
    /\ rr' = [mod |-> m, count |-> count, c |-> 0, target |-> 0, rr_c |-> 0,
              arr |-> NullRef, ptr |-> d.ptr, ep |-> d.ptr + d.length]
    /\ next' = "records"
    /\ UNCHANGED <<addr, port>>

\* Mutant: the next section goes on filling the array of the one before.
Located_same(r) ==
  LET later == {t \in 0 .. 3 : t > r.target /\ r.count[t] > 0} IN
  IF r.rr_c < r.count[r.target] THEN r
  ELSE [r EXCEPT !.target = CHOOSE t \in later : \A u \in later : t <= u, !.rr_c = 0]
(* r after the while loop that looks for the section of the next record.   *)
Located(r) ==
  LET later == {t \in 0 .. 3 : t > r.target /\ r.count[t] > 0} IN
  IF r.rr_c < r.count[r.target] THEN r
  ELSE [r EXCEPT !.target = CHOOSE t \in later : \A u \in later : t <= u,
                 !.rr_c = 0, !.arr = NullRef]

(* The array of the section, retained with its first record.               *)
Array(r) == IF r.arr = NullRef THEN Retained(p_record(r.mod, r.target)) ELSE r.arr

(* The record exists once it has bytes at all, whatever they hold; set is  *)
(* what this iteration gets to set of its type and its data.               *)
File(r, set) ==
  LET m == r.mod
      rec == <<m, "records">>
      bytes == [n \in {"name"} \cup DOMAIN set |->
                 IF n = "name" THEN Bytes(r.ptr, r.ep - r.ptr) ELSE set[n]]
      new == {m} \X ({"records", "name", "type"} \cup DOMAIN set)
      links == [n \in {"name", "type"} \cup DOMAIN set |-> Retained(<<m, n>>)]
  IN Update(new \cup (IF r.arr = NullRef THEN {Array(r)[1]} ELSE {}),
       [p \in {rec, Array(r)[1]} \cup ({m} \X DOMAIN bytes) |->
         CASE p = rec         -> LinkTo(links)
           [] p = Array(r)[1] -> Push(Retained(rec))
           [] OTHER           -> SetTo(bytes[p[2]])])

InRecords ==
  /\ next = "records"
  /\ UNCHANGED <<enable_ssn_mgmt, pkt, pd, event, event_idx, addr, port>>

(* All records read, or no byte left for the next one.                     *)
NsEnd ==
  /\ InRecords
  /\ rr.c = Records(rr.count, 4) \/ rr.ep <= rr.ptr
  /\ next' = NONE
  /\ rr' = NullRef
  /\ UNCHANGED <<size, param, idx>>

(* One iteration.  parse_label() fails or returns a pointer p behind the   *)
(* name, at most ep; name and data are the lengths of the name and of the  *)
(* resource data.  A question has no resource data.                        *)
NsReady ==
  /\ InRecords
  /\ rr.c < Records(rr.count, 4)
  /\ rr.ptr < rr.ep
Names == DataLens \cap (1 .. rr.ep - rr.ptr)

GoOn(r, ptr) ==
  /\ rr' = [r EXCEPT !.c = @ + 1, !.rr_c = @ + 1, !.arr = Array(r), !.ptr = ptr]
  /\ UNCHANGED next

NsQuestion ==
  /\ NsReady
  /\ \E name \in Names, r \in {Located(rr)} :
       LET p == r.ptr + name
       IN /\ r.c < r.count[0]
          /\ r.ep - p >= 4
          /\ File(r, [type |-> Bytes(p, 2)])
          /\ GoOn(r, p + 4)

NsAnswer ==
  /\ NsReady
  /\ \E name \in Names, data \in DataLens, r \in {Located(rr)} :
       LET p == r.ptr + name
       IN /\ r.c >= r.count[0]
          /\ r.ep - p >= 10 + data
          /\ File(r, [type |-> Bytes(p, 2), data |-> Bytes(p + 10, data)])
          /\ GoOn(r, p + 10 + data)

(* The label or the type, or the resource data, cannot be read.            *)
NsBroken ==
  /\ NsReady
  /\ \E r \in {Located(rr)} :
       \/ File(r, <<>>)
       \/ \E name \in Names, data \in DataLens :
            LET p == r.ptr + name
            IN /\ r.ep - p >= 4
               /\ r.c >= r.count[0]
               /\ r.ep - p < 10 + data
               /\ File(r, [type |-> Bytes(p, 2)])
  /\ next' = NONE
  /\ rr' = NullRef

-----------------------------------------------------------------------------
Decode ==
  \/ \E m \in Modules : TooShort(m)
  \/ Ethernet \/ Dot1Q \/ PPPoE \/ ARP \/ IPv4 \/ IPv4Invalid
  \/ ICMP \/ UDP \/ TCP
  \/ DHCP \/ DhcpOption \/ DhcpEnd
  \/ \E m \in NsMods : NsHeader(m)
  \/ NsQuestion \/ NsAnswer \/ NsBroken \/ NsEnd

(* The stream of packets has come to its end, or there is no Machine.      *)
Finished == (next = "refused" \/ (next = NONE /\ pkt = MaxPkt)) /\ UNCHANGED vars

Next ==
  \/ \E config \in Configs : Construct(config)
  \/ \E len \in PktLens : NewPacket(len)
  \/ Decode
  \/ Finished

Spec == Init /\ [][Next]_vars
FairSpec == Spec /\ WF_vars(Decode)

-----------------------------------------------------------------------------
(* Properties                                                              *)

Refs == {NullRef} \cup (Params \X Nat)
Values ==
  [active : BOOLEAN, at : [pkt : 0 .. MaxPkt, off : Nat \cup {NullPtr}, len : Nat],
   array : Seq(Params \X Nat), map : [Fields -> Refs]]
Events == UNION {event_map[m] : m \in Modules}

(* Types, and the two assertions on indices that Property relies on: both  *)
(* stay within the vectors they index (property.cc:141, 163).              *)
DecoderTypeOK ==
  /\ pkt \in 0 .. MaxPkt
  /\ enable_ssn_mgmt \in BOOLEAN
  /\ next \in Modules \cup {"new", "refused", NONE, "DHCP.options", "records"}
  /\ pd \in [ptr : Nat, end : Nat, length : Nat]
  /\ size \in 0 .. Len(params_)
  /\ \A p \in Params :
       /\ idx[p] \in 0 .. Len(param[p])
       /\ \A i \in 1 .. Len(param[p]) : param[p][i] \in Values
  /\ event_idx \in 0 .. Len(event)
  /\ \A i \in 1 .. Len(event) : event[i] \in Events
  /\ addr \in 0 .. MaxPkt /\ port \in 0 .. MaxPkt

Visible(p) == 1 .. idx[p]

(* Two parameters take a length or a pointer from the packet unchecked:    *)
(* IPv4.opt is the null pointer when the packet ends inside the options    *)
(* (ipv4.cc:148-149), and DHCP.client_hw_addr is as long as hw_addr_len_   *)
(* says, up to 255 bytes from offset 28 of a header of 240 (dhcp.cc:166).  *)
Overshoot(p) == IF p = <<"DHCP", "client_hw_addr">> THEN 28 + 255 - 240 ELSE 0

(* Every value a callback can see points at bytes inside the packet, and   *)
(* what Payload offers to the next module does too - whatever the lengths  *)
(* in the headers claim.  The exceptions are IPv4.opt, at worst null, and  *)
(* DHCP.client_hw_addr, at worst 43 bytes too long.                        *)
ValuesInPacket ==
  /\ pd.ptr + pd.length <= pd.end
  /\ \A p \in Params : \A i \in Visible(p) :
       LET v == param[p][i].at
       IN param[p][i].active /\ v.len > 0 =>
            \/ v.off >= 0 /\ v.off + v.len <= pd.end + Overshoot(p)
            \/ v.off = NullPtr /\ p = <<"IPv4", "opt">>

(* Objects are used again for packet after packet, but nothing of an       *)
(* earlier packet shows: a visible value was set from this packet, and the *)
(* arrays and maps in sight refer to visible values only.                  *)
NothingStale ==
  \A p \in Params : \A i \in Visible(p) :
    LET v == param[p][i]
        refs == {v.array[k] : k \in 1 .. Len(v.array)} \cup {v.map[f] : f \in Fields}
    IN /\ v.active => v.at.pkt = pkt
       /\ \A ref \in refs \ {NullRef} : ref[2] \in Visible(ref[1])

(* value() and has_value() index vectors that retain_value() has grown no  *)
(* further than the largest id used so far.  In the callbacks of a packet  *)
(* of which a module has taken its header, whatever packets came before:   *)
(* every parameter of that module can be read, minor ones included.  Only  *)
(* the counters of TCP, whose ids are beyond those of its header, need the *)
(* session code to have run.                                               *)
OwnReadsDefined ==
  next = NONE => \A m \in Modules : idx[<<m, "hdr">>] > 0 =>
    \A name \in NamesOf[m] :
      InRange(name) \/ (name \in SessionNames /\ idx[<<"TCP", "session">>] = 0)

(* A value that one module has set stays as it is for the rest of the      *)
(* chain: later retain_value() calls for the packet take other objects.    *)
ValuesKept ==
  [][pkt' = pkt => \A p \in Params : \A i \in Visible(p) :
       param[p][i].active => param'[p][i] = param[p][i]]_vars

After ==
  [e \in Events |->
    CASE e = "Ethernet" -> {"ARP", "IPv4", "Dot1Q", "PPPoE"}
      [] e = "Dot1Q"    -> {"ARP", "IPv4", "PPPoE"}
      [] e = "PPPoE"    -> {"IPv4"}
      [] e = "IPv4"     -> {"ICMP", "TCP", "UDP"}
      [] e = "UDP"      -> {"DNS", "MDNS", "DHCP"}
      [] e = "ARP"      -> {"ARP.request", "ARP.reply"}
      [] e = "TCP"      -> {"TCP.new_session", "TCP.established", "TCP.closed"}
      [] e \in NsMods   -> NsEvents[e]
      [] OTHER          -> {}]

(* The events handed to the kernel are this packet's layers from Ethernet  *)
(* inwards, each once and none of an earlier packet: a path of the         *)
(* protocol stack that the module about to run continues.                  *)
EventsFollowStack ==
  /\ event_idx > 0 => event[1] = "Ethernet"
  /\ \A i \in 1 .. event_idx - 1 : event[i + 1] \in After[event[i]]
  /\ next \in Modules =>
       IF event_idx = 0 THEN next = "Ethernet"
       ELSE next \in After[event[event_idx]]

(* Property::init() does not touch the addresses and the ports.  Still, a  *)
(* transport module never works with those of an earlier packet: when TCP  *)
(* makes its session key, all four belong to this one (tcp.cc:666).        *)
KeyIsOfThisPacket ==
  \A m \in {"TCP", "UDP"} :
    /\ next = m => addr = pkt
    /\ idx[<<m, "hdr">>] > 0 => addr = pkt /\ port = pkt

InSection(r, t) ==
  LET p == p_record(r.mod, t)
  IN IF idx[p] = 0 THEN <<>> ELSE param[p][1].array
Counted(r) ==
  /\ r.c = Records(r.count, r.target) + r.rr_c
  /\ r.rr_c <= r.count[r.target]
Sectioned(r) ==
  \A t \in 0 .. 3 :
    /\ idx[p_record(r.mod, t)] <= 1
    /\ Len(InSection(r, t)) = IF t < r.target THEN r.count[t]
                              ELSE IF t = r.target THEN r.rr_c ELSE 0
    /\ \A k \in 1 .. Len(InSection(r, t)) :
         LET ref == InSection(r, t)[k]
         IN (param[ref[1]][ref[2]].map["data"] # NullRef) <=> t # 0

(* The records of a message are filed by the counts in its header: c,      *)
(* target and rr_c agree, so that target stays below RR_CNT (utils.cc:148);*)
(* each section has one array with its records; and a record has resource  *)
(* data exactly when it is not a question.                                 *)
SectionsFiled == next = "records" => Counted(rr) /\ Sectioned(rr)

(* decode() ends on every packet.                                          *)
DecodeEnds == next \notin {"new", NONE} ~> next \in {NONE, "refused"}

-----------------------------------------------------------------------------
(* Contradicted by the code.                                               *)

(* docs/api.md: if the value "does not exist, the method returns `static   *)
(* Value Property::null_`".  In a callback - the packet is decoded - a     *)
(* known name whose id no packet has come up to so far is read from behind *)
(* the end of param_idx_.                                                  *)
AbsentIsNull ==
  next = NONE /\ pkt > 0 => \A name \in ParamNames : value(name) # OutOfRange
=============================================================================
