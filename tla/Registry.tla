------------------------------ MODULE Registry ------------------------------
(***************************************************************************)
(* What Decoder::init() builds once, from the definitions in the modules'  *)
(* constructors: the ids of modules and parameters, the tables from names  *)
(* to definitions, and the configuration that each module is set up with.  *)
(*                                                                         *)
(* The modules and each module's parameters are kept in std::maps, so ids  *)
(* follow the order of the names ("_" comes before the small letters), not *)
(* the order of the definitions.  A name is the tuple of its parts:        *)
(* "TCP.hdr.seq" is <<"TCP", "hdr", "seq">>.                               *)
(***************************************************************************)
EXTENDS Integers, Sequences

modules_ == <<"ARP", "DHCP", "DNS", "Dot1Q", "Ethernet", "ICMP", "IPv4", "IPv6",
              "MDNS", "PPPoE", "TCP", "UDP">>

(* define_param() and define_major_param(): the parameters of each module. *)
NsParams == <<"additional", "answer", "authority", "data", "is_query", "name",
              "question", "records", "tx_id", "type">>
param_map ==
  [ARP      |-> <<"hw_dst", "hw_size", "hw_src", "hw_type", "op", "pr_dst",
                  "pr_size", "pr_src", "pr_type">>,
   DHCP     |-> <<"_opt_data", "_opt_length", "_opt_type", "_option",
                  "boot_file_name", "client_addr", "client_hw_addr", "flags",
                  "hops", "hw_addr_len", "hw_type", "magic_cookie", "msg_type",
                  "next_server_addr", "options", "relay_agent_addr", "seconds",
                  "server_host_name", "trans_id", "your_client_addr">>,
   DNS      |-> NsParams,
   Dot1Q    |-> <<"type", "vlan_id">>,
   Ethernet |-> <<"dst", "src", "type">>,
   ICMP     |-> <<"chksum", "code", "type">>,
   IPv4     |-> <<"data", "dst", "hdr", "opt", "src">>,
   IPv6     |-> <<"data", "hdr", "opt">>,
   MDNS     |-> NsParams,
   PPPoE    |-> <<"code", "payload_length", "session_id", "type", "version">>,
   TCP      |-> <<"data", "dst_port", "hdr", "id", "optdata", "rtt_3wh",
                  "segment", "src_port", "tx_client", "tx_server">>,
   UDP      |-> <<"chksum", "dst_port", "hdr", "length", "src_port">>]

(* define_minor(): the fields of the header parameters.                    *)
minor_map ==
  [IPv4 |-> {"tos", "total_len", "id", "offset", "ttl", "proto", "chksum",
             "hdr_len", "ver"},
   IPv6 |-> {"flags", "data_len", "next_hdr", "hop_limit", "version",
             "traffic_class", "flow_label"},
   TCP  |-> {"offset", "seq", "ack", "flags", "window", "chksum", "urgptr",
             "flag_fin", "flag_syn", "flag_rst", "flag_push", "flag_ack",
             "flag_urg", "flag_ece", "flag_cwr"},
   UDP  |-> {"length", "chksum"}]

(* define_event(): each module's own event, "" in the code, and the ones   *)
(* it defines, under the names that init() gives them.                     *)
event_map ==
  [ARP      |-> {"ARP", "ARP.request", "ARP.reply"},
   DHCP     |-> {"DHCP"},
   DNS      |-> {"DNS", "DNS.query", "DNS.reply"},
   Dot1Q    |-> {"Dot1Q"},
   Ethernet |-> {"Ethernet"},
   ICMP     |-> {"ICMP"},
   IPv4     |-> {"IPv4"},
   IPv6     |-> {"IPv6"},
   MDNS     |-> {"MDNS", "MDNS.query", "MDNS.reply"},
   PPPoE    |-> {"PPPoE"},
   TCP      |-> {"TCP", "TCP.new_session", "TCP.established", "TCP.closed"},
   UDP      |-> {"UDP"}]

(* The second loop of init(): the parameter behind params_[i + 1] has id i.*)
params_ ==
  LET named(m) == [k \in DOMAIN param_map[m] |-> <<m, param_map[m][k]>>]
      upto[i \in 0 .. Len(modules_)] ==
        IF i = 0 THEN <<>> ELSE upto[i - 1] \o named(modules_[i])
  IN upto[Len(modules_)]

Minors == UNION {{<<m, "hdr", f>> : f \in minor_map[m]} : m \in DOMAIN minor_map}
ParamNames == {params_[i] : i \in DOMAIN params_} \cup Minors

(* param_map_: a minor parameter has the id of the parameter it is part of *)
(* (MajorParamDef::finalize()).                                            *)
param_map_ ==
  [name \in ParamNames |->
     (CHOOSE i \in DOMAIN params_ : params_[i] = <<name[1], name[2]>>) - 1]

NULL_KEY == -1
lookup_param_key(name) == IF name \in ParamNames THEN param_map_[name] ELSE NULL_KEY

-----------------------------------------------------------------------------
(* Config: a map from names to typed values.                               *)

BoolValue(b) == [type |-> "Bool", val |-> b]
IntValue(n) == [type |-> "Int", val |-> n]
Config_set(config, key, val) ==
  [k \in DOMAIN config \cup {key} |-> IF k = key THEN val ELSE config[k]]
Config_has(config, key) == key \in DOMAIN config

(* define_config(): the keys, all of them TCP's, with their defaults.      *)
config_map_ ==
  [key \in {"TCP.enable_session_mgmt", "TCP.session_table_size",
            "TCP.session_timeout"} |->
     CASE key = "TCP.enable_session_mgmt" -> BoolValue(TRUE)
       [] key = "TCP.session_table_size"  -> IntValue(65521)
       [] key = "TCP.session_timeout"     -> IntValue(300)]

(* A key that no module has defined is a ConfigError.                      *)
ConfigError(config) == \E key \in DOMAIN config : ~Config_has(config_map_, key)

(* What the modules are set up with: the application's value or else the   *)
(* default.                                                                *)
local_config(config) ==
  [key \in DOMAIN config_map_ |->
     IF Config_has(config, key) THEN config[key] ELSE config_map_[key]]

(* as_bool() and as_int() throw on a value of another type: TCP::setup()   *)
(* asks for the types of the defaults.                                     *)
TypeError(config) ==
  \E key \in DOMAIN config_map_ :
    local_config(config)[key].type # config_map_[key].type
=============================================================================
